------------------------------- MODULE Parser -------------------------------
(***************************************************************************)
(* The parser of LibYAML (parser.c): a state machine with a stack of       *)
(* states that turns tokens into events, one event for each call of        *)
(* yaml_parser_parse.  An action below is one such call.                   *)
(*                                                                         *)
(* The token at the head of the queue is kept as reader.token, chosen when *)
(* the one before it is skipped; "NO-TOKEN" is a scanner that fails when   *)
(* the parser peeks.  What tokens may follow each other is up to Scan.     *)
(* Allocation does not fail.                                               *)
(***************************************************************************)
EXTENDS Naturals, SequencesExt

CONSTANTS Scan(_),      \* the tokens a scanner may deliver in a state of its
                        \* own, each with the state it leaves behind
          ScannerStart, \* the scanner's first state
          MaxRun        \* longest run of directives or of "..." (bound)

ASSUME ParserAssumption == MaxRun \in Nat

VARIABLES state,          \* parser->state
          states,         \* parser->states
          marks,          \* parser->marks, each by the token it points at
          tagDirectives,  \* parser->tag_directives, by their handles
          reader,         \* the next token, the scanner behind it, and
                          \* stream_end_produced
          error,          \* parser->error is set
          event,          \* what the last call returned
          phase, open     \* history: what a consumer of the events has seen

vars == <<state, states, marks, tagDirectives, reader, error, event,
          phase, open>>

Grammar == INSTANCE EventGrammar

States ==
    {"STREAM_START", "IMPLICIT_DOCUMENT_START", "DOCUMENT_START",
     "DOCUMENT_CONTENT", "DOCUMENT_END", "BLOCK_NODE",
     "BLOCK_SEQUENCE_FIRST_ENTRY", "BLOCK_SEQUENCE_ENTRY",
     "INDENTLESS_SEQUENCE_ENTRY",
     "BLOCK_MAPPING_FIRST_KEY", "BLOCK_MAPPING_KEY", "BLOCK_MAPPING_VALUE",
     "FLOW_SEQUENCE_FIRST_ENTRY", "FLOW_SEQUENCE_ENTRY",
     "FLOW_SEQUENCE_ENTRY_MAPPING_KEY", "FLOW_SEQUENCE_ENTRY_MAPPING_VALUE",
     "FLOW_SEQUENCE_ENTRY_MAPPING_END",
     "FLOW_MAPPING_FIRST_KEY", "FLOW_MAPPING_KEY", "FLOW_MAPPING_VALUE",
     "FLOW_MAPPING_EMPTY_VALUE", "END"}

DirectiveTypes == {"VERSION-DIRECTIVE", "TAG-DIRECTIVE"}
FlowStarts     == {"FLOW-SEQUENCE-START", "FLOW-MAPPING-START"}
BlockStarts    == {"BLOCK-SEQUENCE-START", "BLOCK-MAPPING-START"}

Handles == ToSet(tagDirectives)

-----------------------------------------------------------------------------
(* Reading tokens.                                                         *)

Reads(source, ended) == {[token |-> s.token, source |-> s.source,
                          ended |-> ended] : s \in Scan(source)}

(* SKIP_TOKEN, with the peek at the token after it.                        *)
Skip(r) == Reads(r.source, r.token.type = "STREAM-END")

(* The readers behind a run of "...".                                      *)
BehindDocumentEnds(r) ==
    LET ends[n \in 0..MaxRun] ==
            IF n = 0 THEN {r}
            ELSE UNION {IF q.token.type = "DOCUMENT-END" THEN Skip(q) ELSE {q}
                          : q \in ends[n - 1]}
    IN  {q \in ends[MaxRun] : q.token.type # "DOCUMENT-END"}

-----------------------------------------------------------------------------
(* What a call returns: an event, or a failure.  phase and open follow the *)
(* events the way a consumer would.                                        *)

Emit(e) == /\ event' = e
           /\ phase' = Grammar!PhaseAfter(e)
           /\ open' = Grammar!OpenAfter(e)
           /\ UNCHANGED error

Fail(r, base) == /\ error' = TRUE
                 /\ event' = "NO-EVENT"
                 /\ phase' = "failed"
                 /\ reader' = r
                 /\ states' = base
                 /\ UNCHANGED <<state, open>>

(* state = POP(states), over a stack that may just have been pushed.       *)
Return(base) == /\ state' = Last(base)
                /\ states' = Front(base)

EmptyScalar(r, next) == /\ state' = next
                        /\ reader' = r
                        /\ Emit("SCALAR")
                        /\ UNCHANGED states

EndCollection(r, e) == /\ Return(states)
                       /\ reader' \in Skip(r)
                       /\ Emit(e)

-----------------------------------------------------------------------------
(* yaml_parser_parse_node.                                                 *)

Anchored(r) == IF r.token.type = "ANCHOR" THEN Skip(r) ELSE {r}

(* The readers behind a tag, with its handle.                              *)
Tagged(r) == IF r.token.type = "TAG"
             THEN {[next |-> q, handles |-> {r.token.text}] : q \in Skip(r)}
             ELSE {[next |-> r, handles |-> {}]}

(* An anchor and a tag in either order.                                    *)
Properties(r) ==
    IF r.token.type = "TAG"
    THEN UNION {{[p EXCEPT !.next = q] : q \in Anchored(p.next)} : p \in Tagged(r)}
    ELSE UNION {Tagged(q) : q \in Anchored(r)}

(* An empty handle stands for a verbatim tag.                              *)
Resolved(handles) == handles \subseteq Handles \cup {""}

(* Mutant: an indentless sequence taken for a block sequence.              *)
FirstStateIndented(type) ==
    CASE type \in {"BLOCK-SEQUENCE-START", "BLOCK-ENTRY"} ->
            "BLOCK_SEQUENCE_FIRST_ENTRY"
      [] type = "FLOW-SEQUENCE-START"  -> "FLOW_SEQUENCE_FIRST_ENTRY"
      [] type = "FLOW-MAPPING-START"   -> "FLOW_MAPPING_FIRST_KEY"
      [] type = "BLOCK-MAPPING-START"  -> "BLOCK_MAPPING_FIRST_KEY"

(* The collection that a token starts.  The token itself is left for the   *)
(* state of the first entry, except that an indentless sequence has none.  *)
FirstState(type) ==
    CASE type = "BLOCK-ENTRY"          -> "INDENTLESS_SEQUENCE_ENTRY"
      [] type = "FLOW-SEQUENCE-START"  -> "FLOW_SEQUENCE_FIRST_ENTRY"
      [] type = "FLOW-MAPPING-START"   -> "FLOW_MAPPING_FIRST_KEY"
      [] type = "BLOCK-SEQUENCE-START" -> "BLOCK_SEQUENCE_FIRST_ENTRY"
      [] type = "BLOCK-MAPPING-START"  -> "BLOCK_MAPPING_FIRST_KEY"

StartEvent(type) ==
    IF type \in {"FLOW-MAPPING-START", "BLOCK-MAPPING-START"}
    THEN "MAPPING-START" ELSE "SEQUENCE-START"

(* What follows the properties, r being the reader behind them.            *)
Content(r, found, base, block, indentless) ==
    LET type   == r.token.type
        Starts == FlowStarts \cup (IF block THEN BlockStarts ELSE {})
                             \cup (IF indentless THEN {"BLOCK-ENTRY"} ELSE {})
    IN  \/ /\ type \in Starts
           /\ state' = FirstState(type)
           /\ states' = base
           /\ reader' = r
           /\ Emit(StartEvent(type))
        \/ /\ type = "SCALAR"
           /\ Return(base)
           /\ reader' \in Skip(r)
           /\ Emit("SCALAR")
        \/ /\ type \notin Starts \cup {"SCALAR"}
           /\ found
           /\ Return(base)
           /\ reader' = r
           /\ Emit("SCALAR")
        \/ /\ type \notin Starts \cup {"SCALAR"}
           /\ ~found
           /\ Fail(r, base)

(* base is the stack of states with what the caller has pushed.            *)
Node(r, base, block, indentless) ==
    /\ UNCHANGED tagDirectives
    /\ \/ /\ r.token.type = "ALIAS"
          /\ Return(base)
          /\ reader' \in Skip(r)
          /\ Emit("ALIAS")
       \/ /\ r.token.type # "ALIAS"
          /\ \E p \in Properties(r) :
               IF p.next.token.type = "NO-TOKEN" \/ ~Resolved(p.handles)
               THEN Fail(p.next, base)
               ELSE Content(p.next, r.token.type \in {"ANCHOR", "TAG"},
                            base, block, indentless)

(* The node of an entry, unless one of the tokens in enders says that it   *)
(* is empty; next is the state behind it.                                  *)
NodeUnless(r, enders, next, block, indentless) ==
    \/ /\ r.token.type = "NO-TOKEN"
       /\ Fail(r, states)
       /\ UNCHANGED tagDirectives
    \/ /\ r.token.type \in enders
       /\ EmptyScalar(r, next)
       /\ UNCHANGED tagDirectives
    \/ /\ r.token.type \notin enders \cup {"NO-TOKEN"}
       /\ Node(r, Append(states, next), block, indentless)

-----------------------------------------------------------------------------
(* Streams and documents.                                                  *)

Init == /\ state = "STREAM_START"
        /\ states = <<>>
        /\ marks = <<>>
        /\ tagDirectives = <<>>
        /\ reader \in Reads(ScannerStart, FALSE)
        /\ error = FALSE
        /\ event = "NO-EVENT"
        /\ Grammar!GrammarInit

Token == reader.token.type

(* yaml_parser_parse once the stream is over or an error was found.        *)
NoEvent == /\ reader.ended \/ error \/ state = "END"
           /\ event' = "NO-EVENT"
           /\ UNCHANGED <<state, states, marks, tagDirectives, reader, error,
                          phase, open>>

(* yaml_parser_parse asks the state machine only before that.              *)
InState(s) == /\ ~reader.ended /\ ~error
              /\ state = s

ParseStreamStart ==
    /\ InState("STREAM_START")
    /\ UNCHANGED <<marks, tagDirectives>>
    /\ \/ /\ Token = "STREAM-START"
          /\ state' = "IMPLICIT_DOCUMENT_START"
          /\ reader' \in Skip(reader)
          /\ Emit("STREAM-START")
          /\ UNCHANGED states
       \/ /\ Token # "STREAM-START"
          /\ Fail(reader, states)

(* One directive of yaml_parser_process_directives; d.handles is           *)
(* parser->tag_directives so far.                                          *)
ProcessDirective(d) ==
    LET token == d.next.token IN
    IF d.fails \/ token.type \notin DirectiveTypes THEN {d}
    ELSE IF token.type = "VERSION-DIRECTIVE"
    THEN IF d.version \/ token.text = "incompatible"
         THEN {[d EXCEPT !.fails = TRUE]}
         ELSE {[d EXCEPT !.version = TRUE, !.next = q] : q \in Skip(d.next)}
    ELSE IF token.text \in ToSet(d.handles)
         THEN {[d EXCEPT !.fails = TRUE]}
         ELSE {[d EXCEPT !.handles = Append(@, token.text), !.next = q]
                 : q \in Skip(d.next)}

(* The default handles, unless a directive has defined them.               *)
WithDefault(handles, h) == IF h \in ToSet(handles) THEN handles ELSE Append(handles, h)
Defaulted(handles) == WithDefault(WithDefault(handles, "!"), "!!")

ProcessDirectives(r) ==
    LET runs[n \in 0..MaxRun] ==
            IF n = 0 THEN {[next |-> r, version |-> FALSE, fails |-> FALSE,
                            handles |-> tagDirectives]}
            ELSE UNION {ProcessDirective(d) : d \in runs[n - 1]}
    IN  {IF d.fails THEN d
         ELSE IF d.next.token.type = "NO-TOKEN" THEN [d EXCEPT !.fails = TRUE]
         ELSE [d EXCEPT !.handles = Defaulted(@)]
           : d \in {e \in runs[MaxRun] :
                      e.fails \/ e.next.token.type \notin DirectiveTypes}}

(* The handles are kept even when the call fails behind the directives.    *)
ParseDocument(r) ==
    \E d \in ProcessDirectives(r) :
       /\ tagDirectives' = d.handles
       /\ \/ /\ d.fails \/ d.next.token.type # "DOCUMENT-START"
             /\ Fail(d.next, states)
          \/ /\ ~d.fails /\ d.next.token.type = "DOCUMENT-START"
             /\ states' = Append(states, "DOCUMENT_END")
             /\ state' = "DOCUMENT_CONTENT"
             /\ reader' \in Skip(d.next)
             /\ Emit("DOCUMENT-START")

(* Mutant: the state that ends the document is not pushed.                 *)
ParseImplicitDocumentUnpushed(r) ==
    /\ tagDirectives' = Defaulted(tagDirectives)
    /\ state' = "BLOCK_NODE"
    /\ reader' = r
    /\ Emit("DOCUMENT-START")
    /\ UNCHANGED states

ParseImplicitDocument(r) ==
    /\ tagDirectives' = Defaulted(tagDirectives)
    /\ states' = Append(states, "DOCUMENT_END")
    /\ state' = "BLOCK_NODE"
    /\ reader' = r
    /\ Emit("DOCUMENT-START")

ParseStreamEnd(r) == /\ state' = "END"
                     /\ reader' \in Skip(r)
                     /\ Emit("STREAM-END")
                     /\ UNCHANGED <<states, tagDirectives>>

ParseDocumentStart(implicit) ==
    /\ InState(IF implicit THEN "IMPLICIT_DOCUMENT_START" ELSE "DOCUMENT_START")
    /\ UNCHANGED marks
    /\ \E r \in IF implicit THEN {reader} ELSE BehindDocumentEnds(reader) :
         LET type == r.token.type IN
         \/ /\ type = "NO-TOKEN"
            /\ Fail(r, states)
            /\ UNCHANGED tagDirectives
         \/ /\ type = "STREAM-END"
            /\ ParseStreamEnd(r)
         \/ /\ implicit
            /\ type \notin DirectiveTypes
                           \cup {"DOCUMENT-START", "STREAM-END", "NO-TOKEN"}
            /\ ParseImplicitDocument(r)
         \/ /\ ~implicit \/ type \in DirectiveTypes \cup {"DOCUMENT-START"}
            /\ type \notin {"STREAM-END", "NO-TOKEN"}
            /\ ParseDocument(r)

ParseDocumentContent ==
    /\ InState("DOCUMENT_CONTENT")
    /\ UNCHANGED <<marks, tagDirectives>>
    /\ \/ /\ Token = "NO-TOKEN"
          /\ Fail(reader, states)
       \/ /\ Token \in DirectiveTypes
                       \cup {"DOCUMENT-START", "DOCUMENT-END", "STREAM-END"}
          /\ Return(states)
          /\ UNCHANGED reader
          /\ Emit("SCALAR")
       \/ /\ Token \notin DirectiveTypes
                          \cup {"DOCUMENT-START", "DOCUMENT-END", "STREAM-END",
                                "NO-TOKEN"}
          /\ Node(reader, states, TRUE, FALSE)

(* Mutant: the directives are kept.                                        *)
ParseDocumentEndKeeping ==
    /\ InState("DOCUMENT_END")
    /\ UNCHANGED <<marks, tagDirectives>>
    /\ \/ /\ Token = "NO-TOKEN"
          /\ Fail(reader, states)
       \/ /\ Token # "NO-TOKEN"
          /\ reader' \in IF Token = "DOCUMENT-END" THEN Skip(reader) ELSE {reader}
          /\ state' = "DOCUMENT_START"
          /\ Emit("DOCUMENT-END")
          /\ UNCHANGED states

ParseDocumentEnd ==
    /\ InState("DOCUMENT_END")
    /\ UNCHANGED marks
    /\ \/ /\ Token = "NO-TOKEN"
          /\ Fail(reader, states)
          /\ UNCHANGED tagDirectives
       \/ /\ Token # "NO-TOKEN"
          /\ reader' \in IF Token = "DOCUMENT-END" THEN Skip(reader) ELSE {reader}
          /\ tagDirectives' = <<>>
          /\ state' = "DOCUMENT_START"
          /\ Emit("DOCUMENT-END")
          /\ UNCHANGED states

ParseBlockNode ==
    /\ InState("BLOCK_NODE")
    /\ UNCHANGED marks
    /\ \/ /\ Token = "NO-TOKEN"
          /\ Fail(reader, states)
          /\ UNCHANGED tagDirectives
       \/ /\ Token # "NO-TOKEN"
          /\ Node(reader, states, TRUE, FALSE)

-----------------------------------------------------------------------------
(* Collections.                                                            *)

(* Mutant: every call pushes a mark.                                       *)
MarkedAlways(first) == Append(marks, Token)

(* The first call in a collection pushes a mark and skips the token that   *)
(* starts it; it does not ask whether there is one.                        *)
Begin(first) == IF first THEN Skip(reader) ELSE {reader}
Marked(first) == IF first THEN Append(marks, Token) ELSE marks

(* A failure that reports the mark of the collection.                      *)
Refuse(r, first) == /\ Fail(r, states)
                    /\ marks' = Front(Marked(first))
                    /\ UNCHANGED tagDirectives

(* The scanner failed.                                                     *)
Starve(r, first) == /\ r.token.type = "NO-TOKEN"
                    /\ Fail(r, states)
                    /\ marks' = Marked(first)
                    /\ UNCHANGED tagDirectives

(* Mutant: the mark is left behind.                                        *)
CloseKeepingMark(r, first, e) == /\ EndCollection(r, e)
                                 /\ marks' = Marked(first)
                                 /\ UNCHANGED tagDirectives

Close(r, first, e) == /\ EndCollection(r, e)
                      /\ marks' = Front(Marked(first))
                      /\ UNCHANGED tagDirectives

ParseBlockSequenceEntry(first) ==
    /\ InState(IF first THEN "BLOCK_SEQUENCE_FIRST_ENTRY"
               ELSE "BLOCK_SEQUENCE_ENTRY")
    /\ \E r \in Begin(first) :
         \/ Starve(r, first)
         \/ /\ r.token.type = "BLOCK-ENTRY"
            /\ marks' = Marked(first)
            /\ \E q \in Skip(r) :
                 NodeUnless(q, {"BLOCK-ENTRY", "BLOCK-END"},
                            "BLOCK_SEQUENCE_ENTRY", TRUE, FALSE)
         \/ /\ r.token.type = "BLOCK-END"
            /\ Close(r, first, "SEQUENCE-END")
         \/ /\ r.token.type \notin {"BLOCK-ENTRY", "BLOCK-END", "NO-TOKEN"}
            /\ Refuse(r, first)

(* Mutant: a key behind an empty entry is not foreseen.                    *)
ParseIndentlessSequenceEntryShort ==
    /\ InState("INDENTLESS_SEQUENCE_ENTRY")
    /\ UNCHANGED marks
    /\ \/ Starve(reader, FALSE)
       \/ /\ Token = "BLOCK-ENTRY"
          /\ \E q \in Skip(reader) :
               NodeUnless(q, {"BLOCK-ENTRY", "VALUE", "BLOCK-END"},
                          "INDENTLESS_SEQUENCE_ENTRY", TRUE, FALSE)
       \/ /\ Token \notin {"BLOCK-ENTRY", "NO-TOKEN"}
          /\ Return(states)
          /\ Emit("SEQUENCE-END")
          /\ UNCHANGED <<reader, tagDirectives>>

(* An indentless sequence has no end token and no mark.                    *)
ParseIndentlessSequenceEntry ==
    /\ InState("INDENTLESS_SEQUENCE_ENTRY")
    /\ UNCHANGED marks
    /\ \/ Starve(reader, FALSE)
       \/ /\ Token = "BLOCK-ENTRY"
          /\ \E q \in Skip(reader) :
               NodeUnless(q, {"BLOCK-ENTRY", "KEY", "VALUE", "BLOCK-END"},
                          "INDENTLESS_SEQUENCE_ENTRY", TRUE, FALSE)
       \/ /\ Token \notin {"BLOCK-ENTRY", "NO-TOKEN"}
          /\ Return(states)
          /\ Emit("SEQUENCE-END")
          /\ UNCHANGED <<reader, tagDirectives>>

ParseBlockMappingKey(first) ==
    /\ InState(IF first THEN "BLOCK_MAPPING_FIRST_KEY" ELSE "BLOCK_MAPPING_KEY")
    /\ \E r \in Begin(first) :
         \/ Starve(r, first)
         \/ /\ r.token.type = "KEY"
            /\ marks' = Marked(first)
            /\ \E q \in Skip(r) :
                 NodeUnless(q, {"KEY", "VALUE", "BLOCK-END"},
                            "BLOCK_MAPPING_VALUE", TRUE, TRUE)
         \/ /\ r.token.type = "BLOCK-END"
            /\ Close(r, first, "MAPPING-END")
         \/ /\ r.token.type \notin {"KEY", "BLOCK-END", "NO-TOKEN"}
            /\ Refuse(r, first)

(* Mutant: a missing value leaves the state as it is.                      *)
ParseBlockMappingValueStuck ==
    /\ InState("BLOCK_MAPPING_VALUE")
    /\ UNCHANGED marks
    /\ \/ Starve(reader, FALSE)
       \/ /\ Token = "VALUE"
          /\ \E q \in Skip(reader) :
               NodeUnless(q, {"KEY", "VALUE", "BLOCK-END"},
                          "BLOCK_MAPPING_KEY", TRUE, TRUE)
       \/ /\ Token \notin {"VALUE", "NO-TOKEN"}
          /\ EmptyScalar(reader, "BLOCK_MAPPING_VALUE")
          /\ UNCHANGED tagDirectives

ParseBlockMappingValue ==
    /\ InState("BLOCK_MAPPING_VALUE")
    /\ UNCHANGED marks
    /\ \/ Starve(reader, FALSE)
       \/ /\ Token = "VALUE"
          /\ \E q \in Skip(reader) :
               NodeUnless(q, {"KEY", "VALUE", "BLOCK-END"},
                          "BLOCK_MAPPING_KEY", TRUE, TRUE)
       \/ /\ Token \notin {"VALUE", "NO-TOKEN"}
          /\ EmptyScalar(reader, "BLOCK_MAPPING_KEY")
          /\ UNCHANGED tagDirectives
(* The reader at the next entry of a flow collection: behind the comma,    *)
(* when one is needed and there.                                           *)
BehindComma(r, first) ==
    IF ~first /\ r.token.type = "FLOW-ENTRY" THEN Skip(r) ELSE {r}

(* Neither the end of the collection nor the comma that must come.         *)
CommaMissing(r, first, end) ==
    ~first /\ r.token.type \notin {end, "FLOW-ENTRY", "NO-TOKEN"}

ParseFlowSequenceEntry(first) ==
    /\ InState(IF first THEN "FLOW_SEQUENCE_FIRST_ENTRY"
               ELSE "FLOW_SEQUENCE_ENTRY")
    /\ \E r \in Begin(first) :
         \/ /\ CommaMissing(r, first, "FLOW-SEQUENCE-END")
            /\ Refuse(r, first)
         \/ /\ ~CommaMissing(r, first, "FLOW-SEQUENCE-END")
            /\ \E q \in BehindComma(r, first) :
                 \/ Starve(q, first)
                 \/ /\ q.token.type = "KEY"
                    /\ state' = "FLOW_SEQUENCE_ENTRY_MAPPING_KEY"
                    /\ reader' \in Skip(q)
                    /\ Emit("MAPPING-START")
                    /\ marks' = Marked(first)
                    /\ UNCHANGED <<states, tagDirectives>>
                 \/ /\ q.token.type = "FLOW-SEQUENCE-END"
                    /\ Close(q, first, "SEQUENCE-END")
                 \/ /\ q.token.type \notin {"KEY", "FLOW-SEQUENCE-END", "NO-TOKEN"}
                    /\ marks' = Marked(first)
                    /\ Node(q, Append(states, "FLOW_SEQUENCE_ENTRY"), FALSE, FALSE)

(* The token that shows that the key is empty is skipped.                  *)
ParseFlowSequenceEntryMappingKey ==
    /\ InState("FLOW_SEQUENCE_ENTRY_MAPPING_KEY")
    /\ UNCHANGED marks
    /\ \/ Starve(reader, FALSE)
       \/ /\ Token \in {"VALUE", "FLOW-ENTRY", "FLOW-SEQUENCE-END"}
          /\ \E q \in Skip(reader) :
               EmptyScalar(q, "FLOW_SEQUENCE_ENTRY_MAPPING_VALUE")
          /\ UNCHANGED tagDirectives
       \/ /\ Token \notin {"VALUE", "FLOW-ENTRY", "FLOW-SEQUENCE-END", "NO-TOKEN"}
          /\ Node(reader, Append(states, "FLOW_SEQUENCE_ENTRY_MAPPING_VALUE"),
                  FALSE, FALSE)

(* Mutant: the pair is not ended behind its value.                         *)
ParseFlowSequenceEntryMappingValueOpen ==
    /\ InState("FLOW_SEQUENCE_ENTRY_MAPPING_VALUE")
    /\ UNCHANGED marks
    /\ \/ Starve(reader, FALSE)
       \/ /\ Token = "VALUE"
          /\ \E q \in Skip(reader) :
               NodeUnless(q, {"FLOW-ENTRY", "FLOW-SEQUENCE-END"},
                          "FLOW_SEQUENCE_ENTRY", FALSE, FALSE)
       \/ /\ Token \notin {"VALUE", "NO-TOKEN"}
          /\ EmptyScalar(reader, "FLOW_SEQUENCE_ENTRY_MAPPING_END")
          /\ UNCHANGED tagDirectives

ParseFlowSequenceEntryMappingValue ==
    /\ InState("FLOW_SEQUENCE_ENTRY_MAPPING_VALUE")
    /\ UNCHANGED marks
    /\ \/ Starve(reader, FALSE)
       \/ /\ Token = "VALUE"
          /\ \E q \in Skip(reader) :
               NodeUnless(q, {"FLOW-ENTRY", "FLOW-SEQUENCE-END"},
                          "FLOW_SEQUENCE_ENTRY_MAPPING_END", FALSE, FALSE)
       \/ /\ Token \notin {"VALUE", "NO-TOKEN"}
          /\ EmptyScalar(reader, "FLOW_SEQUENCE_ENTRY_MAPPING_END")
          /\ UNCHANGED tagDirectives

(* Mutant: the end of a pair pops the state of the sequence.               *)
ParseFlowSequenceEntryMappingEndPopping ==
    /\ InState("FLOW_SEQUENCE_ENTRY_MAPPING_END")
    /\ UNCHANGED marks
    /\ \/ Starve(reader, FALSE)
       \/ /\ Token # "NO-TOKEN"
          /\ Return(states)
          /\ Emit("MAPPING-END")
          /\ UNCHANGED <<tagDirectives, reader>>

ParseFlowSequenceEntryMappingEnd ==
    /\ InState("FLOW_SEQUENCE_ENTRY_MAPPING_END")
    /\ UNCHANGED marks
    /\ \/ Starve(reader, FALSE)
       \/ /\ Token # "NO-TOKEN"
          /\ state' = "FLOW_SEQUENCE_ENTRY"
          /\ Emit("MAPPING-END")
          /\ UNCHANGED <<states, tagDirectives, reader>>

ParseFlowMappingKey(first) ==
    /\ InState(IF first THEN "FLOW_MAPPING_FIRST_KEY" ELSE "FLOW_MAPPING_KEY")
    /\ \E r \in Begin(first) :
         \/ /\ CommaMissing(r, first, "FLOW-MAPPING-END")
            /\ Refuse(r, first)
         \/ /\ ~CommaMissing(r, first, "FLOW-MAPPING-END")
            /\ \E q \in BehindComma(r, first) :
                 \/ Starve(q, first)
                 \/ /\ q.token.type = "KEY"
                    /\ marks' = Marked(first)
                    /\ \E k \in Skip(q) :
                         NodeUnless(k, {"VALUE", "FLOW-ENTRY", "FLOW-MAPPING-END"},
                                    "FLOW_MAPPING_VALUE", FALSE, FALSE)
                 \/ /\ q.token.type = "FLOW-MAPPING-END"
                    /\ Close(q, first, "MAPPING-END")
                 \/ /\ q.token.type \notin {"KEY", "FLOW-MAPPING-END", "NO-TOKEN"}
                    /\ marks' = Marked(first)
                    /\ Node(q, Append(states, "FLOW_MAPPING_EMPTY_VALUE"),
                            FALSE, FALSE)

ParseFlowMappingValue(empty) ==
    /\ InState(IF empty THEN "FLOW_MAPPING_EMPTY_VALUE" ELSE "FLOW_MAPPING_VALUE")
    /\ UNCHANGED marks
    /\ \/ Starve(reader, FALSE)
       \/ /\ ~empty /\ Token = "VALUE"
          /\ \E q \in Skip(reader) :
               NodeUnless(q, {"FLOW-ENTRY", "FLOW-MAPPING-END"},
                          "FLOW_MAPPING_KEY", FALSE, FALSE)
       \/ /\ empty \/ Token # "VALUE"
          /\ Token # "NO-TOKEN"
          /\ EmptyScalar(reader, "FLOW_MAPPING_KEY")
          /\ UNCHANGED tagDirectives

Next == \/ NoEvent
        \/ ParseStreamStart
        \/ \E implicit \in BOOLEAN : ParseDocumentStart(implicit)
        \/ ParseDocumentContent \/ ParseDocumentEnd \/ ParseBlockNode
        \/ \E first \in BOOLEAN : \/ ParseBlockSequenceEntry(first)
                                  \/ ParseBlockMappingKey(first)
                                  \/ ParseFlowSequenceEntry(first)
                                  \/ ParseFlowMappingKey(first)
        \/ ParseIndentlessSequenceEntry
        \/ ParseBlockMappingValue
        \/ ParseFlowSequenceEntryMappingKey
        \/ ParseFlowSequenceEntryMappingValue
        \/ ParseFlowSequenceEntryMappingEnd
        \/ \E empty \in BOOLEAN : ParseFlowMappingValue(empty)

Spec == Init /\ [][Next]_vars

(* The event loop calls until it gets STREAM-END or a failure, and every   *)
(* call returns.                                                           *)
FairSpec == Spec /\ WF_vars(Next)

-----------------------------------------------------------------------------
Events == {"NO-EVENT", "STREAM-START", "STREAM-END", "DOCUMENT-START",
           "DOCUMENT-END", "ALIAS", "SCALAR", "SEQUENCE-START",
           "SEQUENCE-END", "MAPPING-START", "MAPPING-END"}

(* Types.                                                                  *)
TypeOK == /\ state \in States
          /\ states \in Seq(States)
          /\ marks \in Seq(FlowStarts \cup BlockStarts)
          /\ error \in BOOLEAN
          /\ event \in Events
          /\ Grammar!GrammarTypeOK

(* Whatever the tokens, the events that the calls return follow the        *)
(* grammar of events: collections nest, every key has a value and every    *)
(* document exactly one root.                                              *)
ProducesGrammar == Grammar!GrammarInit /\ [][Grammar!Produces(event')]_vars

(* The states that take a first token without asking for it find the       *)
(* token that starts their collection.                                     *)
FirstTokenIsThere ==
    ~error => \A type \in FlowStarts \cup BlockStarts :
                 state = FirstState(type) => Token = type

(* No POP from an empty stack: a document leaves nothing behind, and       *)
(* inside it the state at the bottom is the one that ends it.              *)
StatesMatchDocument ==
    ~error => /\ phase \in {"start", "stream", "end"} => states = <<>>
              /\ phase = "document" => /\ states # <<>>
                                       /\ states[1] = "DOCUMENT_END"
              /\ phase = "root" => states = <<>> /\ state = "DOCUMENT_END"

(* The state of an open collection that has pushed a mark, and the token   *)
(* of the mark.                                                            *)
MarkOf(s) ==
    CASE s = "BLOCK_SEQUENCE_ENTRY" -> <<"BLOCK-SEQUENCE-START">>
      [] s \in {"BLOCK_MAPPING_KEY", "BLOCK_MAPPING_VALUE"} ->
            <<"BLOCK-MAPPING-START">>
      [] s \in {"FLOW_SEQUENCE_ENTRY", "FLOW_SEQUENCE_ENTRY_MAPPING_KEY",
                "FLOW_SEQUENCE_ENTRY_MAPPING_VALUE",
                "FLOW_SEQUENCE_ENTRY_MAPPING_END"} -> <<"FLOW-SEQUENCE-START">>
      [] s \in {"FLOW_MAPPING_KEY", "FLOW_MAPPING_VALUE",
                "FLOW_MAPPING_EMPTY_VALUE"} -> <<"FLOW-MAPPING-START">>
      [] OTHER -> <<>>

(* The mark on top is the one of the innermost collection that reports     *)
(* one, so that an error names the right collection.                       *)
MarksFollowStates ==
    ~error => marks = FlattenSeq([i \in 1..Len(states) + 1 |->
                                    MarkOf(Append(states, state)[i])])

(* A %TAG directive holds for one document: no handle outlives it, inside  *)
(* it the default handles are defined, and each handle only once.          *)
DirectivesAreLocal ==
    ~error => /\ phase \in {"stream", "end"} => tagDirectives = <<>>
              /\ phase \in {"document", "root"} =>
                    /\ {"!", "!!"} \subseteq Handles
                    /\ Cardinality(Handles) = Len(tagDirectives)

(* The calls come to an end: no state produces events without tokens.      *)
Terminates == <>(error \/ state = "END")
=============================================================================
