------------------------------- MODULE Emitter -------------------------------
(***************************************************************************)
(* The emitter of LibYAML (emitter.c).  A caller hands over one event with *)
(* each call of yaml_emitter_emit; the emitter queues it and takes events  *)
(* from the head of its queue for as long as it can see far enough ahead.  *)
(* Emit is the call; each other action is one turn of the loop inside it:  *)
(* yaml_emitter_analyze_event, the state function and the removal of the   *)
(* event.  An event that is refused stays at the head, with what the state *)
(* function did before it gave up, and the next call meets it again.       *)
(*                                                                         *)
(* An argument that may be NULL is a set of at most one element.           *)
(* Allocation and the write handler do not fail; canonical is off.         *)
(***************************************************************************)
EXTENDS EmitterText

CONSTANTS SimpleKeyLimit,         \* 128 in yaml_emitter_check_simple_key
          IndentMappingSequence   \* emitter->indent_mapping_sequence

ASSUME EmitterAssumption == /\ SimpleKeyLimit \in Nat
                            /\ IndentMappingSequence \in BOOLEAN

VARIABLES emitter,   \* the fields of yaml_emitter_t that the states use
          queue,     \* emitter->events
          call       \* where the current or last call of yaml_emitter_emit is

emitterVars == <<emitter, queue, call>>

Given(option) == option # {}
ValueOf(option) == CHOOSE value \in option : TRUE

ItemStates == {"FLOW-SEQUENCE-FIRST-ITEM", "FLOW-SEQUENCE-ITEM",
               "BLOCK-SEQUENCE-FIRST-ITEM", "BLOCK-SEQUENCE-ITEM"}
KeyStates == {"FLOW-MAPPING-FIRST-KEY", "FLOW-MAPPING-KEY",
              "BLOCK-MAPPING-FIRST-KEY", "BLOCK-MAPPING-KEY"}
ValueStates == {"FLOW-MAPPING-SIMPLE-VALUE", "FLOW-MAPPING-VALUE",
                "BLOCK-MAPPING-SIMPLE-VALUE", "BLOCK-MAPPING-VALUE"}
States == {"STREAM-START", "FIRST-DOCUMENT-START", "DOCUMENT-START",
           "DOCUMENT-CONTENT", "DOCUMENT-END", "END"}
          \cup ItemStates \cup KeyStates \cup ValueStates

StartEvents == {"STREAM-START", "DOCUMENT-START", "SEQUENCE-START", "MAPPING-START"}
EndEvents   == {"STREAM-END", "DOCUMENT-END", "SEQUENCE-END", "MAPPING-END"}

EmitterInit ==
    /\ emitter = [state |-> "STREAM-START", states |-> <<>>,
                  indent |-> 0, indents |-> <<>>, flowLevel |-> 0,
                  context |-> "root", tagDirectives |-> <<>>,
                  out |-> EmptyOutput, ok |-> TRUE, problem |-> FALSE]
    /\ queue = <<>>
    /\ call = "returned"

-----------------------------------------------------------------------------
(* yaml_emitter_need_more_events.                                          *)
Accumulated(type) == CASE type = "DOCUMENT-START" -> 1
                       [] type = "SEQUENCE-START" -> 2
                       [] type = "MAPPING-START"  -> 3
                       [] OTHER -> 0

(* The nesting that the first n events of q leave open.                    *)
Level(q, n) == Cardinality({i \in 1..n : q[i].type \in StartEvents})
               - Cardinality({i \in 1..n : q[i].type \in EndEvents})

NeedMoreEvents(q) ==
    \/ q = <<>>
    \/ /\ Accumulated(q[1].type) > 0
       /\ Len(q) <= Accumulated(q[1].type)
       /\ \A n \in DOMAIN q : Level(q, n) # 0

(* yaml_emitter_check_empty_sequence and _mapping.                         *)
EmptySequence(q) == Len(q) >= 2 /\ q[2].type = "SEQUENCE-END"
EmptyMapping(q)  == Len(q) >= 2 /\ q[2].type = "MAPPING-END"

-----------------------------------------------------------------------------
(* yaml_emitter_analyze_event.                                             *)
ValidAnchor(name) == name # <<>> /\ \A i \in DOMAIN name : IsAlpha(name[i])

TagIsWritten(e) ==
    /\ Given(e.tag)
    /\ IF e.type = "SCALAR" THEN ~e.plainImplicit /\ ~e.quotedImplicit
                            ELSE ~e.implicit

HasProperties(e) == e.type \in {"SCALAR", "SEQUENCE-START", "MAPPING-START"}

Valid(e) ==
    /\ e.type = "ALIAS" => ValidAnchor(ValueOf(e.anchor))
    /\ HasProperties(e) =>
          /\ Given(e.anchor) => ValidAnchor(ValueOf(e.anchor))
          /\ TagIsWritten(e) => ValueOf(e.tag) # <<>>

TagDataOf(em, e) == IF TagIsWritten(e) THEN TagData(ValueOf(e.tag), em.tagDirectives)
                                       ELSE NoTag

AnchorLength(e) == IF Given(e.anchor) THEN Len(ValueOf(e.anchor)) ELSE 0
TagLength(tag) == Len(tag.handle) + Len(tag.suffix)

(* yaml_emitter_check_simple_key, for the event at the head of q.          *)
SimpleKey(em, q) ==
    LET e == q[1]
    IN  CASE e.type = "ALIAS" -> AnchorLength(e) <= SimpleKeyLimit
          [] e.type = "SCALAR" ->
                /\ ~Analysis(e.value).multiline
                /\ AnchorLength(e) + TagLength(TagDataOf(em, e)) + Len(e.value)
                      <= SimpleKeyLimit
          [] e.type \in {"SEQUENCE-START", "MAPPING-START"} ->
                /\ IF e.type = "SEQUENCE-START" THEN EmptySequence(q)
                                                ELSE EmptyMapping(q)
                /\ AnchorLength(e) + TagLength(TagDataOf(em, e)) <= SimpleKeyLimit
          [] OTHER -> FALSE

(* yaml_emitter_select_scalar_style.                                       *)
SelectScalarStyle(em, e, tag) ==
    LET may     == Analysis(e.value)
        flow    == em.flowLevel > 0
        key     == em.context = "simple_key"
        asked   == IF key /\ may.multiline THEN "double"
                   ELSE IF e.style = "any" THEN "plain" ELSE e.style
        noPlain == \/ IF flow THEN ~may.flowPlain ELSE ~may.blockPlain
                   \/ e.value = <<>> /\ (flow \/ key)
                   \/ tag = NoTag /\ ~e.plainImplicit
        first   == IF asked = "plain" /\ noPlain THEN "single" ELSE asked
        second  == IF first = "single" /\ ~may.singleQuoted THEN "double" ELSE first
    IN  IF second \in {"literal", "folded"} /\ (~may.block \/ flow \/ key)
        THEN "double" ELSE second

-----------------------------------------------------------------------------
(* The pieces that the state functions are made of.                        *)
(* Mutant: a failure without a problem.                                    *)
RefuseSilently(em) == [em EXCEPT !.ok = FALSE]

Refuse(em) == [em EXCEPT !.ok = FALSE, !.problem = TRUE]
Goto(em, state) == [em EXCEPT !.state = state]
Push(em, state) == [em EXCEPT !.states = Append(@, state)]
Pop(em) == [em EXCEPT !.state = Last(em.states), !.states = Front(@)]

Indicator(em, s, needWhitespace, isWhitespace, isIndention) ==
    [em EXCEPT !.out =
        WriteIndicator(@, s, needWhitespace, isWhitespace, isIndention)]
NewLine(em) == [em EXCEPT !.out = WriteIndent(@, em.indent)]
NewLineIfLong(em) == IF em.out.column > Width THEN NewLine(em) ELSE em

IncreaseIndent(em, flow, indentless) ==
    [em EXCEPT !.indents = Append(@, em.indent),
               !.indent = IF @ < 0 THEN IF flow THEN IndentStep ELSE 0
                          ELSE IF indentless THEN @ ELSE @ + IndentStep]

DecreaseIndent(em) == [em EXCEPT !.indent = Last(em.indents),
                                 !.indents = Front(@)]

(* yaml_emitter_process_anchor.                                            *)
WriteProperties(em, e, tag) ==
    LET anchored == IF Given(e.anchor)
                    THEN WriteAnchor(WriteIndicator(em.out, <<"&">>, TRUE, FALSE, FALSE),
                                     ValueOf(e.anchor))
                    ELSE em.out
    IN  [em EXCEPT !.out = WriteTag(anchored, tag)]

(* The blank behind an alias keeps the colon of a simple key off its name. *)
EmitAlias(em, e) ==
    LET named == WriteAnchor(WriteIndicator(em.out, <<"*">>, TRUE, FALSE, FALSE),
                             ValueOf(e.anchor))
    IN  Pop([em EXCEPT !.out = IF em.context = "simple_key" THEN Put(named, " ")
                               ELSE named])

(* yaml_emitter_process_scalar.                                            *)
WriteScalar(em, v, style) ==
    LET o == em.out
        breaks == em.context # "simple_key"
    IN  CASE style = "plain" -> WritePlain(o, v, em.indent, breaks,
                                           em.flowLevel > 0, em.context = "root")
          [] style = "single"  -> WriteSingleQuoted(o, v, em.indent, breaks)
          [] style = "double"  -> WriteDoubleQuoted(o, v, em.indent, breaks)
          [] style = "literal" -> WriteLiteral(o, v, em.indent)
          [] style = "folded"  -> WriteFolded(o, v, em.indent)

EmitScalar(em, e) ==
    LET tag   == TagDataOf(em, e)
        style == SelectScalarStyle(em, e, tag)
        shown == IF tag = NoTag /\ ~e.quotedImplicit /\ style # "plain"
                 THEN [handle |-> <<"!">>, suffix |-> <<>>] ELSE tag
        begun == IncreaseIndent(WriteProperties(em, e, shown), TRUE, FALSE)
    IN  IF tag = NoTag /\ ~e.plainImplicit /\ ~e.quotedImplicit THEN Refuse(em)
        ELSE Pop(DecreaseIndent(
                [begun EXCEPT !.out = WriteScalar(begun, e.value, style)]))

EmitCollectionStart(em, e, empty, flowState, blockState) ==
    Goto(WriteProperties(em, e, TagDataOf(em, e)),
         IF em.flowLevel > 0 \/ e.style = "flow" \/ empty THEN flowState
         ELSE blockState)

(* yaml_emitter_emit_node: root, sequence, mapping and simple key context  *)
(* are one field.                                                          *)
EmitNode(before, q, context) ==
    LET em == [before EXCEPT !.context = context]
        e  == q[1]
    IN  IF e.type = "ALIAS" THEN EmitAlias(em, e)
        ELSE IF e.type = "SCALAR" THEN EmitScalar(em, e)
        ELSE IF e.type = "SEQUENCE-START"
        THEN EmitCollectionStart(em, e, EmptySequence(q),
                "FLOW-SEQUENCE-FIRST-ITEM", "BLOCK-SEQUENCE-FIRST-ITEM")
        ELSE IF e.type = "MAPPING-START"
        THEN EmitCollectionStart(em, e, EmptyMapping(q),
                "FLOW-MAPPING-FIRST-KEY", "BLOCK-MAPPING-FIRST-KEY")
        ELSE Refuse(em)

-----------------------------------------------------------------------------
(* The state functions, for the events q of which the first is processed.  *)

EmitStreamStart(em, q) ==
    IF q[1].type = "STREAM-START"
    THEN [em EXCEPT !.indent = -1, !.state = "FIRST-DOCUMENT-START",
                    !.out = [EmptyOutput EXCEPT !.text = em.out.text]]
    ELSE Refuse(em)

(* yaml_emitter_analyze_version_directive and _tag_directive.              *)
ValidVersion(version) == version \in {"1.1", "1.2"}
ValidDirective(d) == /\ d.handle # <<>> /\ d.prefix # <<>>
                     /\ d.handle[1] = "!" /\ Last(d.handle) = "!"
                     /\ \A i \in 2..(Len(d.handle) - 1) : IsAlpha(d.handle[i])

HandleTaken(em, d) == \E i \in DOMAIN em.tagDirectives :
                         em.tagDirectives[i].handle = d.handle

(* yaml_emitter_append_tag_directive refuses what is declared twice.       *)
Refused(em, directives) ==
    {i \in DOMAIN directives :
        \/ ~ValidDirective(directives[i])
        \/ HandleTaken(em, directives[i])
        \/ \E j \in 1..(i - 1) : directives[j].handle = directives[i].handle}

(* The directives of a document, up to the first that is not accepted.     *)
AppendDirectives(em, directives) ==
    LET refused == Refused(em, directives)
    IN  IF refused = {} THEN [em EXCEPT !.tagDirectives = @ \o directives]
        ELSE Refuse([em EXCEPT !.tagDirectives =
                        @ \o SubSeq(directives, 1, Min(refused) - 1)])

PrimaryDefault   == [handle |-> <<"!">>, prefix |-> <<"!">>]
SecondaryDefault == [handle |-> <<"!", "!">>, prefix |-> <<"T">>]

(* A default is passed over where the document has declared its handle.    *)
WithDefault(em, d) == IF HandleTaken(em, d) THEN em
                      ELSE [em EXCEPT !.tagDirectives = Append(@, d)]
AppendDefaults(em) == WithDefault(WithDefault(em, PrimaryDefault), SecondaryDefault)

(* Y and G stand for YAML and TAG; the directives stand at the margin.     *)
WriteVersion(out, version) ==
    LET number == IF version = "1.1" THEN <<"1", ".", "1">> ELSE <<"1", ".", "2">>
    IN  WriteIndent(WriteIndicator(WriteIndicator(out, <<"%", "Y">>, TRUE, FALSE, FALSE),
                                   number, TRUE, FALSE, FALSE), -1)

WriteTagDirective(out, d) ==
    LET named == WriteIndicator(out, <<"%", "G">>, TRUE, FALSE, FALSE)
    IN  WriteIndent(WriteTagContent(WriteTagHandle(named, d.handle), d.prefix, TRUE), -1)

Marker(out, text) == WriteIndicator(out, text, TRUE, FALSE, FALSE)

CloseOpenDocument(out, directives) ==
    [IF directives /\ out.openEnded > 0
     THEN WriteIndent(Marker(out, <<".", ".", ".">>), -1) ELSE out
        EXCEPT !.openEnded = 0]

WriteDocumentStart(em, e, first) ==
    LET directives == Given(e.version) \/ e.directives # <<>>
        closed     == CloseOpenDocument(em.out, directives)
        versioned  == IF Given(e.version) THEN WriteVersion(closed, ValueOf(e.version))
                      ELSE closed
        tagged     == Pass(e.directives, versioned,
                           LAMBDA out, i : WriteTagDirective(out, e.directives[i]))
        implicit   == e.implicit /\ first /\ ~directives
        started    == IF implicit THEN tagged
                      ELSE Marker(WriteIndent(tagged, -1), <<"-", "-", "-">>)
    IN  [em EXCEPT !.state = "DOCUMENT-CONTENT",
                   !.out = [started EXCEPT !.openEnded = 0]]

(* open_ended is 2 for no text that is written: WriteBlockHints.           *)
WriteStreamEnd(em) ==
    [em EXCEPT !.state = "END",
               !.out = IF @.openEnded = 2
                       THEN WriteIndent(Marker(@, <<".", ".", ".">>), -1) ELSE @]

EmitDocumentStart(em, q, first) ==
    LET e == q[1]
        declared == AppendDirectives(em, e.directives)
    IN  IF e.type = "STREAM-END" THEN WriteStreamEnd(em)
        ELSE IF \/ e.type # "DOCUMENT-START"
                \/ Given(e.version) /\ ~ValidVersion(ValueOf(e.version))
        THEN Refuse(em)
        ELSE IF ~declared.ok THEN declared
        ELSE WriteDocumentStart(AppendDefaults(declared), e, first)

EmitDocumentContent(em, q) == EmitNode(Push(em, "DOCUMENT-END"), q, "root")

(* Mutant: the directives stay for the next document.                      *)
EmitDocumentEndKeeping(em, q) ==
    IF q[1].type = "DOCUMENT-END" THEN Goto(NewLine(em), "DOCUMENT-START")
    ELSE Refuse(em)

EmitDocumentEnd(em, q) ==
    LET ended == NewLine(em)
        marked == IF ~q[1].implicit
                  THEN NewLine(Indicator(ended, <<".", ".", ".">>, TRUE, FALSE, FALSE))
                  ELSE [ended EXCEPT !.out.openEnded = IF @ = 0 THEN 1 ELSE @]
    IN  IF q[1].type = "DOCUMENT-END"
        THEN [marked EXCEPT !.state = "DOCUMENT-START", !.tagDirectives = <<>>]
        ELSE Refuse(em)

(* Mutant: the flow level is not counted.                                  *)
OpenFlowUncounted(em, bracket) ==
    IncreaseIndent(Indicator(em, <<bracket>>, TRUE, TRUE, FALSE), TRUE, FALSE)

(* The opening and closing of a flow collection.                           *)
OpenFlow(em, bracket) ==
    LET opened == IncreaseIndent(Indicator(em, <<bracket>>, TRUE, TRUE, FALSE),
                                 TRUE, FALSE)
    IN  [opened EXCEPT !.flowLevel = @ + 1]

(* Mutant: the indentation of the outer collection is not restored.        *)
CloseFlowIndented(em, bracket) ==
    Pop(Indicator([em EXCEPT !.flowLevel = @ - 1], <<bracket>>, FALSE, FALSE, FALSE))

CloseFlow(em, bracket) ==
    Pop(Indicator([DecreaseIndent(em) EXCEPT !.flowLevel = @ - 1],
                  <<bracket>>, FALSE, FALSE, FALSE))

Comma(em, first) == NewLineIfLong(
    IF first THEN em ELSE Indicator(em, <<",">>, FALSE, FALSE, FALSE))

EmitFlowSequenceItem(em, q, first) ==
    LET begun == IF first THEN OpenFlow(em, "[") ELSE em
    IN  IF q[1].type = "SEQUENCE-END" THEN CloseFlow(begun, "]")
        ELSE EmitNode(Push(Comma(begun, first), "FLOW-SEQUENCE-ITEM"), q, "sequence")

EmitFlowMappingKey(em, q, first) ==
    LET begun  == IF first THEN OpenFlow(em, "{") ELSE em
        behind == Comma(begun, first)
    IN  IF q[1].type = "MAPPING-END" THEN CloseFlow(begun, "}")
        ELSE IF SimpleKey(behind, q)
        THEN EmitNode(Push(behind, "FLOW-MAPPING-SIMPLE-VALUE"), q, "simple_key")
        ELSE EmitNode(Push(Indicator(behind, <<"?">>, TRUE, FALSE, FALSE),
                           "FLOW-MAPPING-VALUE"), q, "mapping")

EmitFlowMappingValue(em, q, simple) ==
    LET marked == IF simple THEN Indicator(em, <<":">>, FALSE, FALSE, FALSE)
                  ELSE Indicator(NewLineIfLong(em), <<":">>, TRUE, FALSE, FALSE)
    IN  EmitNode(Push(marked, "FLOW-MAPPING-KEY"), q, "mapping")

(* Mutant: any end ends the sequence.                                      *)
EmitBlockSequenceItemAnyEnd(em, q, first) ==
    LET begun  == IF first THEN IncreaseIndent(em, FALSE, FALSE) ELSE em
        marked == Indicator(NewLine(begun), <<"-">>, TRUE, FALSE, TRUE)
    IN  IF q[1].type \in EndEvents THEN Pop(DecreaseIndent(begun))
        ELSE EmitNode(Push(marked, "BLOCK-SEQUENCE-ITEM"), q, "sequence")

EmitBlockSequenceItem(em, q, first) ==
    LET indentless == /\ em.context \in {"mapping", "simple_key"}
                      /\ ~IndentMappingSequence /\ ~em.out.indention
        begun  == IF first THEN IncreaseIndent(em, FALSE, indentless) ELSE em
        marked == Indicator(NewLine(begun), <<"-">>, TRUE, FALSE, TRUE)
    IN  IF q[1].type = "SEQUENCE-END" THEN Pop(DecreaseIndent(begun))
        ELSE EmitNode(Push(marked, "BLOCK-SEQUENCE-ITEM"), q, "sequence")

EmitBlockMappingKey(em, q, first) ==
    LET begun == IF first THEN IncreaseIndent(em, FALSE, FALSE) ELSE em
        line  == NewLine(begun)
    IN  IF q[1].type = "MAPPING-END" THEN Pop(DecreaseIndent(begun))
        ELSE IF SimpleKey(line, q)
        THEN EmitNode(Push(line, "BLOCK-MAPPING-SIMPLE-VALUE"), q, "simple_key")
        ELSE EmitNode(Push(Indicator(line, <<"?">>, TRUE, FALSE, TRUE),
                           "BLOCK-MAPPING-VALUE"), q, "mapping")

EmitBlockMappingValue(em, q, simple) ==
    LET marked == IF simple THEN Indicator(em, <<":">>, FALSE, FALSE, FALSE)
                  ELSE Indicator(NewLine(em), <<":">>, TRUE, FALSE, TRUE)
    IN  EmitNode(Push(marked, "BLOCK-MAPPING-KEY"), q, "mapping")

-----------------------------------------------------------------------------
(* The call and the turns of its loop.                                     *)
Emit(event) ==
    /\ call # "processing"
    /\ queue' = Append(queue, event)
    /\ call' = IF NeedMoreEvents(queue') THEN "returned" ELSE "processing"
    /\ UNCHANGED emitter

(* Mutant: an event that is refused is removed.                            *)
ConcludedDropping(result) ==
    /\ emitter' = result
    /\ queue' = Tail(queue)
    /\ call' = IF ~result.ok THEN "refused"
               ELSE IF NeedMoreEvents(queue') THEN "returned" ELSE "processing"

(* What the loop makes of the result of the state function.                *)
Concluded(result) ==
    /\ emitter' = result
    /\ IF result.ok
       THEN /\ queue' = Tail(queue)
            /\ call' = IF NeedMoreEvents(queue') THEN "returned" ELSE "processing"
       ELSE /\ call' = "refused"
            /\ UNCHANGED queue

Fresh == [emitter EXCEPT !.ok = TRUE]

InState(states) == call = "processing" /\ emitter.state \in states

RejectEvent == /\ call = "processing"
               /\ ~Valid(Head(queue))
               /\ Concluded(Refuse(emitter))

Accepted(states) == InState(states) /\ Valid(Head(queue))

StreamStartState == /\ Accepted({"STREAM-START"})
                    /\ Concluded(EmitStreamStart(Fresh, queue))

DocumentStartState ==
    /\ Accepted({"FIRST-DOCUMENT-START", "DOCUMENT-START"})
    /\ Concluded(EmitDocumentStart(Fresh, queue,
                    emitter.state = "FIRST-DOCUMENT-START"))

DocumentContentState == /\ Accepted({"DOCUMENT-CONTENT"})
                        /\ Concluded(EmitDocumentContent(Fresh, queue))

DocumentEndState == /\ Accepted({"DOCUMENT-END"})
                    /\ Concluded(EmitDocumentEnd(Fresh, queue))

FlowSequenceItemState ==
    /\ Accepted({"FLOW-SEQUENCE-FIRST-ITEM", "FLOW-SEQUENCE-ITEM"})
    /\ Concluded(EmitFlowSequenceItem(Fresh, queue,
                    emitter.state = "FLOW-SEQUENCE-FIRST-ITEM"))

FlowMappingKeyState ==
    /\ Accepted({"FLOW-MAPPING-FIRST-KEY", "FLOW-MAPPING-KEY"})
    /\ Concluded(EmitFlowMappingKey(Fresh, queue,
                    emitter.state = "FLOW-MAPPING-FIRST-KEY"))

FlowMappingValueState ==
    /\ Accepted({"FLOW-MAPPING-SIMPLE-VALUE", "FLOW-MAPPING-VALUE"})
    /\ Concluded(EmitFlowMappingValue(Fresh, queue,
                    emitter.state = "FLOW-MAPPING-SIMPLE-VALUE"))

BlockSequenceItemState ==
    /\ Accepted({"BLOCK-SEQUENCE-FIRST-ITEM", "BLOCK-SEQUENCE-ITEM"})
    /\ Concluded(EmitBlockSequenceItem(Fresh, queue,
                    emitter.state = "BLOCK-SEQUENCE-FIRST-ITEM"))

BlockMappingKeyState ==
    /\ Accepted({"BLOCK-MAPPING-FIRST-KEY", "BLOCK-MAPPING-KEY"})
    /\ Concluded(EmitBlockMappingKey(Fresh, queue,
                    emitter.state = "BLOCK-MAPPING-FIRST-KEY"))

BlockMappingValueState ==
    /\ Accepted({"BLOCK-MAPPING-SIMPLE-VALUE", "BLOCK-MAPPING-VALUE"})
    /\ Concluded(EmitBlockMappingValue(Fresh, queue,
                    emitter.state = "BLOCK-MAPPING-SIMPLE-VALUE"))

EndState == /\ Accepted({"END"})
            /\ Concluded(Refuse(Fresh))

Process == \/ RejectEvent \/ StreamStartState \/ DocumentStartState
           \/ DocumentContentState \/ DocumentEndState
           \/ FlowSequenceItemState \/ FlowMappingKeyState
           \/ FlowMappingValueState \/ BlockSequenceItemState
           \/ BlockMappingKeyState \/ BlockMappingValueState \/ EndState

-----------------------------------------------------------------------------
(* Types: the states are those of emitter.c, the indentation is a column,  *)
(* or -1 in front of the first collection, and the levels are never less   *)
(* than zero.                                                              *)
TypeOK ==
    /\ emitter.state \in States
    /\ \A i \in DOMAIN emitter.states : emitter.states[i] \in States
    /\ emitter.indent \in Nat \cup {-1}
    /\ emitter.flowLevel \in Nat /\ emitter.out.column \in Nat
    /\ emitter.context \in {"root", "sequence", "mapping", "simple_key"}
    /\ emitter.out.openEnded \in 0..2
    /\ emitter.ok \in BOOLEAN /\ emitter.problem \in BOOLEAN
    /\ call \in {"returned", "processing", "refused"}

(* The collections that are being written, outermost first: each has the   *)
(* state to which the emitter returns, the innermost the state it is in.   *)
(* At the bottom of the stack is the state behind the document's content.  *)
Collections == ItemStates \cup KeyStates \cup ValueStates

FrameOf(s) == [kind |-> IF s \in ItemStates THEN "sequence" ELSE "mapping",
               odd |-> s \in ValueStates]

EmitterOpen ==
    [i \in 1..(IF emitter.state \in Collections THEN Len(emitter.states) ELSE 0) |->
        FrameOf(IF i < Len(emitter.states) THEN emitter.states[i + 1] ELSE emitter.state)]

EmitterPhase ==
    IF emitter.problem THEN "failed"
    ELSE IF emitter.state = "STREAM-START" THEN "start"
    ELSE IF emitter.state \in {"FIRST-DOCUMENT-START", "DOCUMENT-START"} THEN "stream"
    ELSE IF emitter.state = "DOCUMENT-END" THEN "root"
    ELSE IF emitter.state = "END" THEN "end"
    ELSE "document"

Contract == INSTANCE EventGrammar WITH phase <- EmitterPhase, open <- EmitterOpen

(* The states to which the emitter returns within a collection: something  *)
(* of it is written already.  In the other two kinds its first turn is due.*)
Behind == {"FLOW-SEQUENCE-ITEM", "BLOCK-SEQUENCE-ITEM",
           "FLOW-MAPPING-KEY", "BLOCK-MAPPING-KEY"} \cup ValueStates
FirstBlocks == {"BLOCK-SEQUENCE-FIRST-ITEM", "BLOCK-MAPPING-FIRST-KEY"}
FlowStates == {"FLOW-SEQUENCE-FIRST-ITEM", "FLOW-SEQUENCE-ITEM", "FLOW-MAPPING-FIRST-KEY",
               "FLOW-MAPPING-KEY", "FLOW-MAPPING-SIMPLE-VALUE", "FLOW-MAPPING-VALUE"}

(* The collections whose beginning is written, behind the document's own   *)
(* state, and how many they are.                                           *)
Begun(em) == IF em.state \in Behind \cup {"DOCUMENT-END"} THEN Append(em.states, em.state)
             ELSE em.states
Deep(em) == IF Begun(em) = <<>> THEN 0 ELSE Len(Begun(em)) - 1

(* Each has saved one indentation, and the innermost of them, as many as   *)
(* the flow level says, are those in flow style.                           *)
Levelled(em) ==
    /\ em.flowLevel \in 0..Deep(em)
    /\ Len(em.indents) = Deep(em)
    /\ \A i \in 2..Len(Begun(em)) :
          Begun(em)[i] \in FlowStates <=> i > Len(Begun(em)) - em.flowLevel
    /\ em.state \in FirstBlocks => em.flowLevel = 0

(* The stack of indentations and the flow level, which the first turn of a *)
(* collection counts up and its end counts down, follow the nesting of the *)
(* states: POP, which looks at no limit, never meets an empty stack of     *)
(* indentations, no collection leaves the indentation of another behind,   *)
(* and nothing in block style is written within flow style.                *)
IndentsFollowNesting == ~emitter.problem => Levelled(emitter)

(* The event at the head of the queue is taken for what it is, or refused. *)
TakesWhatFits ==
    IF Len(queue') < Len(queue) THEN Contract!Produces(Head(queue).type)
    ELSE UNCHANGED <<EmitterPhase, EmitterOpen>> \/ EmitterPhase' = "failed"

(* Whatever the caller sends, the emitter writes only streams that follow  *)
(* the grammar of events; it refuses the event that does not fit, and      *)
(* never goes on behind one that it has refused.                           *)
FollowsContract == Contract!ConsumerSpec
ImplementsContract == FollowsContract /\ [][TakesWhatFits]_emitterVars

(* A caller that overlooks a failure, as the loop of r_emit.c:793 does,    *)
(* is told again: behind a refusal no call succeeds and nothing that the   *)
(* caller sends is taken from the queue.                                   *)
RefusalIsFinal ==
    [][emitter.problem => /\ emitter'.problem
                          /\ call' # "returned"
                          /\ Len(queue') >= Len(queue)]_emitterVars

=============================================================================
