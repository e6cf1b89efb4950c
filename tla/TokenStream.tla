----------------------------- MODULE TokenStream -----------------------------
(***************************************************************************)
(* The token streams of the scanner (scanner.c), as far as the parser can  *)
(* tell: which tokens may come next, given the indentation levels and the  *)
(* flow collections that are open.  Characters, simple keys and columns    *)
(* are left out: any token that the levels allow may come.                 *)
(***************************************************************************)
EXTENDS Naturals

CONSTANTS MaxTokens,          \* tokens of one stream, BLOCK-ENDs and the two
                              \* ends of the stream apart (bound)
          PlainTokens,        \* the types without a level that are generated
          TagHandles,         \* handles of tags; "" for a verbatim tag
          DirectiveHandles,   \* handles of %TAG directives
          Versions            \* "compatible", "incompatible"

ASSUME TokenStreamAssumption == MaxTokens \in Nat

ScannerStates == [started : BOOLEAN, ended : BOOLEAN, left : 0..MaxTokens,
                  indents : 0..MaxTokens, flow : 0..MaxTokens]

InitialScanner == [started |-> FALSE, ended |-> FALSE, left |-> MaxTokens,
                   indents |-> 0, flow |-> 0]

T(type) == [type |-> type, text |-> ""]
Delivers(token, s) == [token |-> token, source |-> s]

(* Tokens that do not change a level.                                      *)
ContentTokens ==
    {T(type) : type \in PlainTokens}
        \cup {[type |-> "TAG", text |-> h] : h \in TagHandles}

(* fetch_directive and fetch_document_indicator unroll all indentation     *)
(* first, which does nothing inside a flow collection.                     *)
DocumentTokens ==
    {T("DOCUMENT-START"), T("DOCUMENT-END")}
        \cup {[type |-> "TAG-DIRECTIVE", text |-> h] : h \in DirectiveHandles}
        \cup {[type |-> "VERSION-DIRECTIVE", text |-> v] : v \in Versions}

Unrolled(s) == s.flow > 0 \/ s.indents = 0

(* yaml_parser_roll_indent, outside of flow collections.                   *)
RollIndent(s) ==
    IF s.flow > 0 THEN {}
    ELSE {Delivers(T(type), [s EXCEPT !.left = @ - 1, !.indents = @ + 1])
            : type \in {"BLOCK-SEQUENCE-START", "BLOCK-MAPPING-START"}}

(* yaml_parser_unroll_indent, outside of flow collections.                 *)
UnrollIndent(s) ==
    IF s.flow > 0 \/ s.indents = 0 THEN {}
    ELSE {Delivers(T("BLOCK-END"), [s EXCEPT !.indents = @ - 1])}

FetchFlowCollectionStart(s) ==
    {Delivers(T(type), [s EXCEPT !.left = @ - 1, !.flow = @ + 1])
       : type \in {"FLOW-SEQUENCE-START", "FLOW-MAPPING-START"}}

(* An end without a start is a token too.                                  *)
FetchFlowCollectionEnd(s) ==
    {Delivers(T(type), [s EXCEPT !.left = @ - 1,
                                 !.flow = IF @ > 0 THEN @ - 1 ELSE 0])
       : type \in {"FLOW-SEQUENCE-END", "FLOW-MAPPING-END"}}

FetchStreamEnd(s) ==
    IF Unrolled(s) THEN {Delivers(T("STREAM-END"), [s EXCEPT !.ended = TRUE])}
    ELSE {}

(* What yaml_parser_fetch_more_tokens puts at the head of the queue.       *)
Deliver(s) ==
    IF ~s.started
    THEN {Delivers(T("STREAM-START"), [s EXCEPT !.started = TRUE])}
    ELSE IF s.ended THEN {Delivers(T("NO-TOKEN"), s)}
    ELSE {Delivers(T("NO-TOKEN"), s)} \cup UnrollIndent(s) \cup FetchStreamEnd(s)
         \cup IF s.left = 0 THEN {}
              ELSE RollIndent(s)
                   \cup FetchFlowCollectionStart(s)
                   \cup FetchFlowCollectionEnd(s)
                   \cup {Delivers(token, [s EXCEPT !.left = @ - 1])
                           : token \in ContentTokens
                                \cup IF Unrolled(s) THEN DocumentTokens ELSE {}}
=============================================================================
