----------------------------- MODULE EventGrammar -----------------------------
(***************************************************************************)
(* The contract between the producers and the consumers of YAML events:    *)
(* yaml_parser_parse feeds the event loop of r_parse.c, and r_emit.c feeds *)
(* yaml_emitter_emit, with streams of this shape.  It is the grammar of    *)
(* events as a pushdown automaton:                                         *)
(*                                                                         *)
(*   stream   ::= STREAM-START document* STREAM-END                        *)
(*   document ::= DOCUMENT-START node DOCUMENT-END                         *)
(*   node     ::= ALIAS | SCALAR                                           *)
(*              | SEQUENCE-START node* SEQUENCE-END                        *)
(*              | MAPPING-START (node node)* MAPPING-END                   *)
(*                                                                         *)
(* The producer may give up between any two events.                        *)
(***************************************************************************)
EXTENDS Naturals, Sequences

VARIABLES phase,      \* where the stream is, outside the collections
          open        \* the open collections, outermost first

Kinds  == {"sequence", "mapping"}
Phases == {"start", "stream", "document", "root", "end", "failed"}

(* A mapping is odd while a key waits for its value.                       *)
Frame(kind) == [kind |-> kind, odd |-> FALSE]
Frames == [kind : Kinds, odd : BOOLEAN]

GrammarTypeOK == /\ phase \in Phases
                 /\ open \in Seq(Frames)

GrammarInit == /\ phase = "start"
               /\ open = <<>>

StreamStartEvent == /\ phase = "start"
                    /\ phase' = "stream"
                    /\ UNCHANGED open

DocumentStartEvent == /\ phase = "stream"
                      /\ phase' = "document"
                      /\ UNCHANGED open

(* A node counts for the collection it begins in.                          *)
Counted == IF open = <<>> THEN open
           ELSE [open EXCEPT ![Len(open)].odd =
                    open[Len(open)].kind = "mapping" /\ ~open[Len(open)].odd]

(* A scalar or an alias: a whole node.                                     *)
LeafEvent == /\ phase = "document"
             /\ open' = Counted
             /\ phase' = IF open = <<>> THEN "root" ELSE phase

CollectionStartEvent(kind) == /\ phase = "document"
                              /\ open' = Append(Counted, Frame(kind))
                              /\ UNCHANGED phase

CollectionEndEvent(kind) ==
        /\ phase = "document" /\ open # <<>>
        /\ open[Len(open)].kind = kind
        /\ ~open[Len(open)].odd
        /\ open' = SubSeq(open, 1, Len(open) - 1)
        /\ phase' = IF Len(open) = 1 THEN "root" ELSE phase

DocumentEndEvent == /\ phase = "root"
                    /\ phase' = "stream"
                    /\ UNCHANGED open

StreamEndEvent == /\ phase = "stream"
                  /\ phase' = "end"
                  /\ UNCHANGED open

GiveUp == /\ phase \notin {"end", "failed"}
          /\ phase' = "failed"
          /\ UNCHANGED open

(* What a consumer makes of an event.                                      *)
OpenAfter(event) ==
    CASE event \in {"ALIAS", "SCALAR"} -> Counted
      [] event = "SEQUENCE-START" -> Append(Counted, Frame("sequence"))
      [] event = "MAPPING-START" -> Append(Counted, Frame("mapping"))
      [] event \in {"SEQUENCE-END", "MAPPING-END"} ->
            SubSeq(open, 1, Len(open) - 1)
      [] OTHER -> open

PhaseAfter(event) ==
    CASE event \in {"STREAM-START", "DOCUMENT-END"} -> "stream"
      [] event = "DOCUMENT-START" -> "document"
      [] event \in {"ALIAS", "SCALAR"} /\ open = <<>> -> "root"
      [] event \in {"SEQUENCE-END", "MAPPING-END"} /\ Len(open) = 1 -> "root"
      [] event = "STREAM-END" -> "end"
      [] OTHER -> phase

(* The step that a producer takes with an event; "NO-EVENT" when there is  *)
(* none, after an error and after the end.                                 *)
Produces(event) ==
    \/ event = "STREAM-START"   /\ StreamStartEvent
    \/ event = "DOCUMENT-START" /\ DocumentStartEvent
    \/ event \in {"ALIAS", "SCALAR"} /\ LeafEvent
    \/ event = "SEQUENCE-START" /\ CollectionStartEvent("sequence")
    \/ event = "SEQUENCE-END"   /\ CollectionEndEvent("sequence")
    \/ event = "MAPPING-START"  /\ CollectionStartEvent("mapping")
    \/ event = "MAPPING-END"    /\ CollectionEndEvent("mapping")
    \/ event = "DOCUMENT-END"   /\ DocumentEndEvent
    \/ event = "STREAM-END"     /\ StreamEndEvent
    \/ event = "NO-EVENT"       /\ (GiveUp \/ UNCHANGED <<phase, open>>)

Events == {"STREAM-START", "STREAM-END", "DOCUMENT-START", "DOCUMENT-END",
           "ALIAS", "SCALAR", "SEQUENCE-START", "SEQUENCE-END",
           "MAPPING-START", "MAPPING-END"}

(* A consumer takes the next event of the grammar, or refuses for good.    *)
ConsumerNext == \/ phase' = "failed"
                \/ phase # "failed" /\ \E event \in Events : Produces(event)

ConsumerSpec == GrammarInit /\ [][ConsumerNext]_<<phase, open>>
=============================================================================
