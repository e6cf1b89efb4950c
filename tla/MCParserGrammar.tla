---------------------------- MODULE MCParserGrammar ----------------------------
(***************************************************************************)
(* Parser fed with the sentences of TokenGrammar.                          *)
(***************************************************************************)
EXTENDS Parser, TokenGrammar

VARIABLE produced   \* how many events the parser has returned

GrammarRunInit == Init /\ produced = 0

GrammarRunNext == /\ Next
                  /\ produced' = IF event' = "NO-EVENT" THEN produced
                                 ELSE produced + 1

GrammarRunSpec == GrammarRunInit /\ [][GrammarRunNext]_<<vars, produced>>
                                 /\ WF_<<vars, produced>>(GrammarRunNext)

(* Every sentence of the grammar at parser.c:3-40, as far as TokenGrammar  *)
(* generates it, is accepted.                                              *)
AcceptsGrammar == ~error

(* ... with the events of its derivation, in their order.                  *)
EventsAsDerived ==
    /\ produced <= Len(reader.source.derived)
    /\ event # "NO-EVENT" => event = reader.source.derived[produced]
    /\ state = "END" => produced = Len(reader.source.derived)
=============================================================================
