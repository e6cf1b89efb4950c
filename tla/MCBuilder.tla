------------------------------ MODULE MCBuilder ------------------------------
(***************************************************************************)
(* Instances of Builder.  "loop" lets handlers and expressions fail,       *)
(* return a scalar or a map, and clear the message; "nested" lets them     *)
(* leave the message of a nested call behind; "latest" is for aliases.     *)
(* "maps" has longer streams and no handlers: nested mappings with merge   *)
(* keys, colliding keys, NULL values, and omaps.                           *)
(***************************************************************************)
EXTENDS Builder

Scalar(tag, text) == [tag |-> tag, text |-> text]

MCOneScalar     == {Scalar("str", "k")}
MCMapScalars    == {Scalar("str", "1"), Scalar("int", "1"),
                    Scalar("null", "~"), Scalar("merge", "<<")}
MCTaggedScalars == {Scalar("str", "k"), Scalar("seq", "k"), Scalar("expr", "f()")}

Outcome(fails, obj, leaves) == [fails |-> fails, result |-> obj, leaves |-> leaves]

MCFailing   == Outcome(TRUE, Null, "untouched")
MCReturning == Outcome(FALSE, ChrOf("h"), "untouched")
MCMap       == Outcome(FALSE, MapOf(<<ChrOf("h")>>, <<Null>>), "untouched")

MCNoOutcomes     == {}
MCPlainOutcomes  == {MCFailing, MCReturning, MCMap,
                     Outcome(FALSE, ChrOf("h"), "")}
MCNestedOutcomes == {MCFailing, Outcome(TRUE, Null, "Nested"),
                     Outcome(FALSE, ChrOf("h"), "Nested")}
=============================================================================
