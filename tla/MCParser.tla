------------------------------- MODULE MCParser -------------------------------
(***************************************************************************)
(* Instances of Parser for TLC, fed with every token stream of TokenStream *)
(* up to a length.                                                         *)
(***************************************************************************)
EXTENDS Parser, TokenStream

AllPlain == {"BLOCK-ENTRY", "FLOW-ENTRY", "KEY", "VALUE", "ALIAS", "ANCHOR",
             "SCALAR"}
=============================================================================
