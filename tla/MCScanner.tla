------------------------------ MODULE MCScanner ------------------------------
(***************************************************************************)
(* The scanner on all texts of a few pieces: short ones of everything that *)
(* starts a token or a comment, longer ones of what opens collections and  *)
(* keys.                                                                   *)
(***************************************************************************)
EXTENDS Scanner

CONSTANTS AnyLength, CoreLength   \* pieces of a text (bounds)

CorePieces == {<<"a">>, <<"-", " ">>, <<":", " ">>, <<"\n">>, <<"\n", " ", " ">>,
               <<"[">>, <<"}">>}
Pieces == CorePieces \cup
    {<<" ">>, <<"?", " ">>, <<",">>, <<"'">>, <<"|">>, <<"&", "a">>, <<"%">>,
     <<"%", "Y", " ", "1", ".", "1", "\n">>, <<"%", "G", " ", "!", " ", "T", "\n">>,
     <<".", ".", ".", "\n">>, <<"-", "-", "-">>, <<"@">>, <<"!">>, <<"*", "a">>,
     <<"\t">>, <<"#">>, <<"\"">>, <<"\"", "\\">>, <<"x", "2", "0">>}

TextsOf(pieces, length) ==
    {FlattenSeq(text) : text \in UNION {[1..n -> pieces] : n \in 0..length}}

MCTexts == TextsOf(Pieces, AnyLength) \cup TextsOf(CorePieces, CoreLength)
=============================================================================
