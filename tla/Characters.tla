------------------------------ MODULE Characters ------------------------------
(***************************************************************************)
(* The characters that the scanner and the emitter tell apart, with the    *)
(* classes of yaml_private.h.  A text is a sequence of characters, each a  *)
(* string of length one.                                                   *)
(*                                                                         *)
(* One character may stand for many: "a" for any letter and any printable  *)
(* one outside of ASCII, "\t" for any that is not printable, "\n" for      *)
(* every line break.  "T" stands for the prefix                            *)
(* "tag:yaml.org,2002:", "Y" and "G" for the directive names YAML and TAG. *)
(***************************************************************************)
EXTENDS Integers, SequencesExt, FiniteSetsExt

Letters == {"a", "b", "c", "d", "e", "f", "g", "h", "i", "l", "m", "n", "o", "p", "r", "s",
            "t", "u", "v", "x", "y", "E", "G", "L", "N", "P", "U", "Y"}
Digits  == {"0", "1", "2", "3", "4", "5", "6", "7", "8", "9"}

IsAlpha(c)     == c \in Letters \cup Digits \cup {"_", "-"}
IsDigit(c)     == c \in Digits
IsHex(c)       == c \in Digits \cup {"a", "b", "c", "d", "e", "f", "E"}
IsPrintable(c) == c # "\t"

IsSpace(c)  == c = " "
IsTab(c)    == c = "\t"
IsBlank(c)  == c \in {" ", "\t"}
IsBreak(c)  == c = "\n"
IsZ(c)      == c = "NUL"
IsBreakZ(c) == IsBreak(c) \/ IsZ(c)
IsBlankZ(c) == IsBlank(c) \/ IsBreakZ(c)

(* The character at a position; behind a text there is a NUL.              *)
At(text, i) == IF i \in DOMAIN text THEN text[i] ELSE "NUL"

(* A text as a string, and a string as a text.                             *)
AsString(chars) == FoldLeft(LAMBDA string, c : string \o c, "", chars)
Chars(string) == [i \in 1..Len(string) |-> SubSeq(string, i, i)]

DigitOrder == <<"0", "1", "2", "3", "4", "5", "6", "7", "8", "9">>
DigitValue(c) == CHOOSE n \in 0..9 : DigitOrder[n + 1] = c

(* How many characters at the start of a text pass a test.                 *)
Span(text, Test(_)) ==
    LET stops == {i \in DOMAIN text : ~Test(text[i])}
    IN  IF stops = {} THEN Len(text) ELSE Min(stops) - 1

(* The codes of the characters that are written as an escape.              *)
Codes == [c \in {"!", " ", "%", "#", "\t", "\n"} |->
            CASE c = "!"  -> <<"2", "1">>
              [] c = " "  -> <<"2", "0">>
              [] c = "%"  -> <<"2", "5">>
              [] c = "#"  -> <<"2", "3">>
              [] c = "\t" -> <<"0", "9">>
              [] c = "\n" -> <<"0", "a">>]

Coded(code) == {c \in DOMAIN Codes : Codes[c] = code}
=============================================================================
