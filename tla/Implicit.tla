------------------------------- MODULE Implicit -------------------------------
(***************************************************************************)
(* What a plain scalar without a tag is taken for: Ryaml_find_implicit_tag *)
(* with the patterns of implicit.re, from which implicit.c is generated.   *)
(***************************************************************************)
EXTENDS Characters

(* Regular expressions as data.  Ends(r, text, at) is where a match of r   *)
(* may end that begins behind one of the first characters counted by at.   *)
OneOf(chars) == [kind |-> "one", chars |-> chars]
Parts(parts) == [kind |-> "parts", parts |-> parts]
Either(options) == [kind |-> "either", options |-> options]
Many(part) == [kind |-> "many", part |-> part]
AtLeastOne(part) == Parts(<<part, Many(part)>>)
Maybe(part) == Either({part, Parts(<<>>)})
Word(string) == Parts([i \in DOMAIN Chars(string) |-> OneOf({Chars(string)[i]})])

RECURSIVE Ends(_, _, _)
Ends(r, text, at) ==
    CASE r.kind = "one"    -> {i + 1 : i \in {j \in at : At(text, j + 1) \in r.chars}}
      [] r.kind = "parts"  -> FoldLeft(LAMBDA here, part : Ends(part, text, here),
                                       at, r.parts)
      [] r.kind = "either" -> UNION {Ends(option, text, at) : option \in r.options}
      [] r.kind = "many"   -> LET more == Ends(r.part, text, at)
                              IN  IF more \subseteq at THEN at
                                  ELSE Ends(r, text, at \cup more)

Matches(text, r) == Len(text) \in Ends(r, text, {0})

-----------------------------------------------------------------------------
DIGIT   == OneOf(Digits)
DIGITSC == Many(OneOf(Digits \cup {","}))
DIGITSP == Many(OneOf(Digits \cup {"."}))
SIGN    == OneOf({"-", "+"})
NUMBER  == Parts(<<DIGIT, DIGITSC>>)
SIXTIES == AtLeastOne(Parts(<<OneOf({":"}), Maybe(OneOf({"0", "1", "2", "3", "4", "5"})),
                              DIGIT>>))
POINT   == OneOf({"."})

INTHEX == Parts(<<Maybe(SIGN), Word("0x"),
                  AtLeastOne(OneOf({c \in Letters \cup Digits : IsHex(c)} \cup {","}))>>)
INTOCT == Parts(<<Maybe(SIGN), Word("0"),
                  AtLeastOne(OneOf((Digits \ {"8", "9"}) \cup {","}))>>)
INTSIXTY == Parts(<<Maybe(SIGN), NUMBER, SIXTIES>>)
INTCANON == Parts(<<Maybe(SIGN),
                    Either({Word("0"), Parts(<<OneOf(Digits \ {"0"}), DIGITSC>>)})>>)
FLOATFIX == Parts(<<Maybe(SIGN), Maybe(NUMBER), POINT, DIGITSC>>)
FLOATEXP == Parts(<<Maybe(SIGN), Maybe(NUMBER), POINT, DIGITSP, OneOf({"e", "E"}),
                    SIGN, AtLeastOne(DIGIT)>>)
FLOATSIXTY == Parts(<<Maybe(SIGN), NUMBER, SIXTIES, POINT, DIGITSC>>)

MON  == Parts(<<DIGIT, DIGIT>>)
DASH == OneOf({"-"})
COLON == OneOf({":"})
TIMEYMD == Parts(<<MON, MON, DASH, MON, DASH, MON>>)
CLOCK == Parts(<<MON, COLON, MON, COLON, MON, Maybe(Parts(<<POINT, Many(DIGIT)>>))>>)
TIMEZ == Either({OneOf({"Z"}), Parts(<<SIGN, MON, Maybe(Parts(<<COLON, MON>>))>>)})
TIMEISO == Parts(<<TIMEYMD, OneOf({"T", "t"}), CLOCK, TIMEZ>>)
BLANKS == AtLeastOne(OneOf({" ", "\t"}))
TIMESPACED == Parts(<<TIMEYMD, BLANKS, CLOCK, BLANKS, TIMEZ>>)

NULLTYPE == {"", "~", "null", "Null", "NULL"}
BOOLYES == {"y", "Y", "yes", "Yes", "YES", "true", "True", "TRUE", "on", "On", "ON"}
BOOLNO == {"n", "N", "no", "No", "NO", "false", "False", "FALSE", "off", "Off", "OFF"}
INF == {"inf", "Inf", "INF"}
FLOATINF == {"." \o inf : inf \in INF} \cup {"+." \o inf : inf \in INF}
FLOATNEGINF == {"-." \o inf : inf \in INF}
FLOATNAN == {".nan", ".NaN", ".NAN"}

(* The canonical form of a timestamp is an ISO 8601 form as well, and the  *)
(* rule of that comes first: "timestamp" is never returned.                *)
FindImplicitTag(text) ==
    LET word == AsString(text)
    IN  CASE word \in NULLTYPE -> "null"
          [] word \in BOOLYES -> "bool#yes"
          [] word \in BOOLNO -> "bool#no"
          [] word = ".na" -> "bool#na"
          [] Matches(text, INTHEX) -> "int#hex"
          [] Matches(text, INTOCT) -> "int#oct"
          [] Matches(text, INTSIXTY) -> "int#base60"
          [] word = ".na.integer" -> "int#na"
          [] Matches(text, INTCANON) -> "int"
          [] Matches(text, FLOATFIX) -> "float#fix"
          [] Matches(text, FLOATEXP) -> "float#exp"
          [] Matches(text, FLOATSIXTY) -> "float#base60"
          [] word \in FLOATINF -> "float#inf"
          [] word \in FLOATNEGINF -> "float#neginf"
          [] word \in FLOATNAN -> "float#nan"
          [] word = ".na.real" -> "float#na"
          [] Matches(text, TIMEYMD) -> "timestamp#ymd"
          [] Matches(text, TIMEISO) -> "timestamp#iso8601"
          [] Matches(text, TIMESPACED) -> "timestamp#spaced"
          [] word = ".na.character" -> "str#na"
          [] word = "=" -> "default"
          [] word = "<<" -> "merge"
          [] OTHER -> "str"
=============================================================================
