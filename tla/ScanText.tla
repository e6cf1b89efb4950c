------------------------------- MODULE ScanText -------------------------------
(***************************************************************************)
(* The token scanners of LibYAML (the second half of scanner.c): what one  *)
(* token takes from the text and what its value is.                        *)
(*                                                                         *)
(* Each operator takes the scanner as a record s and returns it behind     *)
(* what was read, with error set when the text is refused.  They use the   *)
(* fields rest (the text that is left), index, line, column, error and, of *)
(* Scanner.tla's, indent, flowLevel and simpleKeyAllowed.                  *)
(***************************************************************************)
EXTENDS Characters

CONSTANT MaxNumberLength   \* MAX_NUMBER_LENGTH, 9

ASSUME NumberAssumption == MaxNumberLength \in Nat

Ahead(s, k) == At(s.rest, k + 1)
Here(s) == Ahead(s, 0)
Failed(s) == [s EXCEPT !.error = TRUE]
Unless(s, bad) == IF bad THEN Failed(s) ELSE s

(* SKIP, n times.                                                          *)
Forward(s, n) == [s EXCEPT !.rest = SubSeq(@, n + 1, Len(@)),
                           !.index = @ + n, !.column = @ + n]

(* SKIP_LINE; not all of the text has a line break.                        *)
SkipLine(s) == IF IsBreak(Here(s))
               THEN [Forward(s, 1) EXCEPT !.column = 0, !.line = @ + 1] ELSE s

LineBreaks(text) == Cardinality({i \in DOMAIN text : IsBreak(text[i])})
BreakSeq(n) == [i \in 1..n |-> "\n"]

(* A loop over the text, with turns enough: each reads a character or a    *)
(* line break, apart from the last, behind which nothing changes.          *)
Loop(Turn(_), start, turns) ==
    LET after[i \in 0..turns] == IF i = 0 THEN start ELSE Turn(after[i - 1])
    IN  after[turns]

CharacterTurns(s) == Len(s.rest) + 1
LineTurns(s) == LineBreaks(s.rest) + 1

(* SKIP and SKIP_LINE over n characters.                                   *)
ForwardLines(s, n) ==
    LET breaks == {i \in 1..n : IsBreak(s.rest[i])}
    IN  IF breaks = {} THEN Forward(s, n)
        ELSE [Forward(s, n) EXCEPT !.column = n - Max(breaks),
                                   !.line = @ + Cardinality(breaks)]

SkipBlanks(s) == Forward(s, Span(s.rest, IsBlank))
SkipComment(s) ==
    IF Here(s) # "#" THEN s
    ELSE Forward(s, Span(s.rest, LAMBDA c : ~IsBreakZ(c)))

(* Blanks, a comment and a line break behind a directive or a header.      *)
RestOfLine(s) ==
    LET end == SkipComment(SkipBlanks(s))
    IN  IF IsBreakZ(Here(end)) THEN SkipLine(end) ELSE Failed(end)

(* At the start of a line, "---" or "..." and white space.                 *)
Indicated(s, c) == /\ s.column = 0
                   /\ \A k \in 0..2 : Ahead(s, k) = c
                   /\ IsBlankZ(Ahead(s, 3))
DocumentIndicator(s) == Indicated(s, "-") \/ Indicated(s, ".")

(* yaml_parser_scan_to_next_token: in each turn, white space and a comment *)
(* up to the token or through the end of the line.                         *)
SkipToToken(s) ==
    LET mayTab == s.flowLevel > 0 \/ ~s.simpleKeyAllowed
        blanks == Span(s.rest, LAMBDA c : IsSpace(c) \/ (mayTab /\ IsTab(c)))
        there  == SkipComment(Forward(s, blanks))
    IN  IF ~IsBreak(Here(there)) THEN there
        ELSE [SkipLine(there) EXCEPT !.simpleKeyAllowed = @ \/ s.flowLevel = 0]

ScanToNextToken(s) == Loop(SkipToToken, s, LineTurns(s))

-----------------------------------------------------------------------------
(* A token; text is what decides about it later: the handle of a tag or of *)
(* a directive, as a string, or that a scalar is quoted.                   *)
Token(type, text, value) == [type |-> type, text |-> text, value |-> value]
Scanned(s, token) == [s |-> s, token |-> token]

(* Directives.                                                             *)
Number(digits) == FoldLeft(LAMBDA n, d : 10 * n + DigitValue(d), 0, digits)

(* The number at the start of a text, behind which there is s.             *)
VersionNumber(s) ==
    LET n == Span(s.rest, IsDigit)
    IN  [s |-> Unless(Forward(s, n), n = 0 \/ n > MaxNumberLength),
         number |-> IF n > MaxNumberLength THEN 0 ELSE Number(SubSeq(s.rest, 1, n))]

ScanVersionDirectiveValue(s) ==
    LET major == VersionNumber(SkipBlanks(s))
        point == Unless(major.s, Here(major.s) # ".")
        minor == VersionNumber(Forward(point, 1))
    IN  Scanned(minor.s,
                Token("VERSION-DIRECTIVE",
                      IF <<major.number, minor.number>> \in {<<1, 1>>, <<1, 2>>}
                      THEN "compatible" ELSE "incompatible", <<>>))

ScanTagHandle(s, directive) ==
    LET letters == Span(Tail(s.rest), IsAlpha)
        closed  == Ahead(s, letters + 1) = "!"
        length  == letters + IF closed THEN 2 ELSE 1
    IN  IF Here(s) # "!" THEN [s |-> Failed(s), handle |-> <<>>]
        ELSE [s |-> Unless(Forward(s, length), directive /\ ~closed /\ letters > 0),
              handle |-> SubSeq(s.rest, 1, length)]

UriCharacters == {";", "/", "?", ":", "@", "&", "=", "+", "$", ".", "%", "!",
                  "~", "*", "'", "(", ")"}
VerbatimCharacters == {",", "[", "]", "T"}

IsUri(c, verbatim) == IsAlpha(c) \/ c \in UriCharacters
                      \/ (verbatim /\ c \in VerbatimCharacters)

(* A URI escape; characters outside of ASCII are left out.                 *)
ScanUriEscape(s) ==
    LET code == <<Ahead(s, 1), Ahead(s, 2)>>
    IN  [s |-> Unless(Forward(s, 3), ~(IsHex(code[1]) /\ IsHex(code[2]))),
         char |-> IF Coded(code) = {} THEN "a" ELSE CHOOSE c \in Coded(code) : TRUE]

UriTurn(r, verbatim) ==
    LET escape == ScanUriEscape(r.s)
    IN  IF r.s.error \/ ~IsUri(Here(r.s), verbatim) THEN r
        ELSE IF Here(r.s) = "%"
        THEN [s |-> escape.s, uri |-> Append(r.uri, escape.char)]
        ELSE [s |-> Forward(r.s, 1), uri |-> Append(r.uri, Here(r.s))]

UriFrom(s, verbatim, uri) ==
    Loop(LAMBDA r : UriTurn(r, verbatim), [s |-> s, uri |-> uri], CharacterTurns(s))

(* The head of a tag that was read as a handle comes first, without "!".   *)
UriBehind(head, found) == [found EXCEPT !.s = Unless(@, head = <<>> /\ found.uri = <<>>)]

ScanTagUri(s, verbatim, head) ==
    UriBehind(head, UriFrom(s, verbatim, IF head = <<>> THEN <<>> ELSE Tail(head)))

ScanTagDirectiveValue(s) ==
    LET named  == ScanTagHandle(SkipBlanks(s), TRUE)
        prefix == ScanTagUri(SkipBlanks(named.s), TRUE, <<>>)
    IN  Scanned(Unless(prefix.s, ~IsBlank(Here(named.s)) \/ ~IsBlankZ(Here(prefix.s))),
                Token("TAG-DIRECTIVE", AsString(named.handle), prefix.uri))

ScanDirective(s) ==
    LET begun  == Forward(s, 1)
        length == Span(begun.rest, IsAlpha)
        name   == SubSeq(begun.rest, 1, length)
        behind == Forward(begun, length)
        found  == IF name = <<"Y">> THEN ScanVersionDirectiveValue(behind)
                                    ELSE ScanTagDirectiveValue(behind)
    IN  IF name \notin {<<"Y">>, <<"G">>} \/ ~IsBlankZ(Here(behind))
        THEN Scanned(Failed(behind), Token("NO-TOKEN", "", <<>>))
        ELSE [found EXCEPT !.s = IF @.error THEN @ ELSE RestOfLine(@)]

-----------------------------------------------------------------------------
(* Anchors, aliases and tags.                                              *)

ScanAnchor(s, type) ==
    LET length == Span(Tail(s.rest), IsAlpha)
        end    == Forward(s, length + 1)
        ends   == IsBlankZ(Here(end)) \/ Here(end) \in {"?", ":", ",", "]", "}", "%", "@"}
    IN  Scanned(Unless(end, length = 0 \/ ~ends),
                Token(type, "", SubSeq(s.rest, 2, length + 1)))

(* !<uri>, !handle!suffix, or !suffix; "!" alone has no handle.            *)
Tag(handle, found) == [s |-> found.s, handle |-> handle, suffix |-> found.uri]

VerbatimTag(found) ==
    Tag(<<>>, [found EXCEPT !.s = Forward(Unless(@, Here(@) # ">"), 1)])

LocalTag(found) == IF found.uri = <<>> THEN Tag(<<>>, [found EXCEPT !.uri = <<"!">>])
                   ELSE Tag(<<"!">>, found)

Shorthand(first) ==
    IF Len(first.handle) > 1 /\ Last(first.handle) = "!"
    THEN Tag(first.handle, ScanTagUri(first.s, FALSE, <<>>))
    ELSE LocalTag(ScanTagUri(first.s, FALSE, first.handle))

TagToken(tag) ==
    LET ends == \/ IsBlankZ(Here(tag.s))
                \/ tag.s.flowLevel > 0 /\ Here(tag.s) = ","
    IN  Scanned(Unless(tag.s, ~ends), Token("TAG", AsString(tag.handle), tag.suffix))

ScanTag(s) ==
    IF Ahead(s, 1) = "<" THEN TagToken(VerbatimTag(ScanTagUri(Forward(s, 2), TRUE, <<>>)))
    ELSE TagToken(Shorthand(ScanTagHandle(s, FALSE)))

-----------------------------------------------------------------------------
(* Flow scalars.  A run of white space with line breaks in it is folded:   *)
(* one line break is a space, of more the first is dropped.                *)
WhiteRun(s) == Span(s.rest, LAMBDA c : IsBlank(c) \/ IsBreak(c))

Folded(white) == LET breaks == LineBreaks(white)
                 IN  IF breaks = 0 THEN white
                     ELSE IF breaks = 1 THEN <<" ">> ELSE BreakSeq(breaks - 1)

(* A scalar in the making: white is what was read and belongs to it only   *)
(* if more follows.                                                        *)
Reading(s, value, white) == [s |-> s, value |-> value, white |-> white, done |-> FALSE]
Read(s, value) == [s |-> s, value |-> value, white |-> <<>>, done |-> TRUE]

(* The character that is meant by "\\" and the next one.                   *)
Escapes ==
    LET same   == {" ", "\"", "/", "\\"}
        hidden == {"0", "a", "b", "t", "\t", "v", "f", "e"}
        breaks == {"n", "r", "N", "L", "P"}
    IN  [c \in same \cup hidden \cup breaks \cup {"_"} |->
            IF c \in same THEN c
            ELSE IF c \in hidden THEN "\t" ELSE IF c \in breaks THEN "\n" ELSE "a"]

CodeLength == [c \in {"x", "u", "U"} |-> IF c = "x" THEN 2 ELSE IF c = "u" THEN 4 ELSE 8]

(* A code that is no character is not hexadecimal, or from D800 to DFFF,   *)
(* or above 10FFFF.                                                        *)
NoCharacter(code) ==
    LET n == Len(code)
        zeros(k) == \A i \in 1..k : code[i] = "0"
    IN  \/ \E i \in 1..n : ~IsHex(code[i])
        \/ /\ n >= 4 /\ zeros(n - 4)
           /\ code[n - 3] = "d" /\ ~(IsDigit(code[n - 2]) /\ DigitValue(code[n - 2]) < 8)
        \/ n = 8 /\ ~zeros(3) /\ ~(zeros(2) /\ code[3] = "1" /\ code[4] = "0")

(* Any character that Codes does not list is taken for a letter.           *)
CodedCharacter(code) ==
    LET n == Len(code)
        found == {c \in Coded(SubSeq(code, n - 1, n)) : \A i \in 1..(n - 2) : code[i] = "0"}
    IN  IF found = {} THEN "a" ELSE CHOOSE c \in found : TRUE

ScanEscape(s) ==
    LET next == Ahead(s, 1)
        code == [i \in 1..CodeLength[next] |-> Ahead(s, i + 1)]
    IN  IF next \in DOMAIN CodeLength
        THEN [s |-> Unless(Forward(s, 2 + CodeLength[next]), NoCharacter(code)),
              char |-> CodedCharacter(code)]
        ELSE IF next \in DOMAIN Escapes
        THEN [s |-> Forward(s, 2), char |-> Escapes[next]]
        ELSE [s |-> Failed(s), char |-> "a"]

QuotedTurn(r, quote) ==
    LET s     == r.s
        value == r.value
        c     == Here(s)
        white == SubSeq(s.rest, 1, WhiteRun(s))
        line   == SkipLine(Forward(s, 1))
        behind == SubSeq(line.rest, 1, WhiteRun(line))
        escape == ScanEscape(s)
        On(there, more) == Reading(there, value \o more, <<>>)
    IN  IF r.done THEN r
        ELSE IF s.error \/ IsZ(c) \/ DocumentIndicator(s) THEN Read(Failed(s), value)
        ELSE IF quote = "'" /\ c = quote /\ Ahead(s, 1) = quote
        THEN On(Forward(s, 2), <<quote>>)
        ELSE IF c = quote THEN Read(Forward(s, 1), value)
        ELSE IF white # <<>> THEN On(ForwardLines(s, Len(white)), Folded(white))
        ELSE IF c # "\\" \/ quote = "'" THEN On(Forward(s, 1), <<c>>)
        ELSE IF IsBreak(Ahead(s, 1))
        THEN On(ForwardLines(line, Len(behind)), BreakSeq(LineBreaks(behind)))
        ELSE On(escape.s, <<escape.char>>)

QuotedFrom(s, quote) ==
    Loop(LAMBDA r : QuotedTurn(r, quote), Reading(s, <<>>, <<>>), CharacterTurns(s))

ScanFlowScalar(s) ==
    LET scalar == QuotedFrom(Forward(s, 1), Here(s))
    IN  Scanned(scalar.s, Token("SCALAR", "quoted", scalar.value))

FlowIndicators == {",", "[", "]", "{", "}"}

(* The colon that ends a plain scalar, or the indicator in a collection.   *)
EndsPlain(s) == \/ Here(s) = ":" /\ IsBlankZ(Ahead(s, 1))
                \/ s.flowLevel > 0 /\ Here(s) \in FlowIndicators

(* A tab in the indentation of a line that continues the scalar.           *)
TabInIndentation(s, white) ==
    \E i \in DOMAIN white :
        /\ IsTab(white[i])
        /\ LineBreaks(SubSeq(white, 1, i)) > 0
        /\ ForwardLines(s, i - 1).column < s.indent + 1

(* A scalar that ends with a line break allows a simple key behind it.     *)
PlainTurn(r) ==
    LET s     == r.s
        value == r.value
        c     == Here(s)
        run   == SubSeq(s.rest, 1, WhiteRun(s))
        next  == ForwardLines(s, Len(run))
        Ended(there, white) ==
            Read([there EXCEPT !.simpleKeyAllowed = @ \/ LineBreaks(white) > 0], value)
    IN  IF r.done THEN r
        ELSE IF IsZ(c) THEN Ended(s, r.white)
        ELSE IF r.white # <<>> /\ (c = "#" \/ DocumentIndicator(s)) THEN Ended(s, r.white)
        ELSE IF run # <<>>
        THEN IF TabInIndentation(s, run) THEN Read(Failed(s), value)
             ELSE IF s.flowLevel = 0 /\ next.column < s.indent + 1 THEN Ended(next, run)
             ELSE Reading(next, value, run)
        ELSE IF s.flowLevel > 0 /\ c = ":" /\ Ahead(s, 1) \in FlowIndicators \cup {"?"}
        THEN Read(Failed(s), value)
        ELSE IF EndsPlain(s) THEN Ended(s, r.white)
        ELSE Reading(Forward(s, 1), value \o Folded(r.white) \o <<c>>, <<>>)

PlainFrom(s) == Loop(PlainTurn, Reading(s, <<>>, <<>>), CharacterTurns(s))

ScanPlainScalar(s) == LET scalar == PlainFrom(s)
                      IN  Scanned(scalar.s, Token("SCALAR", "", scalar.value))

-----------------------------------------------------------------------------
(* Block scalars.                                                          *)

(* The header: how the line breaks at the end are chomped, and by how much *)
(* the text is indented, in either order.                                  *)
Header(s) ==
    LET Chomps(k) == Ahead(s, k) \in {"+", "-"}
        Indents(k) == IsDigit(Ahead(s, k))
        chompAt  == IF Chomps(1) THEN {1} ELSE IF Indents(1) /\ Chomps(2) THEN {2} ELSE {}
        indentAt == IF Indents(1) THEN {1} ELSE IF Chomps(1) /\ Indents(2) THEN {2} ELSE {}
        zero     == \E k \in indentAt : Ahead(s, k) = "0"
    IN  [s |-> RestOfLine(Unless(Forward(s, 1 + Cardinality(chompAt \cup indentAt)), zero)),
         chomping |-> IF chompAt = {} THEN "0" ELSE Ahead(s, Max(chompAt)),
         increment |-> IF indentAt = {} THEN 0 ELSE DigitValue(Ahead(s, Max(indentAt)))]

(* yaml_parser_scan_block_scalar_breaks: the indentation of the next line  *)
(* of text, 0 while it is not known, and the empty lines in front of it.   *)
BreaksTurn(r, indent) ==
    LET free  == Span(r.s.rest, IsSpace)
        least == IF indent = 0 THEN free ELSE Min({free, Max({indent - r.s.column, 0})})
        line  == Forward(r.s, least)
        width == Max({r.widest, line.column})
    IN  IF IsBreak(Here(line))
        THEN [s |-> SkipLine(line), widest |-> width, breaks |-> r.breaks + 1]
        ELSE [s |-> line, widest |-> width, breaks |-> r.breaks]

BlockBreaks(s, indent) ==
    LET end == Loop(LAMBDA r : BreaksTurn(r, indent),
                    [s |-> s, widest |-> 0, breaks |-> 0], LineTurns(s))
        messed == IsTab(Here(end.s)) /\ (indent = 0 \/ end.s.column < indent)
    IN  [s |-> Unless(end.s, messed), breaks |-> BreakSeq(end.breaks),
         indent |-> IF indent # 0 THEN indent
                    ELSE Max({end.widest, s.indent + 1, 1})]

Joined(literal, leading, trailing, leadingBlank, trailingBlank) ==
    (IF ~literal /\ leading # <<>> /\ ~leadingBlank /\ ~trailingBlank
     THEN IF trailing = <<>> THEN <<" ">> ELSE <<>>
     ELSE leading) \o trailing

(* next is what BlockBreaks found: the lines from there on.                *)
Lines(next, value, leading, leadingBlank) ==
    [next |-> next, value |-> value, leading |-> leading, leadingBlank |-> leadingBlank]

LineTurn(r, literal) ==
    LET s     == r.next.s
        width == Span(s.rest, LAMBDA c : ~IsBreakZ(c))
        blank == IsBlank(Here(s))
        end   == Forward(s, width)
    IN  IF s.error \/ s.column # r.next.indent \/ IsZ(Here(s)) THEN r
        ELSE Lines(BlockBreaks(SkipLine(end), r.next.indent),
                   r.value \o Joined(literal, r.leading, r.next.breaks, r.leadingBlank, blank)
                           \o SubSeq(s.rest, 1, width),
                   IF IsBreak(Here(end)) THEN <<"\n">> ELSE <<>>, blank)

BlockLines(next, literal) ==
    Loop(LAMBDA r : LineTurn(r, literal), Lines(next, <<>>, <<>>, FALSE), LineTurns(next.s))

ScanBlockScalar(s) ==
    LET header == Header(s)
        indent == IF header.increment = 0 THEN 0
                  ELSE Max({s.indent, 0}) + header.increment
        text   == BlockLines(BlockBreaks(header.s, indent), Here(s) = "|")
        kept   == CASE header.chomping = "-" -> <<>>
                    [] header.chomping = "0" -> text.leading
                    [] header.chomping = "+" -> text.leading \o text.next.breaks
    IN  Scanned(text.next.s, Token("SCALAR", "", text.value \o kept))
=============================================================================
