------------------------------ MODULE EmitterText ------------------------------
(***************************************************************************)
(* What the emitter of LibYAML (emitter.c) writes: the scalar, tag and     *)
(* anchor writers, and the analysis of scalars and tags on which the       *)
(* choice of a style rests.                                                *)
(*                                                                         *)
(* Line breaks are LF; the output is UTF-8, the unicode option is set and  *)
(* canonical is not, as r_emit.c has it by default.                        *)
(***************************************************************************)
EXTENDS Characters

CONSTANTS BestIndent,  \* emitter->best_indent
          BestWidth    \* emitter->best_width

ASSUME WriterAssumption == BestIndent \in Nat /\ BestWidth \in Nat

(* The normalisation in yaml_emitter_emit_stream_start.                    *)
IndentStep == IF BestIndent \in 2..9 THEN BestIndent ELSE 2
Width == IF BestWidth <= 2 * IndentStep THEN 80 ELSE BestWidth

-----------------------------------------------------------------------------
(* The output: the text, the column, whether the last character was white  *)
(* space or belongs to the indentation, and open_ended.                    *)
EmptyOutput == [text |-> <<>>, column |-> 0, whitespace |-> TRUE,
                indention |-> TRUE, openEnded |-> 0]

Put(o, c)   == [o EXCEPT !.text = Append(@, c), !.column = @ + 1]
PutAll(o, s) == [o EXCEPT !.text = @ \o s, !.column = @ + Len(s)]
PutBreak(o) == [o EXCEPT !.text = Append(@, "\n"), !.column = 0]

Spaces(n) == [i \in 1..n |-> " "]

(* yaml_emitter_write_indent: a new line unless the column is still in the *)
(* indentation.                                                            *)
WriteIndent(o, indent) ==
    LET column == IF indent >= 0 THEN indent ELSE 0
        start  == IF \/ ~o.indention
                     \/ o.column > column
                     \/ o.column = column /\ ~o.whitespace
                  THEN PutBreak(o) ELSE o
    IN  [PutAll(start, Spaces(column - start.column))
            EXCEPT !.whitespace = TRUE, !.indention = TRUE]

Separated(o) == IF o.whitespace THEN o ELSE Put(o, " ")

WriteIndicator(o, s, needWhitespace, isWhitespace, isIndention) ==
    [PutAll(IF needWhitespace THEN Separated(o) ELSE o, s)
        EXCEPT !.whitespace = isWhitespace,
               !.indention = @ /\ isIndention,
               !.openEnded = 0]

Inline(o) == [o EXCEPT !.whitespace = FALSE, !.indention = FALSE]

WriteAnchor(o, name) == Inline(PutAll(o, name))
WriteTagHandle(o, handle) == Inline(PutAll(Separated(o), handle))

(* Mutant: "!" is taken for a character of a tag.                          *)
TagCharactersWithBang == {";", "/", "?", ":", "@", "&", "=", "+", "$", ",", ".",
                          "~", "*", "'", "(", ")", "[", "]", "T", "!"}

(* What may not stand in a tag as it is becomes the code of the character. *)
TagCharacters == {";", "/", "?", ":", "@", "&", "=", "+", "$", ",", ".", "~",
                  "*", "'", "(", ")", "[", "]", "T"}

TagContent(s) == FlattenSeq([i \in DOMAIN s |->
    IF IsAlpha(s[i]) \/ s[i] \in TagCharacters THEN <<s[i]>>
    ELSE <<"%">> \o Codes[s[i]]])

WriteTagContent(o, s, needWhitespace) ==
    Inline(PutAll(IF needWhitespace THEN Separated(o) ELSE o, TagContent(s)))

-----------------------------------------------------------------------------
(* yaml_emitter_analyze_scalar.                                            *)
Indicators == {"#", ",", "[", "]", "{", "}", "&", "*", "!", "|", ">", "'",
               "\"", "%", "@"}

Triple(v, c) == \A i \in 1..3 : At(v, i) = c

BlockIndicators(v) ==
    \/ Triple(v, "-") \/ Triple(v, ".")
    \/ v[1] \in Indicators
    \/ v[1] \in {"?", "-"} /\ IsBlankZ(At(v, 2))
    \/ \E i \in DOMAIN v : v[i] = ":" /\ IsBlankZ(At(v, i + 1))
    \/ \E i \in 2..Len(v) : v[i] = "#" /\ IsBlankZ(v[i - 1])

FlowIndicators(v) ==
    \/ BlockIndicators(v)
    \/ v[1] = "?"
    \/ \E i \in DOMAIN v : v[i] = ":"
    \/ \E i \in 2..Len(v) : v[i] \in {",", "?", "[", "]", "{", "}"}

(* Two characters in a row.                                                *)
Next2(v, c, d) == \E i \in 1..(Len(v) - 1) : v[i] = c /\ v[i + 1] = d

Analysis(v) ==
    IF v = <<>>
    THEN [multiline |-> FALSE, flowPlain |-> FALSE, blockPlain |-> TRUE,
          singleQuoted |-> TRUE, block |-> FALSE]
    ELSE LET ends       == {v[1], v[Len(v)]}
             lineBreaks == \E i \in DOMAIN v : IsBreak(v[i])
             special    == \E i \in DOMAIN v : ~IsPrintable(v[i])
             breakSpace == Next2(v, "\n", " ")
             spaceBreak == Next2(v, " ", "\n")
             plain      == /\ ends \cap {" ", "\n"} = {}
                           /\ ~breakSpace /\ ~spaceBreak
                           /\ ~special /\ ~lineBreaks
         IN  [multiline    |-> lineBreaks,
              flowPlain    |-> plain /\ ~FlowIndicators(v),
              blockPlain   |-> plain /\ ~BlockIndicators(v),
              singleQuoted |-> ~breakSpace /\ ~spaceBreak /\ ~special,
              block        |-> v[Len(v)] # " " /\ ~spaceBreak /\ ~special]

(* yaml_emitter_analyze_tag: a tag is split at the first directive whose   *)
(* prefix it begins with, unless it is that prefix.                        *)
TagData(tag, directives) ==
    LET fits == {i \in DOMAIN directives :
                    IsStrictPrefix(directives[i].prefix, tag)}
    IN  IF fits = {} THEN [handle |-> <<>>, suffix |-> tag]
        ELSE LET d == directives[CHOOSE i \in fits : \A j \in fits : i <= j]
             IN  [handle |-> d.handle,
                  suffix |-> SubSeq(tag, Len(d.prefix) + 1, Len(tag))]

NoTag == [handle |-> <<>>, suffix |-> <<>>]

(* yaml_emitter_process_tag.                                               *)
WriteTag(o, tag) ==
    IF tag = NoTag THEN o
    ELSE IF tag.handle # <<>>
    THEN LET named == WriteTagHandle(o, tag.handle)
         IN  IF tag.suffix = <<>> THEN named
             ELSE WriteTagContent(named, tag.suffix, FALSE)
    ELSE WriteIndicator(
            WriteTagContent(WriteIndicator(o, <<"!", "<">>, TRUE, FALSE, FALSE),
                            tag.suffix, FALSE),
            <<">">>, FALSE, FALSE, FALSE)

-----------------------------------------------------------------------------
(* The writers of scalars go through the value once; indent is the         *)
(* emitter's while it writes the scalar.                                   *)

(* One pass over a value: a step for each position.                        *)
Pass(v, start, Step(_, _)) ==
    LET after[i \in 0..Len(v)] == IF i = 0 THEN start ELSE Step(after[i - 1], i)
    IN  after[Len(v)]

(* A space of the value becomes a new line where the line is too long.     *)
Folds(o, v, i, spaces) ==
    o.column > Width /\ ~spaces /\ At(v, i + 1) # " "

(* One character of a plain or single-quoted scalar.                       *)
FlowScalarStep(s, v, i, indent, allowBreaks, quoted) ==
    LET c == v[i] IN
    IF c = " "
    THEN [out |-> IF /\ allowBreaks /\ Folds(s.out, v, i, s.spaces)
                     /\ ~quoted \/ i \notin {1, Len(v)}
                  THEN WriteIndent(s.out, indent) ELSE Put(s.out, c),
          spaces |-> TRUE, breaks |-> s.breaks]
    ELSE IF IsBreak(c)
    THEN [out |-> [PutBreak(IF s.breaks THEN s.out ELSE PutBreak(s.out))
                      EXCEPT !.indention = TRUE],
          spaces |-> s.spaces, breaks |-> TRUE]
    ELSE LET start == IF s.breaks THEN WriteIndent(s.out, indent) ELSE s.out
         IN  [out |-> [PutAll(start, IF quoted /\ c = "'" THEN <<c, c>> ELSE <<c>>)
                          EXCEPT !.indention = FALSE],
              spaces |-> FALSE, breaks |-> FALSE]

FlowScalar(o, v, indent, allowBreaks, quoted) ==
    Pass(v, [out |-> o, spaces |-> FALSE, breaks |-> FALSE],
         LAMBDA s, i : FlowScalarStep(s, v, i, indent, allowBreaks, quoted))

WritePlain(o, v, indent, allowBreaks, flow, root) ==
    LET start == IF v # <<>> \/ flow THEN Separated(o) ELSE o
        end == Inline(FlowScalar(start, v, indent, allowBreaks, FALSE).out)
    IN  IF root THEN [end EXCEPT !.openEnded = 1] ELSE end

WriteSingleQuoted(o, v, indent, allowBreaks) ==
    LET s == FlowScalar(WriteIndicator(o, <<"'">>, TRUE, FALSE, FALSE),
                        v, indent, allowBreaks, TRUE)
    IN  WriteIndicator(IF s.breaks THEN WriteIndent(s.out, indent) ELSE s.out,
                       <<"'">>, FALSE, FALSE, FALSE)

Escaped(c) == CASE c = "\n" -> <<"\\", "n">>
                [] c = "\t" -> <<"\\", "t">>
                [] OTHER    -> <<"\\", c>>

DoubleQuotedStep(s, v, i, indent, allowBreaks) ==
    LET c == v[i] IN
    IF c \in {"\n", "\t", "\"", "\\"}
    THEN [out |-> PutAll(s.out, Escaped(c)), spaces |-> FALSE]
    ELSE IF c = " "
    THEN [out |-> IF /\ allowBreaks /\ ~s.spaces /\ s.out.column > Width
                     /\ i \notin {1, Len(v)}
                  THEN LET new == WriteIndent(s.out, indent)
                       IN  IF v[i + 1] = " " THEN Put(new, "\\") ELSE new
                  ELSE Put(s.out, c),
          spaces |-> TRUE]
    ELSE [out |-> Put(s.out, c), spaces |-> FALSE]

WriteDoubleQuoted(o, v, indent, allowBreaks) ==
    LET start == WriteIndicator(o, <<"\"">>, TRUE, FALSE, FALSE)
        s == Pass(v, [out |-> start, spaces |-> FALSE],
                  LAMBDA t, i : DoubleQuotedStep(t, v, i, indent, allowBreaks))
    IN  WriteIndicator(s.out, <<"\"">>, FALSE, FALSE, FALSE)

(* The header of a block scalar: an indentation hint when the first line   *)
(* begins with white space, and how the line breaks at the end are kept.   *)
Digit(n) == DigitOrder[n + 1]

ChompHint(v) ==
    IF ~IsBreak(v[Len(v)]) THEN <<"-">>
    ELSE IF Len(v) = 1 \/ IsBreak(v[Len(v) - 1]) THEN <<"+">>
    ELSE <<>>

(* open_ended is 2 only until the hint is written.                         *)
WriteBlockHints(o, v) ==
    LET indented == IF v[1] \in {" ", "\n"}
                    THEN WriteIndicator(o, <<Digit(IndentStep)>>, FALSE, FALSE, FALSE)
                    ELSE o
        open == [indented EXCEPT !.openEnded =
                    IF ChompHint(v) = <<"+">> THEN 2 ELSE 0]
    IN  IF ChompHint(v) = <<>> THEN open
        ELSE WriteIndicator(open, ChompHint(v), FALSE, FALSE, FALSE)

BlockScalar(o, indicator, v) ==
    [PutBreak(WriteBlockHints(WriteIndicator(o, indicator, TRUE, FALSE, FALSE), v))
        EXCEPT !.indention = TRUE, !.whitespace = TRUE]

LiteralStep(s, v, i, indent) ==
    IF IsBreak(v[i])
    THEN [out |-> [PutBreak(s.out) EXCEPT !.indention = TRUE], breaks |-> TRUE]
    ELSE LET start == IF s.breaks THEN WriteIndent(s.out, indent) ELSE s.out
         IN  [out |-> [Put(start, v[i]) EXCEPT !.indention = FALSE],
              breaks |-> FALSE]

WriteLiteral(o, v, indent) ==
    Pass(v, [out |-> BlockScalar(o, <<"|">>, v), breaks |-> TRUE],
         LAMBDA s, i : LiteralStep(s, v, i, indent)).out

(* The first position from i on that is not a line break.                  *)
BehindBreaks(v, i) == CHOOSE k \in i..(Len(v) + 1) :
                         /\ ~IsBreak(At(v, k))
                         /\ \A j \in i..(k - 1) : IsBreak(v[j])

FoldedStep(s, v, i, indent) ==
    IF IsBreak(v[i])
    THEN LET doubled == /\ ~s.breaks /\ ~s.leadingSpaces
                        /\ ~IsBlankZ(At(v, BehindBreaks(v, i)))
         IN  [s EXCEPT !.out = [PutBreak(IF doubled THEN PutBreak(@) ELSE @)
                                   EXCEPT !.indention = TRUE],
                       !.breaks = TRUE]
    ELSE LET start   == IF s.breaks THEN WriteIndent(s.out, indent) ELSE s.out
             folds   == /\ ~s.breaks /\ v[i] = " " /\ At(v, i + 1) # " "
                        /\ s.out.column > Width
             written == IF folds THEN WriteIndent(start, indent)
                        ELSE Put(start, v[i])
         IN  [out |-> [written EXCEPT !.indention = FALSE],
              breaks |-> FALSE,
              leadingSpaces |-> IF s.breaks THEN IsBlank(v[i])
                                ELSE s.leadingSpaces]

WriteFolded(o, v, indent) ==
    Pass(v, [out |-> BlockScalar(o, <<">">>, v), breaks |-> TRUE, leadingSpaces |-> TRUE],
         LAMBDA s, i : FoldedStep(s, v, i, indent)).out
=============================================================================
