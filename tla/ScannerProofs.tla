---------------------------- MODULE ScannerProofs ----------------------------
(***************************************************************************)
(* Proofs about the scanner, for every text, every limit on the length of  *)
(* a simple key and all interleavings of fetching and delivering.          *)
(***************************************************************************)
EXTENDS Scanner, ProofLemmas, FiniteSetTheorems, TLAPS

(* The characters of the texts and those that escapes and folding make.    *)
Symbols == (UNION {ToSet(text) : text \in Texts})
               \cup {"NUL", "a", "!", " ", "%", "#", "\t", "\n", "\"", "\\", "/"}

Keys == [required : BOOLEAN, number : Nat, index : Nat, line : Nat, column : Nat]
KeySets == {{}} \cup {{key} : key \in Keys}

(* Scanners whose queue holds tokens of V.                                 *)
ScannersOver(V) ==
    [rest : Seq(Symbols), index : Nat, line : Nat, column : Nat, flowLevel : Nat,
     indent : Nat \cup {-1}, indents : Seq(Nat \cup {-1}), simpleKeyAllowed : BOOLEAN,
     simpleKeys : Seq(KeySets), tokens : Seq(V), tokensParsed : Nat,
     started : BOOLEAN, ended : BOOLEAN, error : BOOLEAN]

(* What reading text leaves alone.                                         *)
SameStructure(s, t) ==
    /\ t.flowLevel = s.flowLevel /\ t.indent = s.indent /\ t.indents = s.indents
    /\ t.simpleKeys = s.simpleKeys
    /\ t.tokens = s.tokens /\ t.tokensParsed = s.tokensParsed
    /\ t.started = s.started /\ t.ended = s.ended

(* The position of t is not before that of s, or it is behind it.          *)
NotBefore(s, t) == \/ s.line < t.line
                   \/ (s.line = t.line /\ s.column <= t.column)
Behind(s, t) == \/ s.line < t.line
                \/ (s.line = t.line /\ s.column < t.column)

(* t is s after some of the text was read, perhaps nothing.                *)
Reads(V, s, t) ==
    /\ t \in ScannersOver(V)
    /\ SameStructure(s, t)
    /\ s.error => t.error
    /\ Len(t.rest) <= Len(s.rest)
    /\ s.index <= t.index
    /\ NotBefore(s, t)

(* t is s after some of the text was read, or it has failed.               *)
Consumes(V, s, t) ==
    /\ Reads(V, s, t)
    /\ t.error \/ (Len(t.rest) < Len(s.rest) /\ Behind(s, t))

-----------------------------------------------------------------------------
(* The fields of a scanner.                                                *)
LEMMA Fields ==
    ASSUME NEW V, NEW s \in ScannersOver(V)
    PROVE  /\ s.rest \in Seq(Symbols) /\ Len(s.rest) \in Nat
           /\ s.index \in Nat /\ s.line \in Nat /\ s.column \in Nat
           /\ s.flowLevel \in Nat /\ s.tokensParsed \in Nat
           /\ s.indent \in Nat \cup {-1} /\ s.indents \in Seq(Nat \cup {-1})
           /\ s.simpleKeys \in Seq(KeySets) /\ s.tokens \in Seq(V)
           /\ s.simpleKeyAllowed \in BOOLEAN /\ s.error \in BOOLEAN
           /\ s.started \in BOOLEAN /\ s.ended \in BOOLEAN
BY DEF ScannersOver

(* The fields that reading text may change.                                *)
Moved(s, q, i, l, c, k, e, t) ==
    t = [s EXCEPT !.rest = q, !.index = i, !.line = l, !.column = c,
                  !.simpleKeyAllowed = k, !.error = e]

Became(V, s, q, i, l, c, k, e, t) ==
    /\ t \in ScannersOver(V)
    /\ t.rest = q /\ t.index = i /\ t.line = l /\ t.column = c
    /\ t.simpleKeyAllowed = k /\ t.error = e
    /\ SameStructure(s, t)

(* Nothing else changes with them.                                         *)
LEMMA FieldsRead ==
    ASSUME NEW V, NEW s \in ScannersOver(V), NEW q \in Seq(Symbols),
           NEW i \in Nat, NEW l \in Nat, NEW c \in Nat,
           NEW k \in BOOLEAN, NEW e \in BOOLEAN, NEW t,
           Moved(s, q, i, l, c, k, e, t)
    PROVE  Became(V, s, q, i, l, c, k, e, t)
<1>1. t \in ScannersOver(V)
  BY DEF ScannersOver, Moved
<1>2. /\ t.rest = q /\ t.index = i /\ t.line = l /\ t.column = c
      /\ t.simpleKeyAllowed = k /\ t.error = e
  BY DEF ScannersOver, Moved
<1>3. SameStructure(s, t)
  BY DEF ScannersOver, Moved, SameStructure
<1>4. QED
  BY <1>1, <1>2, <1>3 DEF Became

-----------------------------------------------------------------------------
(* Reading one thing after the other.                                      *)
LEMMA ReadsTransitive ==
    ASSUME NEW V, NEW s \in ScannersOver(V), NEW t, NEW u, Reads(V, s, t), Reads(V, t, u)
    PROVE  Reads(V, s, u)
<1>1. t \in ScannersOver(V) /\ u \in ScannersOver(V)
  BY DEF Reads
<1>2. SameStructure(s, u)
  BY DEF Reads, SameStructure
<1>3. NotBefore(s, u) /\ s.index <= u.index /\ Len(u.rest) <= Len(s.rest)
  BY <1>1, Fields DEF Reads, NotBefore
<1>4. QED
  BY <1>1, <1>2, <1>3 DEF Reads

LEMMA ConsumesThenReads ==
    ASSUME NEW V, NEW s \in ScannersOver(V), NEW t, NEW u, Consumes(V, s, t), Reads(V, t, u)
    PROVE  Consumes(V, s, u)
<1>1. Reads(V, s, t) /\ t \in ScannersOver(V) /\ u \in ScannersOver(V)
  BY DEF Consumes, Reads
<1>2. Reads(V, s, u)
  BY <1>1, ReadsTransitive
<1>3. t.error => u.error
  BY DEF Reads
<1>4. Behind(s, t) => Behind(s, u)
  BY <1>1, Fields DEF Reads, NotBefore, Behind
<1>5. Len(u.rest) <= Len(t.rest)
  BY DEF Reads
<1>6. Len(t.rest) < Len(s.rest) => Len(u.rest) < Len(s.rest)
  BY <1>1, <1>5, Fields
<1>7. QED
  BY <1>2, <1>3, <1>4, <1>6 DEF Consumes

LEMMA ReadsThenConsumes ==
    ASSUME NEW V, NEW s \in ScannersOver(V), NEW t, NEW u, Reads(V, s, t), Consumes(V, t, u)
    PROVE  Consumes(V, s, u)
<1>1. Reads(V, t, u) /\ t \in ScannersOver(V) /\ u \in ScannersOver(V)
  BY DEF Consumes, Reads
<1>2. Reads(V, s, u)
  BY <1>1, ReadsTransitive
<1>3. Behind(t, u) => Behind(s, u)
  BY <1>1, Fields DEF Reads, NotBefore, Behind
<1>4. Len(t.rest) <= Len(s.rest)
  BY DEF Reads
<1>5. Len(u.rest) < Len(t.rest) => Len(u.rest) < Len(s.rest)
  BY <1>1, <1>4, Fields
<1>6. QED
  BY <1>2, <1>3, <1>5 DEF Consumes

(* Nothing is read, or the scanner fails.                                  *)
LEMMA StaysReads ==
    ASSUME NEW V, NEW s \in ScannersOver(V)
    PROVE  Reads(V, s, s) /\ Consumes(V, s, Failed(s))
<1> DEFINE t == Failed(s)
           e == TRUE
<1>1. Reads(V, s, s)
  BY Fields DEF Reads, NotBefore, SameStructure
<1>2. Moved(s, s.rest, s.index, s.line, s.column, s.simpleKeyAllowed, e, t)
  BY DEF Failed, ScannersOver, Moved
<1>3. e \in BOOLEAN
  OBVIOUS
<1> HIDE DEF t, e
<1>4. /\ t \in ScannersOver(V) /\ t.error = e /\ SameStructure(s, t)
      /\ t.rest = s.rest /\ t.index = s.index /\ t.line = s.line /\ t.column = s.column
  <2>1. Became(V, s, s.rest, s.index, s.line, s.column, s.simpleKeyAllowed, e, t)
    BY <1>2, <1>3, Fields, FieldsRead
  <2>2. QED
    BY <2>1 DEF Became
<1>5. Reads(V, s, t)
  BY <1>4, Fields DEF Reads, NotBefore, e
<1>6. QED
  BY <1>1, <1>4, <1>5 DEF Consumes, e, t

(* SKIP reads something where there is something.                          *)
LEMMA ForwardReads ==
    ASSUME NEW V, NEW s \in ScannersOver(V), NEW n \in Nat
    PROVE  LET t == Forward(s, n) IN
           /\ Reads(V, s, t)
           /\ n > 0 /\ s.rest # <<>> => Consumes(V, s, t)
           /\ t.rest = SubSeq(s.rest, n + 1, Len(s.rest))
           /\ t.index = s.index + n /\ t.column = s.column + n
           /\ t.line = s.line /\ t.error = s.error
           /\ t.simpleKeyAllowed = s.simpleKeyAllowed
<1> DEFINE q == SubSeq(s.rest, n + 1, Len(s.rest))
           t == Forward(s, n)
           i == s.index + n
           c == s.column + n
<1>1. s.rest \in Seq(Symbols) /\ Len(s.rest) \in Nat
  BY Fields
<1>2. /\ q \in Seq(Symbols) /\ Len(q) <= Len(s.rest) /\ Len(q) \in Nat
      /\ n > 0 /\ s.rest # <<>> => Len(q) < Len(s.rest)
  <2>1. s.rest # <<>> => Len(s.rest) > 0
    BY <1>1
  <2>2. q \in Seq(Symbols)
    BY <1>1
  <2>3. Len(q) = IF n + 1 <= Len(s.rest) THEN Len(s.rest) - n ELSE 0
    BY <1>1
  <2>4. QED
    BY <1>1, <2>1, <2>2, <2>3
<1>3. Moved(s, q, i, s.line, c, s.simpleKeyAllowed, s.error, t)
  BY DEF Forward, ScannersOver, Moved
<1>4. i \in Nat /\ c \in Nat
  BY Fields
<1> HIDE DEF q, t, i, c
<1>5. /\ t \in ScannersOver(V) /\ SameStructure(s, t) /\ t.rest = q
      /\ t.index = s.index + n /\ t.column = s.column + n
      /\ t.line = s.line /\ t.error = s.error /\ t.simpleKeyAllowed = s.simpleKeyAllowed
  <2>1. Became(V, s, q, i, s.line, c, s.simpleKeyAllowed, s.error, t)
    BY <1>2, <1>3, <1>4, Fields, FieldsRead
  <2>2. QED
    BY <2>1 DEF Became, i, c
<1>6. Reads(V, s, t)
  BY <1>2, <1>5, Fields DEF Reads, NotBefore
<1>7. n > 0 => Behind(s, t)
  BY <1>5, Fields DEF Behind
<1>8. QED
  BY <1>2, <1>5, <1>6, <1>7 DEF Consumes, t, q

(* SKIP_LINE: a line break is read, nothing else.                          *)
LEMMA SkipLineReads ==
    ASSUME NEW V, NEW s \in ScannersOver(V)
    PROVE  LET t == SkipLine(s) IN
           /\ Reads(V, s, t)
           /\ IsBreak(Here(s)) => Consumes(V, s, t)
           /\ t.error = s.error
           /\ t.simpleKeyAllowed = s.simpleKeyAllowed
<1> DEFINE f == Forward(s, 1)
           t == SkipLine(s)
           l == f.line + 1
           c == 0
<1>1. CASE ~IsBreak(Here(s))
  BY <1>1, StaysReads DEF SkipLine
<1>2. CASE IsBreak(Here(s))
  <2>1. s.rest # <<>>
    BY <1>2 DEF IsBreak, Here, Ahead, At
  <2>2. /\ f \in ScannersOver(V) /\ SameStructure(s, f) /\ f.line = s.line
        /\ f.error = s.error /\ f.simpleKeyAllowed = s.simpleKeyAllowed
        /\ Len(f.rest) < Len(s.rest) \/ s.error
        /\ Len(f.rest) <= Len(s.rest) /\ s.index <= f.index
    BY <2>1, ForwardReads DEF Reads, Consumes
  <2>3. t = [f EXCEPT !.column = c, !.line = l]
    BY <1>2 DEF SkipLine
  <2> HIDE DEF f, t, l, c
  <2>4. Moved(f, f.rest, f.index, l, c, f.simpleKeyAllowed, f.error, t)
    BY <2>2, <2>3 DEF ScannersOver, Moved
  <2>5. /\ l \in Nat /\ c \in Nat /\ f.rest \in Seq(Symbols) /\ f.index \in Nat
        /\ f.simpleKeyAllowed \in BOOLEAN /\ f.error \in BOOLEAN /\ f \in ScannersOver(V)
    BY <2>2, Fields DEF l, c
  <2>6. /\ t \in ScannersOver(V) /\ SameStructure(f, t) /\ t.rest = f.rest
        /\ t.index = f.index /\ t.line = l /\ t.error = f.error
        /\ t.simpleKeyAllowed = f.simpleKeyAllowed
    <3>1. Became(V, f, f.rest, f.index, l, c, f.simpleKeyAllowed, f.error, t)
      BY <2>4, <2>5, FieldsRead
    <3>2. QED
      BY <3>1 DEF Became
  <2>7. SameStructure(s, t)
    BY <2>2, <2>6 DEF SameStructure
  <2>8. Behind(s, t) /\ NotBefore(s, t)
    BY <2>2, <2>6, Fields DEF Behind, NotBefore, l
  <2>9. QED
    BY <2>2, <2>6, <2>7, <2>8 DEF Reads, Consumes, t
<1>3. QED
  BY <1>1, <1>2

-----------------------------------------------------------------------------
(* The greatest of some numbers up to n.                                   *)
LEMMA GreatestExists ==
    ASSUME NEW n \in Nat, NEW S, S \subseteq 0..n, S # {}
    PROVE  Max(S) \in S /\ \A j \in S : j <= Max(S)
<1> DEFINE T == {n - i : i \in S}
<1>1. T \subseteq Nat /\ T # {}
  OBVIOUS
<1>2. PICK k \in T : \A j \in T : k <= j
  <2> HIDE DEF T
  <2> QED BY <1>1, LeastExists
<1>3. PICK i \in S : k = n - i
  OBVIOUS
<1>4. ASSUME NEW j \in S PROVE j <= i
  <2>1. n - j \in T
    OBVIOUS
  <2>2. n - i <= n - j
    BY <1>2, <1>3, <2>1
  <2>3. i \in Nat /\ j \in Nat
    OBVIOUS
  <2>4. QED
    BY <2>2, <2>3
<1>5. \E x \in S : \A j \in S : x >= j
  BY <1>4
<1>6. QED
  BY <1>5 DEF Max

(* How many characters pass a test is a number up to the length.           *)
LEMMA SpanLength ==
    ASSUME NEW text \in Seq(Symbols), NEW stops, stops \subseteq DOMAIN text
    PROVE  (IF stops = {} THEN Len(text) ELSE Min(stops) - 1) \in 0..Len(text)
<1>1. DOMAIN text = 1..Len(text) /\ Len(text) \in Nat
  OBVIOUS
<1>2. CASE stops # {}
  <2>1. \E i \in stops : \A j \in stops : i <= j
    BY <1>1, <1>2, LeastExists
  <2>2. Min(stops) \in stops
    BY <2>1 DEF Min
  <2>3. Min(stops) \in 1..Len(text)
    BY <1>1, <2>2
  <2>4. QED
    BY <1>1, <1>2, <2>3
<1>3. QED
  BY <1>1, <1>2

(* SKIP and SKIP_LINE over characters that are there.                      *)
LEMMA ForwardLinesReads ==
    ASSUME NEW V, NEW s \in ScannersOver(V), NEW n \in 0..Len(s.rest)
    PROVE  LET t == ForwardLines(s, n) IN
           /\ Reads(V, s, t)
           /\ n > 0 => Consumes(V, s, t)
           /\ t.simpleKeyAllowed = s.simpleKeyAllowed
<1> DEFINE f == Forward(s, n)
           t == ForwardLines(s, n)
           breaks == {i \in 1..n : IsBreak(s.rest[i])}
           l == f.line + Cardinality(breaks)
           c == n - Max(breaks)
<1>1. n \in Nat /\ (n > 0 => s.rest # <<>>) /\ breaks \subseteq 1..n
  BY Fields
<1>2. CASE breaks = {}
  <2>1. t = f
    BY <1>2 DEF ForwardLines
  <2> HIDE DEF t, f, breaks
  <2>2. QED
    BY <1>1, <2>1, ForwardReads DEF t, f
<1>3. CASE breaks # {}
  <2>1. Max(breaks) \in breaks
    <3>1. breaks \subseteq 0..n
      BY <1>1
    <3> HIDE DEF breaks
    <3>2. QED
      BY <1>1, <1>3, <3>1, GreatestExists
  <2>2. IsFiniteSet(breaks) /\ Cardinality(breaks) \in Nat /\ Cardinality(breaks) # 0
    <3>1. IsFiniteSet(1..n)
      BY <1>1, FS_Interval
    <3> HIDE DEF breaks
    <3>2. IsFiniteSet(breaks)
      BY <1>1, <3>1, FS_Subset
    <3>3. QED
      BY <1>3, <3>2, FS_CardinalityType, FS_EmptySet
  <2>3. /\ f \in ScannersOver(V) /\ SameStructure(s, f) /\ f.line = s.line
        /\ f.error = s.error /\ f.simpleKeyAllowed = s.simpleKeyAllowed
        /\ (n > 0 => Len(f.rest) < Len(s.rest) \/ s.error)
        /\ Len(f.rest) <= Len(s.rest) /\ s.index <= f.index
    <3> HIDE DEF breaks
    <3> QED BY <1>1, ForwardReads DEF Reads, Consumes
  <2>4. t = [f EXCEPT !.column = c, !.line = l]
    BY <1>3 DEF ForwardLines
  <2>5. c \in Nat /\ l \in Nat /\ l > s.line
    <3>1. Max(breaks) \in 1..n
      BY <1>1, <2>1
    <3> HIDE DEF breaks, f
    <3>2. f.line \in Nat
      BY <2>3, Fields
    <3>3. QED
      BY <2>2, <2>3, <3>1, <3>2, <1>1
  <2> HIDE DEF f, t, l, c, breaks
  <2>6. /\ f.rest \in Seq(Symbols) /\ f.index \in Nat
        /\ f.simpleKeyAllowed \in BOOLEAN /\ f.error \in BOOLEAN
    BY <2>3, Fields
  <2>7. Moved(f, f.rest, f.index, l, c, f.simpleKeyAllowed, f.error, t)
    BY <2>3, <2>4 DEF ScannersOver, Moved
  <2>8. Became(V, f, f.rest, f.index, l, c, f.simpleKeyAllowed, f.error, t)
    BY <2>3, <2>5, <2>6, <2>7, FieldsRead
  <2>9. /\ t \in ScannersOver(V) /\ SameStructure(f, t) /\ t.rest = f.rest
        /\ t.index = f.index /\ t.line = l /\ t.error = f.error
        /\ t.simpleKeyAllowed = f.simpleKeyAllowed
    BY <2>8 DEF Became
  <2>10. SameStructure(s, t) /\ Behind(s, t) /\ NotBefore(s, t)
    BY <2>3, <2>5, <2>9 DEF SameStructure, Behind, NotBefore
  <2>11. QED
    BY <2>3, <2>9, <2>10 DEF Reads, Consumes, t
<1>4. QED
  BY <1>2, <1>3

(* That a simple key may follow is found out on the way.                   *)
LEMMA KeyAllowedReads ==
    ASSUME NEW V, NEW s \in ScannersOver(V), NEW t, Reads(V, s, t), NEW k \in BOOLEAN
    PROVE  /\ Reads(V, s, [t EXCEPT !.simpleKeyAllowed = k])
           /\ Consumes(V, s, t) => Consumes(V, s, [t EXCEPT !.simpleKeyAllowed = k])
<1> DEFINE u == [t EXCEPT !.simpleKeyAllowed = k]
<1>1. t \in ScannersOver(V)
  BY DEF Reads
<1>2. Moved(t, t.rest, t.index, t.line, t.column, k, t.error, u)
  BY <1>1 DEF ScannersOver, Moved
<1> HIDE DEF u
<1>3. /\ t.rest \in Seq(Symbols) /\ t.index \in Nat /\ t.line \in Nat /\ t.column \in Nat
      /\ t.error \in BOOLEAN
  BY <1>1, Fields
<1>4. Became(V, t, t.rest, t.index, t.line, t.column, k, t.error, u)
  BY <1>1, <1>2, <1>3, FieldsRead
<1>5. /\ u \in ScannersOver(V) /\ SameStructure(t, u) /\ u.rest = t.rest
      /\ u.index = t.index /\ u.line = t.line /\ u.column = t.column /\ u.error = t.error
  BY <1>4 DEF Became
<1>6. SameStructure(s, u)
  BY <1>5 DEF Reads, SameStructure
<1>7. Reads(V, s, u)
  BY <1>5, <1>6 DEF Reads, NotBefore
<1>8. Consumes(V, s, t) => Consumes(V, s, u)
  BY <1>5, <1>7 DEF Consumes, Behind
<1>9. QED
  BY <1>7, <1>8 DEF u

(* The functions of the first n turns of a loop: one is there, when the    *)
(* turns stay in A.                                                        *)
TurnsFrom(A, n, a, g, f) ==
    /\ f \in [0..n -> A]
    /\ f[0] = a
    /\ \A i \in 1..n : f[i] = g[f[i - 1]]

LEMMA TurnsExist ==
    ASSUME NEW A, NEW n \in Nat, NEW a \in A, NEW g \in [A -> A]
    PROVE  \E f : TurnsFrom(A, n, a, g, f)
<1> DEFINE h == [x \in A \X (1..n) |-> g[x[1]]]
<1>1. h \in [A \X (1..n) -> A] /\ \A b \in A : \A i \in 1..n : h[<<b, i>>] = g[b]
  OBVIOUS
<1> HIDE DEF h
<1>2. PICK f : LoopFrom(A, n, a, h, f)
  BY <1>1, LoopExists
<1> DEFINE e == [i \in 0..n |-> IF i = 0 THEN a ELSE h[<<f[i - 1], i>>]]
<1>3. e[0] = a /\ \A i \in 1..n : e[i] = h[<<f[i - 1], i>>]
  OBVIOUS
<1>4. f = e /\ f \in [0..n -> A]
  BY <1>2 DEF LoopFrom
<1> HIDE DEF e
<1>5. ASSUME NEW i \in 1..n PROVE f[i] = g[f[i - 1]]
  <2>1. i - 1 \in 0..n
    OBVIOUS
  <2>2. f[i - 1] \in A
    BY <1>4, <2>1
  <2>3. f[i] = h[<<f[i - 1], i>>]
    BY <1>3, <1>4, Zenon
  <2>4. QED
    BY <1>1, <2>2, <2>3
<1>6. QED
  BY <1>3, <1>4, <1>5 DEF TurnsFrom

(* White space, comments and the rest of a line.                           *)
LEMMA BlanksRead ==
    ASSUME NEW V, NEW s \in ScannersOver(V)
    PROVE  Reads(V, s, SkipBlanks(s)) /\ Reads(V, s, SkipComment(s))
<1> DEFINE stops == {i \in DOMAIN s.rest : ~IsBlank(s.rest[i])}
           n == IF stops = {} THEN Len(s.rest) ELSE Min(stops) - 1
           ends == {i \in DOMAIN s.rest : ~~IsBreakZ(s.rest[i])}
           m == IF ends = {} THEN Len(s.rest) ELSE Min(ends) - 1
<1>1. s.rest \in Seq(Symbols) /\ Len(s.rest) \in Nat
  BY Fields
<1>2. SkipBlanks(s) = Forward(s, n)
  BY DEF SkipBlanks, Span
<1>3. SkipComment(s) = IF Here(s) # "#" THEN s ELSE Forward(s, m)
  BY DEF SkipComment, Span
<1>4. stops \subseteq DOMAIN s.rest /\ ends \subseteq DOMAIN s.rest
  OBVIOUS
<1> HIDE DEF stops, ends
<1>5. n \in Nat /\ m \in Nat
  <2>1. n \in 0..Len(s.rest) /\ m \in 0..Len(s.rest)
    BY <1>1, <1>4, SpanLength
  <2> HIDE DEF n, m
  <2>2. QED
    BY <1>1, <2>1
<1> HIDE DEF n, m
<1>6. Reads(V, s, Forward(s, n)) /\ Reads(V, s, Forward(s, m)) /\ Reads(V, s, s)
  BY <1>5, ForwardReads, StaysReads
<1>7. QED
  BY <1>2, <1>3, <1>6

LEMMA RestOfLineReads ==
    ASSUME NEW V, NEW s \in ScannersOver(V)
    PROVE  Reads(V, s, RestOfLine(s))
<1> DEFINE b == SkipBlanks(s)
           e == SkipComment(b)
<1>1. Reads(V, s, b)
  BY BlanksRead
<1>2. b \in ScannersOver(V)
  BY <1>1 DEF Reads
<1> HIDE DEF b
<1>3. Reads(V, b, e)
  BY <1>2, BlanksRead
<1>4. Reads(V, s, e) /\ e \in ScannersOver(V)
  BY <1>1, <1>3, ReadsTransitive DEF Reads
<1>5. RestOfLine(s) = IF IsBreakZ(Here(e)) THEN SkipLine(e) ELSE Failed(e)
  BY DEF RestOfLine, b
<1> HIDE DEF e
<1>6. Reads(V, e, SkipLine(e)) /\ Reads(V, e, Failed(e))
  BY <1>4, SkipLineReads, StaysReads DEF Consumes
<1>7. Reads(V, s, SkipLine(e)) /\ Reads(V, s, Failed(e))
  BY <1>4, <1>6, ReadsTransitive
<1>8. QED
  BY <1>5, <1>7

(* One turn of the loop in front of a token.                               *)
LEMMA SkipToTokenReads ==
    ASSUME NEW V, NEW s \in ScannersOver(V)
    PROVE  Reads(V, s, SkipToToken(s))
<1> DEFINE mayTab == s.flowLevel > 0 \/ ~s.simpleKeyAllowed
           stops == {i \in DOMAIN s.rest :
                       ~(IsSpace(s.rest[i]) \/ (mayTab /\ IsTab(s.rest[i])))}
           n == IF stops = {} THEN Len(s.rest) ELSE Min(stops) - 1
           f == Forward(s, n)
           there == SkipComment(f)
           line == SkipLine(there)
           k == line.simpleKeyAllowed \/ s.flowLevel = 0
<1>1. s.rest \in Seq(Symbols) /\ Len(s.rest) \in Nat
  BY Fields
<1>2. SkipToToken(s) = IF ~IsBreak(Here(there)) THEN there
                       ELSE [line EXCEPT !.simpleKeyAllowed = k]
  BY DEF SkipToToken, Span
<1>3. n \in Nat
  <2>1. stops \subseteq DOMAIN s.rest
    OBVIOUS
  <2> HIDE DEF stops
  <2>2. n \in 0..Len(s.rest)
    BY <1>1, <2>1, SpanLength
  <2> HIDE DEF n
  <2>3. QED
    BY <1>1, <2>2
<1> HIDE DEF n
<1>4. Reads(V, s, f) /\ f \in ScannersOver(V)
  BY <1>3, ForwardReads DEF Reads
<1> HIDE DEF f
<1>5. Reads(V, f, there)
  BY <1>4, BlanksRead
<1>6. Reads(V, s, there) /\ there \in ScannersOver(V)
  BY <1>4, <1>5, ReadsTransitive DEF Reads
<1> HIDE DEF there
<1>7. Reads(V, there, line)
  BY <1>6, SkipLineReads
<1>8. Reads(V, s, line) /\ line \in ScannersOver(V)
  BY <1>6, <1>7, ReadsTransitive DEF Reads
<1>9. k \in BOOLEAN
  OBVIOUS
<1> HIDE DEF line, k
<1>10. Reads(V, s, [line EXCEPT !.simpleKeyAllowed = k])
  BY <1>8, <1>9, KeyAllowedReads
<1>11. QED
  BY <1>2, <1>6, <1>10

(* The line breaks of a text have a number.                                *)
LEMMA LineBreaksAreCounted ==
    ASSUME NEW text \in Seq(Symbols)
    PROVE  LineBreaks(text) \in Nat
<1> DEFINE breaks == {i \in DOMAIN text : IsBreak(text[i])}
<1>1. DOMAIN text = 1..Len(text) /\ Len(text) \in Nat /\ breaks \subseteq DOMAIN text
  OBVIOUS
<1>2. IsFiniteSet(DOMAIN text)
  BY <1>1, FS_Interval
<1>3. LineBreaks(text) = Cardinality(breaks)
  BY DEF LineBreaks
<1> HIDE DEF breaks
<1>4. IsFiniteSet(breaks)
  BY <1>1, <1>2, FS_Subset
<1>5. QED
  BY <1>3, <1>4, FS_CardinalityType

(* A loop has a number of turns.                                           *)
LEMMA TurnsAreCounted ==
    ASSUME NEW V, NEW s \in ScannersOver(V)
    PROVE  CharacterTurns(s) \in Nat /\ LineTurns(s) \in Nat
<1>1. s.rest \in Seq(Symbols) /\ Len(s.rest) \in Nat
  BY Fields
<1>2. LineBreaks(s.rest) \in Nat
  BY <1>1, LineBreaksAreCounted
<1>3. QED
  BY <1>1, <1>2 DEF CharacterTurns, LineTurns

(* yaml_parser_scan_to_next_token reads, turn by turn.                     *)
LEMMA ScanToNextTokenReads ==
    ASSUME NEW V, NEW s \in ScannersOver(V)
    PROVE  Reads(V, s, ScanToNextToken(s))
<1> DEFINE n == LineTurns(s)
           A == {r \in ScannersOver(V) : Reads(V, s, r)}
           g == [r \in A |-> SkipToToken(r)]
           Is(f) == f = [i \in 0..n |-> IF i = 0 THEN s ELSE SkipToToken(f[i - 1])]
           c == CHOOSE f : Is(f)
<1>1. n \in Nat
  BY TurnsAreCounted
<1>2. ScanToNextToken(s) = c[n]
  BY DEF ScanToNextToken, Loop
<1>3. s \in A
  BY StaysReads
<1>4. ASSUME NEW r \in A PROVE SkipToToken(r) \in A
  <2>1. r \in ScannersOver(V) /\ Reads(V, s, r)
    OBVIOUS
  <2>2. Reads(V, r, SkipToToken(r))
    BY <2>1, SkipToTokenReads
  <2>3. Reads(V, s, SkipToToken(r))
    BY <2>1, <2>2, ReadsTransitive
  <2>4. QED
    BY <2>3 DEF Reads
<1> HIDE DEF n, A
<1>5. g \in [A -> A]
  BY <1>4
<1> HIDE DEF g
<1>6. PICK f : TurnsFrom(A, n, s, g, f)
  BY <1>1, <1>3, <1>5, TurnsExist
<1>7. Is(f)
  <2>1. \A i \in 1..n : f[i - 1] \in A
    BY <1>1, <1>6 DEF TurnsFrom
  <2>2. \A i \in 1..n : f[i] = SkipToToken(f[i - 1])
    BY <1>6, <2>1 DEF TurnsFrom, g
  <2>3. f = [i \in 0..n |-> f[i]] /\ f[0] = s
    BY <1>6 DEF TurnsFrom
  <2>4. QED
    BY <1>1, <2>2, <2>3
<1>8. Is(c)
  <2> HIDE DEF Is
  <2> QED BY <1>7
<1> HIDE DEF c
<1>9. c[0] = s /\ \A i \in 1..n : c[i] = SkipToToken(c[i - 1])
  <2> DEFINE e == [i \in 0..n |-> IF i = 0 THEN s ELSE SkipToToken(c[i - 1])]
  <2>1. e[0] = s /\ \A i \in 1..n : e[i] = SkipToToken(c[i - 1])
    BY <1>1
  <2>2. QED
    BY <1>8, <2>1, Zenon
<1>10. \A i \in 1..n : c[i - 1] \in A => c[i] \in A
  BY <1>4, <1>9
<1>11. \A i \in 0..n : c[i] \in A
  BY <1>1, <1>3, <1>9, <1>10, LoopStays
<1>12. c[n] \in A
  BY <1>1, <1>11
<1>13. QED
  BY <1>2, <1>12 DEF A

-----------------------------------------------------------------------------
(* Characters and texts.                                                   *)
LEMMA AheadIsChar ==
    ASSUME NEW V, NEW s \in ScannersOver(V), NEW k \in Nat
    PROVE  Ahead(s, k) \in Symbols /\ (~IsZ(Ahead(s, k)) => k + 1 \in 1..Len(s.rest))
<1> DEFINE text == s.rest
           i == k + 1
<1>1. text \in Seq(Symbols) /\ DOMAIN text = 1..Len(text)
  BY Fields
<1>2. Ahead(s, k) = IF i \in DOMAIN text THEN text[i] ELSE "NUL"
  BY DEF Ahead, At
<1> HIDE DEF i, text
<1>3. i \in DOMAIN text => text[i] \in Symbols
  BY <1>1
<1>4. ~IsZ(Ahead(s, k)) => i \in DOMAIN text
  BY <1>2 DEF IsZ
<1>5. "NUL" \in Symbols
  BY DEF Symbols
<1>6. QED
  BY <1>1, <1>2, <1>3, <1>4, <1>5 DEF i, text

LEMMA HereIsChar ==
    ASSUME NEW V, NEW s \in ScannersOver(V)
    PROVE  Here(s) \in Symbols /\ (~IsZ(Here(s)) => s.rest # <<>>)
<1>1. /\ Here(s) \in Symbols
      /\ ~IsZ(Here(s)) => 0 + 1 \in 1..Len(s.rest)
  BY AheadIsChar DEF Here
<1>2. QED
  BY <1>1

LEMMA CodedAreChars == ASSUME NEW code PROVE Coded(code) \subseteq Symbols
<1>1. DOMAIN Codes = {"!", " ", "%", "#", "\t", "\n"}
  BY DEF Codes
<1>2. DOMAIN Codes \subseteq Symbols
  BY <1>1 DEF Symbols
<1>3. QED
  BY <1>2 DEF Coded

(* A code in a quoted scalar stands for a character.                       *)
LEMMA CodedCharacters == ASSUME NEW code PROVE CodedCharacter(code) \in Symbols
<1> DEFINE n == Len(code)
           all == Coded(SubSeq(code, n - 1, n))
           found == {c \in all : \A i \in 1..(n - 2) : code[i] = "0"}
<1>1. found \subseteq Symbols
  BY CodedAreChars
<1>2. "a" \in Symbols
  BY DEF Symbols
<1>3. CodedCharacter(code) = IF found = {} THEN "a" ELSE CHOOSE c \in found : TRUE
  BY DEF CodedCharacter
<1> HIDE DEF found
<1>4. QED
  BY <1>1, <1>2, <1>3

(* A URI escape.                                                           *)
LEMMA UriEscapeReads ==
    ASSUME NEW V, NEW s \in ScannersOver(V)
    PROVE  Reads(V, s, ScanUriEscape(s).s) /\ ScanUriEscape(s).char \in Symbols
<1> DEFINE code == <<Ahead(s, 1), Ahead(s, 2)>>
           f == Forward(s, 3)
           h == ~(IsHex(code[1]) /\ IsHex(code[2]))
<1>1. /\ ScanUriEscape(s).s = IF h THEN Failed(f) ELSE f
      /\ ScanUriEscape(s).char = IF Coded(code) = {} THEN "a"
                                 ELSE CHOOSE c \in Coded(code) : TRUE
  BY DEF ScanUriEscape, Unless
<1>2. Reads(V, s, f) /\ f \in ScannersOver(V)
  BY ForwardReads DEF Reads
<1> HIDE DEF f, code, h
<1>3. Reads(V, f, Failed(f))
  BY <1>2, StaysReads DEF Consumes
<1>4. Reads(V, s, Failed(f))
  BY <1>2, <1>3, ReadsTransitive
<1>5. ScanUriEscape(s).char \in Symbols
  <2>1. Coded(code) \subseteq Symbols
    BY CodedAreChars
  <2>2. Coded(code) # {} => (CHOOSE c \in Coded(code) : TRUE) \in Coded(code)
    OBVIOUS
  <2>3. "a" \in Symbols
    BY DEF Symbols
  <2>4. QED
    BY <1>1, <2>1, <2>2, <2>3
<1>6. QED
  BY <1>1, <1>2, <1>4, <1>5

(* A loop that collects characters: what it has read since s.              *)
UrisFrom(V, s) == {r \in [s : ScannersOver(V), uri : Seq(Symbols)] : Reads(V, s, r.s)}

LEMMA UriTurnReads ==
    ASSUME NEW V, NEW s \in ScannersOver(V), NEW r \in UrisFrom(V, s), NEW verbatim
    PROVE  UriTurn(r, verbatim) \in UrisFrom(V, s)
<1> DEFINE t == r.s
           escape == ScanUriEscape(t)
<1>1. t \in ScannersOver(V) /\ r.uri \in Seq(Symbols) /\ Reads(V, s, t)
  BY DEF UrisFrom
<1>2. Reads(V, t, escape.s) /\ escape.char \in Symbols
  BY <1>1, UriEscapeReads
<1>3. Reads(V, t, Forward(t, 1)) /\ Here(t) \in Symbols
  BY <1>1, ForwardReads, HereIsChar
<1>4. Reads(V, s, escape.s) /\ Reads(V, s, Forward(t, 1))
  BY <1>1, <1>2, <1>3, ReadsTransitive
<1>5. Append(r.uri, escape.char) \in Seq(Symbols) /\ Append(r.uri, Here(t)) \in Seq(Symbols)
  BY <1>1, <1>2, <1>3
<1>6. UriTurn(r, verbatim) = IF t.error \/ ~IsUri(Here(t), verbatim) THEN r
                             ELSE IF Here(t) = "%"
                             THEN [s |-> escape.s, uri |-> Append(r.uri, escape.char)]
                             ELSE [s |-> Forward(t, 1), uri |-> Append(r.uri, Here(t))]
  BY DEF UriTurn
<1> HIDE DEF escape, t
<1>7. [s |-> escape.s, uri |-> Append(r.uri, escape.char)] \in UrisFrom(V, s)
  BY <1>4, <1>5 DEF UrisFrom, Reads
<1>8. [s |-> Forward(t, 1), uri |-> Append(r.uri, Here(t))] \in UrisFrom(V, s)
  BY <1>4, <1>5 DEF UrisFrom, Reads
<1>9. QED
  BY <1>6, <1>7, <1>8

(* The characters of a URI.                                                *)
LEMMA UriFromReads ==
    ASSUME NEW V, NEW s \in ScannersOver(V), NEW verbatim, NEW uri \in Seq(Symbols)
    PROVE  UriFrom(s, verbatim, uri) \in UrisFrom(V, s)
<1> DEFINE n == CharacterTurns(s)
           a == [s |-> s, uri |-> uri]
           A == UrisFrom(V, s)
           g == [r \in A |-> UriTurn(r, verbatim)]
           Is(f) == f = [i \in 0..n |-> IF i = 0 THEN a ELSE UriTurn(f[i - 1], verbatim)]
           c == CHOOSE f : Is(f)
<1>1. n \in Nat
  BY TurnsAreCounted
<1>2. UriFrom(s, verbatim, uri) = c[n]
  BY DEF UriFrom, Loop
<1>3. a \in A
  BY StaysReads DEF UrisFrom
<1>4. ASSUME NEW r \in A PROVE UriTurn(r, verbatim) \in A
  BY UriTurnReads
<1> HIDE DEF n, A, a
<1>5. g \in [A -> A]
  BY <1>4
<1> HIDE DEF g
<1>6. PICK f : TurnsFrom(A, n, a, g, f)
  BY <1>1, <1>3, <1>5, TurnsExist
<1>7. Is(f)
  <2>1. \A i \in 1..n : f[i - 1] \in A
    BY <1>1, <1>6 DEF TurnsFrom
  <2>2. \A i \in 1..n : f[i] = UriTurn(f[i - 1], verbatim)
    BY <1>6, <2>1 DEF TurnsFrom, g
  <2>3. f = [i \in 0..n |-> f[i]] /\ f[0] = a
    BY <1>6 DEF TurnsFrom
  <2>4. \A i \in 0..n : i # 0 => i \in 1..n
    BY <1>1
  <2>5. QED
    BY <2>2, <2>3, <2>4, Zenon
<1>8. Is(c)
  <2> HIDE DEF Is
  <2> QED BY <1>7
<1> HIDE DEF c
<1>9. c[0] = a /\ \A i \in 1..n : c[i] = UriTurn(c[i - 1], verbatim)
  <2> DEFINE e == [i \in 0..n |-> IF i = 0 THEN a ELSE UriTurn(c[i - 1], verbatim)]
  <2>1. e[0] = a /\ \A i \in 1..n : e[i] = UriTurn(c[i - 1], verbatim)
    BY <1>1
  <2>2. QED
    BY <1>8, <2>1, Zenon
<1>10. \A i \in 1..n : c[i - 1] \in A => c[i] \in A
  BY <1>4, <1>9
<1>11. \A i \in 0..n : c[i] \in A
  BY <1>1, <1>3, <1>9, <1>10, LoopStays
<1>12. c[n] \in A
  BY <1>1, <1>11
<1>13. QED
  BY <1>2, <1>12 DEF A

(* A failure behind what was read.                                         *)
LEMMA FailedReads ==
    ASSUME NEW V, NEW s \in ScannersOver(V), NEW t, Reads(V, s, t)
    PROVE  Consumes(V, s, Failed(t)) /\ Failed(t).error
<1>1. t \in ScannersOver(V)
  BY DEF Reads
<1>2. Consumes(V, t, Failed(t))
  BY <1>1, StaysReads
<1>3. Failed(t).error
  BY <1>1 DEF Failed, ScannersOver
<1>4. QED
  BY <1>2, <1>3, ReadsThenConsumes

-----------------------------------------------------------------------------
(* Directives.                                                             *)
LEMMA VersionNumberReads ==
    ASSUME NEW V, NEW s \in ScannersOver(V)
    PROVE  Reads(V, s, VersionNumber(s).s)
<1> DEFINE stops == {i \in DOMAIN s.rest : ~IsDigit(s.rest[i])}
           n == IF stops = {} THEN Len(s.rest) ELSE Min(stops) - 1
           f == Forward(s, n)
<1>1. VersionNumber(s).s = IF n = 0 \/ n > MaxNumberLength THEN Failed(f) ELSE f
  BY DEF VersionNumber, Span, Unless
<1>2. n \in Nat
  <2>1. s.rest \in Seq(Symbols) /\ Len(s.rest) \in Nat /\ stops \subseteq DOMAIN s.rest
    BY Fields
  <2> HIDE DEF stops
  <2>2. n \in 0..Len(s.rest)
    BY <2>1, SpanLength
  <2> HIDE DEF n
  <2>3. QED
    BY <2>1, <2>2
<1> HIDE DEF n
<1>3. Reads(V, s, f)
  BY <1>2, ForwardReads
<1> HIDE DEF f
<1>4. Reads(V, s, Failed(f))
  BY <1>3, FailedReads DEF Consumes
<1>5. QED
  BY <1>1, <1>3, <1>4

LEMMA VersionDirectiveReads ==
    ASSUME NEW V, NEW s \in ScannersOver(V)
    PROVE  /\ Reads(V, s, ScanVersionDirectiveValue(s).s)
           /\ ScanVersionDirectiveValue(s).token.type = "VERSION-DIRECTIVE"
<1> DEFINE b == SkipBlanks(s)
           major == VersionNumber(b).s
           point == IF Here(major) # "." THEN Failed(major) ELSE major
           f == Forward(point, 1)
           minor == VersionNumber(f).s
<1>1. /\ ScanVersionDirectiveValue(s).s = minor
      /\ ScanVersionDirectiveValue(s).token.type = "VERSION-DIRECTIVE"
  BY DEF ScanVersionDirectiveValue, Scanned, Token, Unless
<1>2. Reads(V, s, b) /\ b \in ScannersOver(V)
  BY BlanksRead DEF Reads
<1> HIDE DEF b
<1>3. Reads(V, b, major)
  BY <1>2, VersionNumberReads
<1>4. Reads(V, s, major)
  BY <1>2, <1>3, ReadsTransitive
<1> HIDE DEF major
<1>5. Reads(V, s, Failed(major))
  BY <1>4, FailedReads DEF Consumes
<1>6. Reads(V, s, point) /\ point \in ScannersOver(V)
  BY <1>4, <1>5 DEF Reads
<1> HIDE DEF point
<1>7. Reads(V, point, f) /\ f \in ScannersOver(V)
  BY <1>6, ForwardReads DEF Reads
<1>8. Reads(V, s, f)
  BY <1>6, <1>7, ReadsTransitive
<1> HIDE DEF f
<1>9. Reads(V, f, minor)
  BY <1>7, VersionNumberReads
<1>10. Reads(V, s, minor)
  BY <1>8, <1>9, ReadsTransitive
<1>11. QED
  BY <1>1, <1>10

LEMMA TagHandleReads ==
    ASSUME NEW V, NEW s \in ScannersOver(V), NEW directive
    PROVE  /\ Consumes(V, s, ScanTagHandle(s, directive).s)
           /\ ScanTagHandle(s, directive).handle \in Seq(Symbols)
<1> DEFINE tail == Tail(s.rest)
           stops == {i \in DOMAIN tail : ~IsAlpha(tail[i])}
           letters == IF stops = {} THEN Len(tail) ELSE Min(stops) - 1
           closed == Ahead(s, letters + 1) = "!"
           length == letters + IF closed THEN 2 ELSE 1
           f == Forward(s, length)
           h == SubSeq(s.rest, 1, length)
           r == ScanTagHandle(s, directive)
<1>1. CASE Here(s) # "!"
  <2>1. r.s = Failed(s) /\ r.handle = <<>>
    BY <1>1 DEF ScanTagHandle
  <2>2. Consumes(V, s, Failed(s))
    BY StaysReads
  <2> HIDE DEF r
  <2>3. QED
    BY <2>1, <2>2 DEF r
<1>2. CASE Here(s) = "!"
  <2>1. r.s \in {f, Failed(f)} /\ r.handle = h
    <3>1. r = [s |-> IF directive /\ ~closed /\ letters > 0 THEN Failed(f) ELSE f,
               handle |-> h]
      BY <1>2 DEF ScanTagHandle, Span, Unless
    <3> HIDE DEF f, h, closed, letters, r
    <3>2. QED
      BY <3>1
  <2>2. s.rest \in Seq(Symbols) /\ s.rest # <<>> /\ Len(s.rest) \in Nat
    BY <1>2, HereIsChar, Fields DEF IsZ
  <2>3. tail \in Seq(Symbols) /\ Len(tail) = Len(s.rest) - 1 /\ stops \subseteq DOMAIN tail
    BY <2>2
  <2> HIDE DEF tail, stops
  <2>4. letters \in 0..(Len(s.rest) - 1)
    BY <2>3, SpanLength
  <2>5. letters \in Nat /\ letters + 1 \in Nat
    BY <2>2, <2>4
  <2> HIDE DEF letters
  <2>6. closed => letters + 2 <= Len(s.rest)
    <3> DEFINE k == letters + 1
    <3>1. k \in Nat
      BY <2>5
    <3> HIDE DEF k
    <3>2. closed => k + 1 \in 1..Len(s.rest)
      BY <3>1, AheadIsChar DEF IsZ, k
    <3> HIDE DEF closed
    <3>3. QED
      BY <2>2, <2>5, <3>2 DEF k
  <2> HIDE DEF closed
  <2>7. length \in 1..Len(s.rest)
    BY <2>2, <2>4, <2>5, <2>6
  <2> HIDE DEF length
  <2>8. h \in Seq(Symbols) /\ length \in Nat /\ length > 0
    BY <2>2, <2>7
  <2>9. Consumes(V, s, f)
    BY <2>2, <2>8, ForwardReads
  <2> HIDE DEF f, h, r
  <2>10. Consumes(V, s, Failed(f))
    BY <2>9, FailedReads DEF Consumes
  <2>11. QED
    BY <2>1, <2>8, <2>9, <2>10 DEF r
<1>3. QED
  BY <1>1, <1>2

(* A URI behind the head of a tag.                                         *)
LEMMA TagUriReads ==
    ASSUME NEW V, NEW s \in ScannersOver(V), NEW verbatim, NEW head \in Seq(Symbols)
    PROVE  ScanTagUri(s, verbatim, head) \in UrisFrom(V, s)
<1> DEFINE first == IF head = <<>> THEN <<>> ELSE Tail(head)
           found == UriFrom(s, verbatim, first)
           e == IF head = <<>> /\ found.uri = <<>> THEN Failed(found.s) ELSE found.s
<1>1. ScanTagUri(s, verbatim, head) = [found EXCEPT !.s = e]
  BY DEF ScanTagUri, UriBehind, Unless
<1>2. first \in Seq(Symbols)
  OBVIOUS
<1> HIDE DEF first
<1>3. found \in UrisFrom(V, s)
  BY <1>2, UriFromReads
<1> HIDE DEF found
<1>4. Reads(V, s, found.s)
  BY <1>3 DEF UrisFrom
<1>5. Reads(V, s, Failed(found.s))
  BY <1>4, FailedReads DEF Consumes
<1>6. Reads(V, s, e) /\ e \in ScannersOver(V)
  BY <1>4, <1>5 DEF Reads
<1> HIDE DEF e
<1>7. QED
  BY <1>1, <1>3, <1>6 DEF UrisFrom

(* What a scanner of tokens promises: it reads something, and its token is *)
(* one of the types, unless it fails.                                      *)
Scans(V, s, r, types) == Consumes(V, s, r.s) /\ (r.s.error \/ r.token.type \in types)

LEMMA TagDirectiveReads ==
    ASSUME NEW V, NEW s \in ScannersOver(V)
    PROVE  /\ Reads(V, s, ScanTagDirectiveValue(s).s)
           /\ ScanTagDirectiveValue(s).token.type = "TAG-DIRECTIVE"
<1> DEFINE m == TRUE
           b == SkipBlanks(s)
           named == ScanTagHandle(b, m)
           h == named.s
           c == SkipBlanks(h)
           prefix == ScanTagUri(c, m, <<>>)
           e == IF ~IsBlank(Here(h)) \/ ~IsBlankZ(Here(prefix.s)) THEN Failed(prefix.s)
                ELSE prefix.s
<1>1. /\ ScanTagDirectiveValue(s).s = e
      /\ ScanTagDirectiveValue(s).token.type = "TAG-DIRECTIVE"
  BY DEF ScanTagDirectiveValue, Scanned, Token, Unless
<1> HIDE DEF m
<1>2. Reads(V, s, b) /\ b \in ScannersOver(V)
  BY BlanksRead DEF Reads
<1> HIDE DEF b
<1>3. Reads(V, b, h)
  BY <1>2, TagHandleReads DEF Consumes
<1> HIDE DEF named
<1>4. Reads(V, s, h) /\ h \in ScannersOver(V)
  BY <1>2, <1>3, ReadsTransitive DEF Reads
<1> HIDE DEF h
<1>5. Reads(V, h, c) /\ c \in ScannersOver(V)
  BY <1>4, BlanksRead DEF Reads
<1>6. Reads(V, s, c)
  BY <1>4, <1>5, ReadsTransitive
<1> HIDE DEF c
<1>7. Reads(V, c, prefix.s)
  <2>1. <<>> \in Seq(Symbols)
    OBVIOUS
  <2>2. prefix \in UrisFrom(V, c)
    BY <1>5, <2>1, TagUriReads
  <2>3. QED
    BY <2>2 DEF UrisFrom
<1> HIDE DEF prefix
<1>8. Reads(V, s, prefix.s)
  BY <1>6, <1>7, ReadsTransitive
<1>9. Reads(V, s, Failed(prefix.s))
  BY <1>8, FailedReads DEF Consumes
<1>10. QED
  BY <1>1, <1>8, <1>9

(* yaml_parser_scan_directive.                                             *)
LEMMA DirectiveScans ==
    ASSUME NEW V, NEW s \in ScannersOver(V), s.rest # <<>>
    PROVE  Scans(V, s, ScanDirective(s), {"VERSION-DIRECTIVE", "TAG-DIRECTIVE"})
<1> DEFINE begun == Forward(s, 1)
           stops == {i \in DOMAIN begun.rest : ~IsAlpha(begun.rest[i])}
           length == IF stops = {} THEN Len(begun.rest) ELSE Min(stops) - 1
           name == SubSeq(begun.rest, 1, length)
           behind == Forward(begun, length)
           found == IF name = <<"Y">> THEN ScanVersionDirectiveValue(behind)
                                      ELSE ScanTagDirectiveValue(behind)
           t == found.s
           e == IF t.error THEN t ELSE RestOfLine(t)
           r == ScanDirective(s)
<1>1. \/ r = Scanned(Failed(behind), Token("NO-TOKEN", "", <<>>))
      \/ r = [found EXCEPT !.s = e]
  BY DEF ScanDirective, Span
<1>2. Consumes(V, s, begun) /\ begun \in ScannersOver(V)
  BY ForwardReads DEF Consumes, Reads
<1> HIDE DEF begun, r
<1>3. length \in Nat
  <2>1. begun.rest \in Seq(Symbols) /\ Len(begun.rest) \in Nat /\ stops \subseteq DOMAIN begun.rest
    BY <1>2, Fields
  <2> HIDE DEF stops
  <2>2. length \in 0..Len(begun.rest)
    BY <2>1, SpanLength
  <2> HIDE DEF length
  <2>3. QED
    BY <2>1, <2>2
<1> HIDE DEF length, name
<1>4. Reads(V, begun, behind) /\ behind \in ScannersOver(V)
  BY <1>2, <1>3, ForwardReads DEF Reads
<1>5. Consumes(V, s, behind)
  BY <1>2, <1>4, ConsumesThenReads
<1> HIDE DEF behind
<1>6. CASE r = Scanned(Failed(behind), Token("NO-TOKEN", "", <<>>))
  <2>1. r.s = Failed(behind)
    BY <1>6 DEF Scanned
  <2>2. Consumes(V, s, Failed(behind)) /\ Failed(behind).error
    BY <1>5, FailedReads DEF Consumes
  <2>3. QED
    BY <2>1, <2>2 DEF Scans, r
<1>7. CASE r = [found EXCEPT !.s = e]
  <2>1. Reads(V, behind, t) /\ found.token.type \in {"VERSION-DIRECTIVE", "TAG-DIRECTIVE"}
    BY <1>4, VersionDirectiveReads, TagDirectiveReads
  <2>2. r.s = e /\ r.token = found.token
    BY <1>7 DEF ScanVersionDirectiveValue, ScanTagDirectiveValue, Scanned
  <2> HIDE DEF found, t
  <2>3. Consumes(V, s, t) /\ t \in ScannersOver(V)
    BY <1>5, <2>1, ConsumesThenReads DEF Reads
  <2>4. Reads(V, t, RestOfLine(t))
    BY <2>3, RestOfLineReads
  <2>5. Consumes(V, s, RestOfLine(t))
    BY <2>3, <2>4, ConsumesThenReads
  <2>6. Consumes(V, s, e)
    BY <2>3, <2>5
  <2> HIDE DEF e
  <2>7. QED
    BY <2>1, <2>2, <2>6 DEF Scans, r
<1>8. QED
  BY <1>1, <1>6, <1>7

-----------------------------------------------------------------------------
(* Anchors, aliases and tags.                                              *)
LEMMA AnchorScans ==
    ASSUME NEW V, NEW s \in ScannersOver(V), s.rest # <<>>, NEW type
    PROVE  Scans(V, s, ScanAnchor(s, type), {type})
<1> DEFINE tail == Tail(s.rest)
           stops == {i \in DOMAIN tail : ~IsAlpha(tail[i])}
           length == IF stops = {} THEN Len(tail) ELSE Min(stops) - 1
           n == length + 1
           end == Forward(s, n)
           r == ScanAnchor(s, type)
<1>1. r.s \in {end, Failed(end)} /\ r.token.type = type
  BY DEF ScanAnchor, Scanned, Token, Span, Unless
<1>2. n \in Nat /\ n > 0
  <2>1. s.rest \in Seq(Symbols)
    BY Fields
  <2>2. tail \in Seq(Symbols) /\ Len(tail) \in Nat /\ stops \subseteq DOMAIN tail
    BY <2>1
  <2> HIDE DEF tail, stops
  <2>3. length \in 0..Len(tail)
    BY <2>2, SpanLength
  <2> HIDE DEF length
  <2>4. QED
    BY <2>2, <2>3
<1> HIDE DEF n, r
<1>3. Consumes(V, s, end)
  BY <1>2, ForwardReads
<1> HIDE DEF end
<1>4. Consumes(V, s, Failed(end))
  BY <1>3, FailedReads DEF Consumes
<1>5. Consumes(V, s, r.s)
  BY <1>1, <1>3, <1>4
<1>6. QED
  BY <1>1, <1>5 DEF Scans, r

(* The end of a tag.                                                       *)
LEMMA TagTokenScans ==
    ASSUME NEW V, NEW s \in ScannersOver(V), NEW tag, Consumes(V, s, tag.s)
    PROVE  Scans(V, s, TagToken(tag), {"TAG"})
<1> DEFINE t == tag.s
           r == TagToken(tag)
<1>1. r.s \in {t, Failed(t)} /\ r.token.type = "TAG"
  BY DEF TagToken, Scanned, Token, Unless
<1> HIDE DEF r
<1>2. Consumes(V, s, t) /\ Consumes(V, s, Failed(t))
  BY FailedReads DEF Consumes
<1> HIDE DEF t
<1>3. QED
  BY <1>1, <1>2 DEF Scans, r

(* yaml_parser_scan_tag.                                                   *)
LEMMA TagScans ==
    ASSUME NEW V, NEW s \in ScannersOver(V), s.rest # <<>>
    PROVE  Scans(V, s, ScanTag(s), {"TAG"})
<1> DEFINE m == TRUE
           o == FALSE
           f == Forward(s, 2)
           found == ScanTagUri(f, m, <<>>)
           closed == IF Here(found.s) # ">" THEN Failed(found.s) ELSE found.s
           first == ScanTagHandle(s, o)
           verbatim == VerbatimTag(found)
           short == Shorthand(first)
           suffix == ScanTagUri(first.s, o, <<>>)
           whole == ScanTagUri(first.s, o, first.handle)
<1>1. ScanTag(s) = IF Ahead(s, 1) = "<" THEN TagToken(verbatim) ELSE TagToken(short)
  BY DEF ScanTag
<1> HIDE DEF m, o
<1>2. Consumes(V, s, verbatim.s)
  <2>1. Consumes(V, s, f) /\ f \in ScannersOver(V)
    BY ForwardReads DEF Consumes, Reads
  <2> HIDE DEF f
  <2>2. found \in UrisFrom(V, f)
    <3>1. <<>> \in Seq(Symbols)
      OBVIOUS
    <3>2. QED
      BY <2>1, <3>1, TagUriReads
  <2>3. verbatim.s = Forward(closed, 1)
    <3> HIDE DEF found
    <3>1. verbatim.s = [found EXCEPT !.s = Forward(closed, 1)].s
      BY DEF VerbatimTag, Tag, Unless
    <3>2. QED
      BY <2>2, <3>1 DEF UrisFrom
  <2> HIDE DEF found, verbatim
  <2>4. Reads(V, f, found.s)
    BY <2>2 DEF UrisFrom
  <2>5. Consumes(V, s, found.s)
    BY <2>1, <2>4, ConsumesThenReads
  <2>6. Consumes(V, s, Failed(found.s))
    BY <2>5, FailedReads DEF Consumes
  <2>7. Consumes(V, s, closed) /\ closed \in ScannersOver(V)
    BY <2>5, <2>6 DEF Consumes, Reads
  <2> HIDE DEF closed
  <2>8. Reads(V, closed, Forward(closed, 1))
    BY <2>7, ForwardReads
  <2>9. QED
    BY <2>3, <2>7, <2>8, ConsumesThenReads
<1>3. Consumes(V, s, short.s)
  <2>1. /\ Consumes(V, s, first.s) /\ first.handle \in Seq(Symbols)
        /\ first.s \in ScannersOver(V)
    BY TagHandleReads DEF Consumes, Reads
  <2> HIDE DEF first
  <2>2. suffix \in UrisFrom(V, first.s) /\ whole \in UrisFrom(V, first.s)
    <3>1. <<>> \in Seq(Symbols)
      OBVIOUS
    <3>2. QED
      BY <2>1, <3>1, TagUriReads
  <2>3. short.s \in {suffix.s, whole.s}
    <3>1. \/ short = Tag(first.handle, suffix)
          \/ short = LocalTag(whole)
      BY DEF Shorthand, o
    <3> HIDE DEF suffix, whole, short
    <3>2. LocalTag(whole).s = whole.s
      BY <2>2 DEF LocalTag, Tag, UrisFrom
    <3>3. Tag(first.handle, suffix).s = suffix.s
      BY DEF Tag
    <3>4. QED
      BY <3>1, <3>2, <3>3
  <2> HIDE DEF suffix, whole, short
  <2>4. Reads(V, first.s, suffix.s) /\ Reads(V, first.s, whole.s)
    BY <2>2 DEF UrisFrom
  <2>5. Consumes(V, s, suffix.s) /\ Consumes(V, s, whole.s)
    BY <2>1, <2>4, ConsumesThenReads
  <2>6. QED
    BY <2>3, <2>5
<1> HIDE DEF verbatim, short
<1>4. Scans(V, s, TagToken(verbatim), {"TAG"}) /\ Scans(V, s, TagToken(short), {"TAG"})
  BY <1>2, <1>3, TagTokenScans
<1>5. QED
  BY <1>1, <1>4

-----------------------------------------------------------------------------
(* Scalars.  White space, and what becomes of it.                          *)
LEMMA FoldedIsText ==
    ASSUME NEW white \in Seq(Symbols)
    PROVE  Folded(white) \in Seq(Symbols) /\ BreakSeq(LineBreaks(white)) \in Seq(Symbols)
<1> DEFINE n == LineBreaks(white)
<1>1. n \in Nat
  BY LineBreaksAreCounted
<1> HIDE DEF n
<1> DEFINE space == " "
           break == "\n"
<1>2. space \in Symbols /\ break \in Symbols
  BY DEF Symbols
<1> HIDE DEF space, break
<1>3. \A k \in Nat : BreakSeq(k) \in Seq(Symbols)
  <2>1. ASSUME NEW k \in Nat PROVE [i \in 1..k |-> break] \in Seq(Symbols)
    BY <1>2
  <2>2. QED
    BY <2>1 DEF BreakSeq, break
<1>4. n # 0 => n - 1 \in Nat
  BY <1>1
<1>5. Folded(white) = IF n = 0 THEN white ELSE IF n = 1 THEN <<" ">> ELSE BreakSeq(n - 1)
  BY DEF Folded, n
<1>6. <<" ">> \in Seq(Symbols)
  <2>1. <<space>> \in Seq(Symbols)
    BY <1>2
  <2>2. QED
    BY <2>1 DEF space
<1>7. Folded(white) \in Seq(Symbols)
  BY <1>3, <1>4, <1>5, <1>6
<1>8. QED
  BY <1>1, <1>3, <1>7 DEF n

LEMMA WhiteRunBound ==
    ASSUME NEW V, NEW s \in ScannersOver(V)
    PROVE  LET white == SubSeq(s.rest, 1, WhiteRun(s)) IN
           /\ WhiteRun(s) \in 0..Len(s.rest)
           /\ white \in Seq(Symbols) /\ Len(white) = WhiteRun(s)
<1> DEFINE stops == {i \in DOMAIN s.rest : ~(IsBlank(s.rest[i]) \/ IsBreak(s.rest[i]))}
           n == WhiteRun(s)
<1>1. s.rest \in Seq(Symbols) /\ Len(s.rest) \in Nat /\ stops \subseteq DOMAIN s.rest
  BY Fields
<1>2. n = IF stops = {} THEN Len(s.rest) ELSE Min(stops) - 1
  BY DEF WhiteRun, Span
<1> HIDE DEF stops, n
<1>3. n \in 0..Len(s.rest)
  BY <1>1, <1>2, SpanLength
<1>4. SubSeq(s.rest, 1, n) \in Seq(Symbols) /\ Len(SubSeq(s.rest, 1, n)) = n
  BY <1>1, <1>3
<1>5. QED
  BY <1>3, <1>4 DEF n

(* An escape of a quoted scalar.                                           *)
LEMMA EscapeReads ==
    ASSUME NEW V, NEW s \in ScannersOver(V)
    PROVE  Reads(V, s, ScanEscape(s).s) /\ ScanEscape(s).char \in Symbols
<1> DEFINE x == Ahead(s, 1)
           code == [i \in 1..CodeLength[x] |-> Ahead(s, i + 1)]
           f == Forward(s, 2 + CodeLength[x])
           g == Forward(s, 2)
           r == ScanEscape(s)
<1>1. /\ "a" \in Symbols /\ Reads(V, s, g)
      /\ Reads(V, s, Failed(s))
  <2>1. "a" \in Symbols
    BY DEF Symbols
  <2>2. Reads(V, s, g)
    BY ForwardReads
  <2>3. Reads(V, s, Failed(s))
    BY FailedReads, StaysReads DEF Consumes
  <2>4. QED
    BY <2>1, <2>2, <2>3
<1>2. CASE x \in DOMAIN CodeLength
  <2>1. r = [s |-> Unless(f, NoCharacter(code)), char |-> CodedCharacter(code)]
    BY <1>2 DEF ScanEscape
  <2>2. CodeLength[x] \in Nat
    <3> HIDE DEF x
    <3> QED BY <1>2 DEF CodeLength
  <2>3. Reads(V, s, f)
    <3>1. 2 + CodeLength[x] \in Nat
      BY <2>2
    <3>2. QED
      BY <3>1, ForwardReads
  <2>4. Reads(V, s, Failed(f))
    BY <2>3, FailedReads DEF Consumes
  <2> HIDE DEF f, r, x
  <2>5. CodedCharacter(code) \in Symbols
    BY <1>1, CodedCharacters
  <2>6. QED
    BY <2>1, <2>3, <2>4, <2>5 DEF r, Unless
<1>3. CASE x \notin DOMAIN CodeLength /\ x \in DOMAIN Escapes
  <2>1. r = [s |-> g, char |-> Escapes[x]]
    BY <1>3 DEF ScanEscape
  <2>2. Escapes[x] \in {"\n", "\t", " ", "\"", "\\", "/", "a"}
    <3> HIDE DEF x
    <3> QED BY <1>3 DEF Escapes
  <2>3. Escapes[x] \in Symbols
    BY <2>2 DEF Symbols
  <2> HIDE DEF r, g, x
  <2>4. QED
    BY <1>1, <2>1, <2>3 DEF r
<1>4. CASE x \notin DOMAIN CodeLength /\ x \notin DOMAIN Escapes
  <2>1. r = [s |-> Failed(s), char |-> "a"]
    BY <1>4 DEF ScanEscape
  <2> HIDE DEF r
  <2>2. QED
    BY <1>1, <2>1 DEF r
<1>5. QED
  BY <1>2, <1>3, <1>4

(* A scalar in the making, after some turns of its loop.                   *)
ScalarsFrom(V, s) ==
    {r \in [s : ScannersOver(V), value : Seq(Symbols), white : Seq(Symbols), done : BOOLEAN] :
        Reads(V, s, r.s)}

LEMMA ScalarsGrow ==
    ASSUME NEW V, NEW s \in ScannersOver(V), NEW t, Reads(V, s, t),
           NEW value \in Seq(Symbols), NEW white \in Seq(Symbols)
    PROVE  Reading(t, value, white) \in ScalarsFrom(V, s) /\ Read(t, value) \in ScalarsFrom(V, s)
<1>1. t \in ScannersOver(V)
  BY DEF Reads
<1>2. Reading(t, value, white) \in ScalarsFrom(V, s)
  BY <1>1 DEF ScalarsFrom, Reading
<1>3. Read(t, value) \in ScalarsFrom(V, s)
  BY <1>1 DEF ScalarsFrom, Read
<1>4. QED
  BY <1>2, <1>3

(* A turn of yaml_parser_scan_flow_scalar.                                 *)
LEMMA QuotedTurnReads ==
    ASSUME NEW V, NEW s \in ScannersOver(V), NEW r \in ScalarsFrom(V, s), NEW quote \in Symbols
    PROVE  QuotedTurn(r, quote) \in ScalarsFrom(V, s)
<1> DEFINE t == r.s
           value == r.value
           c == Here(t)
           w == WhiteRun(t)
           white == SubSeq(t.rest, 1, w)
           line == SkipLine(Forward(t, 1))
           x == WhiteRun(line)
           behind == SubSeq(line.rest, 1, x)
           escape == ScanEscape(t)
           S == ScalarsFrom(V, s)
           On(there, more) == Reading(there, value \o more, <<>>)
<1>1. t \in ScannersOver(V) /\ value \in Seq(Symbols) /\ Reads(V, s, t)
  BY DEF ScalarsFrom
<1>2. Reads(V, t, Forward(t, 1)) /\ Reads(V, t, Forward(t, 2)) /\ c \in Symbols
  BY <1>1, ForwardReads, HereIsChar
<1>3. Reads(V, Forward(t, 1), line)
  BY <1>2, SkipLineReads DEF Reads
<1>4. Reads(V, t, line) /\ line \in ScannersOver(V)
  BY <1>1, <1>2, <1>3, ReadsTransitive DEF Reads
<1>5. Reads(V, t, escape.s) /\ escape.char \in Symbols
  BY <1>1, EscapeReads
<1> HIDE DEF t, c, line, escape
<1>6. /\ w \in 0..Len(t.rest) /\ white \in Seq(Symbols) /\ Len(white) = w
      /\ x \in 0..Len(line.rest) /\ behind \in Seq(Symbols) /\ Len(behind) = x
  BY <1>1, <1>4, WhiteRunBound
<1> HIDE DEF w, x, white, behind
<1>7. Reads(V, t, ForwardLines(t, w)) /\ Reads(V, line, ForwardLines(line, x))
  BY <1>1, <1>4, <1>6, ForwardLinesReads
<1>8. /\ Reads(V, s, Forward(t, 1)) /\ Reads(V, s, Forward(t, 2)) /\ Reads(V, s, escape.s)
      /\ Reads(V, s, ForwardLines(t, w)) /\ Reads(V, s, line)
  BY <1>1, <1>2, <1>4, <1>5, <1>7, ReadsTransitive
<1>9. Reads(V, s, ForwardLines(line, x)) /\ Reads(V, s, Failed(t))
  BY <1>1, <1>7, <1>8, ReadsTransitive, FailedReads DEF Consumes
<1>10. Folded(white) \in Seq(Symbols) /\ BreakSeq(LineBreaks(behind)) \in Seq(Symbols)
  BY <1>6, FoldedIsText
<1>11. ASSUME NEW there, Reads(V, s, there), NEW more \in Seq(Symbols)
       PROVE  On(there, more) \in S
  <2> DEFINE v == value \o more
  <2>1. v \in Seq(Symbols) /\ <<>> \in Seq(Symbols)
    BY <1>1
  <2> HIDE DEF v
  <2>2. Reading(there, v, <<>>) \in S
    BY <1>11, <2>1, ScalarsGrow
  <2>3. QED
    BY <2>2 DEF v
<1>12. /\ On(Forward(t, 2), <<quote>>) \in S /\ On(ForwardLines(t, w), Folded(white)) \in S
       /\ On(Forward(t, 1), <<c>>) \in S
       /\ On(ForwardLines(line, x), BreakSeq(LineBreaks(behind))) \in S
       /\ On(escape.s, <<escape.char>>) \in S
  <2>1. <<quote>> \in Seq(Symbols) /\ <<c>> \in Seq(Symbols) /\ <<escape.char>> \in Seq(Symbols)
    BY <1>2, <1>5
  <2> HIDE DEF On, S
  <2>2. QED
    BY <1>8, <1>9, <1>10, <1>11, <2>1
<1>13. Read(Failed(t), value) \in S /\ Read(Forward(t, 1), value) \in S
  <2>1. <<>> \in Seq(Symbols)
    OBVIOUS
  <2>2. QED
    BY <1>1, <1>8, <1>9, <2>1, ScalarsGrow
<1>14. QuotedTurn(r, quote) \in
           {r, Read(Failed(t), value), Read(Forward(t, 1), value),
            On(Forward(t, 2), <<quote>>), On(ForwardLines(t, w), Folded(white)),
            On(Forward(t, 1), <<c>>), On(ForwardLines(line, x), BreakSeq(LineBreaks(behind))),
            On(escape.s, <<escape.char>>)}
  <2>1. ForwardLines(t, w) = ForwardLines(t, Len(white))
        /\ ForwardLines(line, x) = ForwardLines(line, Len(behind))
    BY <1>6
  <2> HIDE DEF value
  <2>2. QED
    BY <2>1 DEF QuotedTurn, t, value, c, w, white, line, x, behind, escape
<1>15. r \in S
  OBVIOUS
<1> HIDE DEF On, S
<1>16. QED
  BY <1>12, <1>13, <1>14, <1>15 DEF S

(* The characters of a quoted scalar.                                      *)
LEMMA QuotedFromReads ==
    ASSUME NEW V, NEW s \in ScannersOver(V), NEW quote \in Symbols
    PROVE  QuotedFrom(s, quote) \in ScalarsFrom(V, s)
<1> DEFINE n == CharacterTurns(s)
           a == Reading(s, <<>>, <<>>)
           A == ScalarsFrom(V, s)
           g == [r \in A |-> QuotedTurn(r, quote)]
           Is(f) == f = [i \in 0..n |-> IF i = 0 THEN a ELSE QuotedTurn(f[i - 1], quote)]
           c == CHOOSE f : Is(f)
<1>1. n \in Nat
  BY TurnsAreCounted
<1>2. QuotedFrom(s, quote) = c[n]
  BY DEF QuotedFrom, Loop
<1>3. a \in A
  <2>1. <<>> \in Seq(Symbols) /\ Reads(V, s, s)
    BY StaysReads
  <2>2. QED
    BY <2>1, ScalarsGrow
<1>4. ASSUME NEW r \in A PROVE QuotedTurn(r, quote) \in A
  BY QuotedTurnReads
<1> HIDE DEF n, A, a
<1>5. g \in [A -> A]
  BY <1>4
<1> HIDE DEF g
<1>6. PICK f : TurnsFrom(A, n, a, g, f)
  BY <1>1, <1>3, <1>5, TurnsExist
<1>7. Is(f)
  <2>1. \A i \in 1..n : f[i - 1] \in A
    BY <1>1, <1>6 DEF TurnsFrom
  <2>2. \A i \in 1..n : f[i] = QuotedTurn(f[i - 1], quote)
    BY <1>6, <2>1 DEF TurnsFrom, g
  <2>3. f = [i \in 0..n |-> f[i]] /\ f[0] = a
    BY <1>6 DEF TurnsFrom
  <2>4. \A i \in 0..n : i # 0 => i \in 1..n
    BY <1>1
  <2>5. QED
    BY <2>2, <2>3, <2>4, Zenon
<1>8. Is(c)
  <2> HIDE DEF Is
  <2> QED BY <1>7
<1> HIDE DEF c
<1>9. c[0] = a /\ \A i \in 1..n : c[i] = QuotedTurn(c[i - 1], quote)
  <2> DEFINE e == [i \in 0..n |-> IF i = 0 THEN a ELSE QuotedTurn(c[i - 1], quote)]
  <2>1. e[0] = a /\ \A i \in 1..n : e[i] = QuotedTurn(c[i - 1], quote)
    BY <1>1
  <2>2. QED
    BY <1>8, <2>1, Zenon
<1>10. \A i \in 1..n : c[i - 1] \in A => c[i] \in A
  BY <1>4, <1>9
<1>11. \A i \in 0..n : c[i] \in A
  BY <1>1, <1>3, <1>9, <1>10, LoopStays
<1>12. c[n] \in A
  BY <1>1, <1>11
<1>13. QED
  BY <1>2, <1>12 DEF A

(* yaml_parser_scan_flow_scalar.                                           *)
LEMMA FlowScalarScans ==
    ASSUME NEW V, NEW s \in ScannersOver(V), s.rest # <<>>
    PROVE  Scans(V, s, ScanFlowScalar(s), {"SCALAR"})
<1> DEFINE f == Forward(s, 1)
           quote == Here(s)
           t == QuotedFrom(f, quote).s
           r == ScanFlowScalar(s)
<1>1. r.s = t /\ r.token.type = "SCALAR"
  BY DEF ScanFlowScalar, Scanned, Token
<1>2. Consumes(V, s, f) /\ f \in ScannersOver(V) /\ quote \in Symbols
  BY ForwardReads, HereIsChar DEF Consumes, Reads
<1> HIDE DEF f, quote, r
<1>3. Reads(V, f, t)
  BY <1>2, QuotedFromReads DEF ScalarsFrom
<1> HIDE DEF t
<1>4. Consumes(V, s, t)
  BY <1>2, <1>3, ConsumesThenReads
<1>5. QED
  BY <1>1, <1>4 DEF Scans, r

(* A turn of yaml_parser_scan_plain_scalar.                                *)
LEMMA PlainTurnReads ==
    ASSUME NEW V, NEW s \in ScannersOver(V), NEW r \in ScalarsFrom(V, s)
    PROVE  PlainTurn(r) \in ScalarsFrom(V, s)
<1> DEFINE t == r.s
           value == r.value
           c == Here(t)
           w == WhiteRun(t)
           run == SubSeq(t.rest, 1, w)
           next == ForwardLines(t, w)
           S == ScalarsFrom(V, s)
           more == value \o Folded(r.white) \o <<c>>
           Key(there, white) == there.simpleKeyAllowed \/ LineBreaks(white) > 0
           Ended(there, white) == Read([there EXCEPT !.simpleKeyAllowed = Key(there, white)], value)
<1>1. /\ t \in ScannersOver(V) /\ value \in Seq(Symbols) /\ r.white \in Seq(Symbols)
      /\ Reads(V, s, t)
  BY DEF ScalarsFrom
<1> HIDE DEF t
<1>2. Reads(V, t, Forward(t, 1)) /\ c \in Symbols
  BY <1>1, ForwardReads, HereIsChar
<1> HIDE DEF c
<1>3. w \in 0..Len(t.rest) /\ run \in Seq(Symbols) /\ Len(run) = w
  BY <1>1, WhiteRunBound
<1> HIDE DEF w, run
<1>4. Reads(V, t, next)
  BY <1>1, <1>3, ForwardLinesReads
<1> HIDE DEF next
<1>5. Reads(V, s, Forward(t, 1)) /\ Reads(V, s, next) /\ Reads(V, s, Failed(t))
  BY <1>1, <1>2, <1>4, ReadsTransitive, FailedReads DEF Consumes
<1>6. more \in Seq(Symbols)
  <2>1. Folded(r.white) \in Seq(Symbols) /\ <<c>> \in Seq(Symbols)
    BY <1>1, <1>2, FoldedIsText
  <2>2. value \o Folded(r.white) \in Seq(Symbols)
    BY <1>1, <2>1
  <2>3. QED
    BY <2>1, <2>2
<1> HIDE DEF more, value
<1>7. ASSUME NEW there, Reads(V, s, there), NEW white PROVE Ended(there, white) \in S
  <2> DEFINE k == Key(there, white)
  <2>1. k \in BOOLEAN
    OBVIOUS
  <2> HIDE DEF k
  <2>2. Reads(V, s, [there EXCEPT !.simpleKeyAllowed = k])
    BY <1>7, <2>1, KeyAllowedReads
  <2>3. <<>> \in Seq(Symbols)
    OBVIOUS
  <2>4. Read([there EXCEPT !.simpleKeyAllowed = k], value) \in S
    BY <1>1, <2>2, <2>3, ScalarsGrow
  <2>5. QED
    BY <2>4 DEF k
<1>8. /\ Read(Failed(t), value) \in S
      /\ Reading(next, value, run) \in S
      /\ Reading(Forward(t, 1), more, <<>>) \in S
  <2>1. <<>> \in Seq(Symbols)
    OBVIOUS
  <2>2. QED
    BY <1>1, <1>3, <1>5, <1>6, <2>1, ScalarsGrow
<1>9. Ended(t, r.white) \in S /\ Ended(next, run) \in S
  <2> HIDE DEF Ended, S
  <2> QED BY <1>1, <1>5, <1>7
<1>10. PlainTurn(r) \in {r, Ended(t, r.white), Ended(next, run), Read(Failed(t), value),
                         Reading(next, value, run), Reading(Forward(t, 1), more, <<>>)}
  <2>1. next = ForwardLines(t, Len(run))
    BY <1>3 DEF next
  <2>2. QED
    BY <2>1 DEF PlainTurn, t, value, c, w, run, more
<1>11. r \in S
  OBVIOUS
<1> HIDE DEF Ended, S
<1>12. QED
  BY <1>8, <1>9, <1>10, <1>11 DEF S

(* The first turn reads something, and so have the later ones.             *)
LEMMA PlainTurnConsumes ==
    ASSUME NEW V, NEW s \in ScannersOver(V), ~IsZ(Here(s)), ~EndsPlain(s),
           NEW r \in ScalarsFrom(V, s), r = Reading(s, <<>>, <<>>) \/ Consumes(V, s, r.s)
    PROVE  Consumes(V, s, PlainTurn(r).s)
<1>1. CASE Consumes(V, s, r.s)
  <2> DEFINE t == r.s
             p == PlainTurn(r)
  <2>1. t \in ScannersOver(V) /\ r \in ScalarsFrom(V, t)
    BY StaysReads DEF ScalarsFrom
  <2> HIDE DEF t
  <2>2. p \in ScalarsFrom(V, t)
    BY <2>1, PlainTurnReads
  <2> HIDE DEF p
  <2>3. Reads(V, t, p.s)
    BY <2>2 DEF ScalarsFrom
  <2>4. Consumes(V, s, t)
    BY <1>1 DEF t
  <2>5. Consumes(V, s, p.s)
    BY <2>3, <2>4, ConsumesThenReads
  <2>6. QED
    BY <2>5 DEF p
<1>2. CASE r = Reading(s, <<>>, <<>>)
  <2> DEFINE w == WhiteRun(s)
             run == SubSeq(s.rest, 1, w)
             next == ForwardLines(s, w)
             k == next.simpleKeyAllowed \/ LineBreaks(run) > 0
             p == PlainTurn(r)
  <2>1. r.s = s /\ r.white = <<>> /\ ~r.done
    BY <1>2 DEF Reading
  <2>2. s.rest # <<>>
    BY HereIsChar
  <2>3. w \in 0..Len(s.rest) /\ run \in Seq(Symbols) /\ Len(run) = w
    BY WhiteRunBound
  <2>4. \/ p.s = Failed(s)
        \/ run = <<>> /\ p.s = Forward(s, 1)
        \/ run # <<>> /\ p.s \in {next, [next EXCEPT !.simpleKeyAllowed = k]}
    <3> HIDE DEF w, run
    <3>1. next = ForwardLines(s, Len(run))
      BY <2>3
    <3> HIDE DEF next
    <3>2. QED
      BY <2>1, <3>1 DEF PlainTurn, Read, Reading, run, w
  <2> HIDE DEF p, run, w
  <2>5. Consumes(V, s, Forward(s, 1)) /\ Consumes(V, s, Failed(s))
    BY <2>2, ForwardReads, StaysReads
  <2>6. run # <<>> => Consumes(V, s, next)
    <3>1. run # <<>> => w > 0
      BY <2>3
    <3>2. QED
      BY <2>3, <3>1, ForwardLinesReads
  <2>7. k \in BOOLEAN
    OBVIOUS
  <2> HIDE DEF next, k
  <2>8. run # <<>> => Consumes(V, s, [next EXCEPT !.simpleKeyAllowed = k])
    BY <2>6, <2>7, KeyAllowedReads DEF Consumes
  <2>9. QED
    BY <2>4, <2>5, <2>6, <2>8 DEF p
<1>3. QED
  BY <1>1, <1>2

(* The characters of a plain scalar, of which there is one.                *)
LEMMA PlainFromConsumes ==
    ASSUME NEW V, NEW s \in ScannersOver(V), ~IsZ(Here(s)), ~EndsPlain(s)
    PROVE  Consumes(V, s, PlainFrom(s).s)
<1> DEFINE n == CharacterTurns(s)
           a == Reading(s, <<>>, <<>>)
           A == {r \in ScalarsFrom(V, s) : r = a \/ Consumes(V, s, r.s)}
           g == [r \in A |-> PlainTurn(r)]
           Is(f) == f = [i \in 0..n |-> IF i = 0 THEN a ELSE PlainTurn(f[i - 1])]
           c == CHOOSE f : Is(f)
<1>1. n \in Nat
  BY TurnsAreCounted
<1>2. PlainFrom(s) = c[n]
  BY DEF PlainFrom, Loop
<1>3. a \in A
  <2>1. <<>> \in Seq(Symbols) /\ Reads(V, s, s)
    BY StaysReads
  <2>2. QED
    BY <2>1, ScalarsGrow
<1>4. ASSUME NEW r \in A PROVE PlainTurn(r) \in A
  <2>1. r \in ScalarsFrom(V, s) /\ PlainTurn(r) \in ScalarsFrom(V, s)
    BY PlainTurnReads
  <2>2. Consumes(V, s, PlainTurn(r).s)
    BY PlainTurnConsumes
  <2>3. QED
    BY <2>1, <2>2
<1> HIDE DEF n, A, a
<1>5. g \in [A -> A]
  BY <1>4
<1> HIDE DEF g
<1>6. PICK f : TurnsFrom(A, n, a, g, f)
  BY <1>1, <1>3, <1>5, TurnsExist
<1>7. Is(f)
  <2>1. \A i \in 1..n : f[i - 1] \in A
    BY <1>1, <1>6 DEF TurnsFrom
  <2>2. \A i \in 1..n : f[i] = PlainTurn(f[i - 1])
    BY <1>6, <2>1 DEF TurnsFrom, g
  <2>3. f = [i \in 0..n |-> f[i]] /\ f[0] = a
    BY <1>6 DEF TurnsFrom
  <2>4. \A i \in 0..n : i # 0 => i \in 1..n
    BY <1>1
  <2>5. QED
    BY <2>2, <2>3, <2>4, Zenon
<1>8. Is(c)
  <2> HIDE DEF Is
  <2> QED BY <1>7
<1> HIDE DEF c
<1>9. c[0] = a /\ \A i \in 1..n : c[i] = PlainTurn(c[i - 1])
  <2> DEFINE e == [i \in 0..n |-> IF i = 0 THEN a ELSE PlainTurn(c[i - 1])]
  <2>1. e[0] = a /\ \A i \in 1..n : e[i] = PlainTurn(c[i - 1])
    BY <1>1
  <2>2. QED
    BY <1>8, <2>1, Zenon
<1>10. \A i \in 1..n : c[i - 1] \in A => c[i] \in A
  BY <1>4, <1>9
<1>11. \A i \in 0..n : c[i] \in A
  BY <1>1, <1>3, <1>9, <1>10, LoopStays
<1>12. n - 1 \in 0..n /\ n \in 1..n
  BY Fields DEF n, CharacterTurns
<1>13. c[n - 1] \in A /\ c[n] = PlainTurn(c[n - 1])
  BY <1>9, <1>11, <1>12
<1>14. Consumes(V, s, PlainTurn(c[n - 1]).s)
  BY <1>13, PlainTurnConsumes DEF A, a
<1>15. QED
  BY <1>2, <1>13, <1>14

(* yaml_parser_scan_plain_scalar, where it is called.                      *)
LEMMA PlainScalarScans ==
    ASSUME NEW V, NEW s \in ScannersOver(V), ~IsZ(Here(s)), ~EndsPlain(s)
    PROVE  Scans(V, s, ScanPlainScalar(s), {"SCALAR"})
<1>1. /\ ScanPlainScalar(s).s = PlainFrom(s).s
      /\ ScanPlainScalar(s).token.type = "SCALAR"
  BY DEF ScanPlainScalar, Scanned, Token
<1>2. Consumes(V, s, PlainFrom(s).s)
  BY PlainFromConsumes
<1>3. QED
  BY <1>1, <1>2 DEF Scans

-----------------------------------------------------------------------------
(* Block scalars.                                                          *)
LEMMA ExtremesOfTwo ==
    ASSUME NEW a \in Int, NEW b \in Int
    PROVE  /\ Max({a, b}) \in {a, b} /\ Min({a, b}) \in {a, b}
           /\ Max({a, b}) >= a /\ Max({a, b}) >= b
<1>1. \E x \in {a, b} : \A y \in {a, b} : x >= y
  OBVIOUS
<1>2. \E x \in {a, b} : \A y \in {a, b} : x <= y
  OBVIOUS
<1>3. Max({a, b}) \in {a, b} /\ \A y \in {a, b} : Max({a, b}) >= y
  BY <1>1 DEF Max
<1>4. Min({a, b}) \in {a, b}
  BY <1>2 DEF Min
<1>5. QED
  BY <1>3, <1>4

LEMMA GreatestOfThree ==
    ASSUME NEW a \in Int, NEW b \in Int, NEW c \in Int
    PROVE  Max({a, b, c}) \in {a, b, c} /\ Max({a, b, c}) >= c
<1>1. \E x \in {a, b, c} : \A y \in {a, b, c} : x >= y
  OBVIOUS
<1>2. Max({a, b, c}) \in {a, b, c} /\ \A y \in {a, b, c} : Max({a, b, c}) >= y
  BY <1>1 DEF Max
<1>3. QED
  BY <1>2

(* The value of a digit is a number.                                       *)
LEMMA DigitsAreNumbers ==
    ASSUME NEW c, IsDigit(c)
    PROVE  DigitValue(c) \in Nat
<1>1. \E n \in 0..9 : DigitOrder[n + 1] = c
  <2>1. /\ DigitOrder[0 + 1] = "0" /\ DigitOrder[1 + 1] = "1" /\ DigitOrder[2 + 1] = "2"
        /\ DigitOrder[3 + 1] = "3" /\ DigitOrder[4 + 1] = "4" /\ DigitOrder[5 + 1] = "5"
        /\ DigitOrder[6 + 1] = "6" /\ DigitOrder[7 + 1] = "7" /\ DigitOrder[8 + 1] = "8"
        /\ DigitOrder[9 + 1] = "9"
    BY DEF DigitOrder
  <2>2. c \in Digits
    BY DEF IsDigit
  <2>3. /\ 0 \in 0..9 /\ 1 \in 0..9 /\ 2 \in 0..9 /\ 3 \in 0..9 /\ 4 \in 0..9
        /\ 5 \in 0..9 /\ 6 \in 0..9 /\ 7 \in 0..9 /\ 8 \in 0..9 /\ 9 \in 0..9
    OBVIOUS
  <2>4. QED
    BY <2>1, <2>2, <2>3, Zenon DEF Digits
<1>2. DigitValue(c) \in 0..9
  BY <1>1 DEF DigitValue
<1>3. QED
  BY <1>2

(* What a turn of yaml_parser_scan_block_scalar_breaks keeps.              *)
BreaksFrom(V, s) ==
    {r \in [s : ScannersOver(V), widest : Nat, breaks : Nat] : Reads(V, s, r.s)}

LEMMA BreaksTurnReads ==
    ASSUME NEW V, NEW s \in ScannersOver(V), NEW r \in BreaksFrom(V, s), NEW indent \in Nat
    PROVE  BreaksTurn(r, indent) \in BreaksFrom(V, s)
<1> DEFINE t == r.s
           stops == {i \in DOMAIN t.rest : ~IsSpace(t.rest[i])}
           free == IF stops = {} THEN Len(t.rest) ELSE Min(stops) - 1
           d == indent - t.column
           missing == Max({d, 0})
           least == IF indent = 0 THEN free ELSE Min({free, missing})
           line == Forward(t, least)
           width == Max({r.widest, line.column})
           k == r.breaks + 1
<1>1. t \in ScannersOver(V) /\ r.widest \in Nat /\ r.breaks \in Nat /\ Reads(V, s, t)
  BY DEF BreaksFrom
<1>2. BreaksTurn(r, indent) =
          IF IsBreak(Here(line))
          THEN [s |-> SkipLine(line), widest |-> width, breaks |-> k]
          ELSE [s |-> line, widest |-> width, breaks |-> r.breaks]
  BY DEF BreaksTurn, Span
<1> HIDE DEF t
<1>3. free \in Nat
  <2>1. t.rest \in Seq(Symbols) /\ Len(t.rest) \in Nat /\ stops \subseteq DOMAIN t.rest
    BY <1>1, Fields
  <2> HIDE DEF stops
  <2>2. free \in 0..Len(t.rest)
    BY <2>1, SpanLength
  <2> HIDE DEF free
  <2>3. QED
    BY <2>1, <2>2
<1> HIDE DEF free
<1>4. missing \in Nat
  <2>1. d \in Int /\ 0 \in Int
    BY <1>1, Fields
  <2> HIDE DEF d
  <2>2. missing \in {d, 0} /\ missing >= 0
    BY <2>1, ExtremesOfTwo
  <2>3. QED
    BY <2>1, <2>2
<1> HIDE DEF missing
<1>5. least \in Nat
  <2>1. free \in Int /\ missing \in Int
    BY <1>3, <1>4
  <2>2. Min({free, missing}) \in {free, missing}
    BY <2>1, ExtremesOfTwo
  <2>3. QED
    BY <1>3, <1>4, <2>2
<1> HIDE DEF least
<1>6. Reads(V, t, line)
  BY <1>1, <1>5, ForwardReads
<1> HIDE DEF line
<1>7. Reads(V, s, line) /\ line \in ScannersOver(V)
  BY <1>1, <1>6, ReadsTransitive DEF Reads
<1>8. Reads(V, line, SkipLine(line))
  BY <1>7, SkipLineReads
<1>9. Reads(V, s, SkipLine(line)) /\ SkipLine(line) \in ScannersOver(V)
  BY <1>7, <1>8, ReadsTransitive DEF Reads
<1>10. width \in Nat
  <2> DEFINE p == r.widest
             q == line.column
  <2>1. /\ p \in Nat /\ q \in Nat /\ p \in Int /\ q \in Int
        /\ width = Max({p, q})
    BY <1>1, <1>7, Fields
  <2> HIDE DEF p, q
  <2>2. Max({p, q}) \in {p, q}
    BY <2>1, ExtremesOfTwo
  <2>3. QED
    BY <2>1, <2>2
<1>11. k \in Nat
  BY <1>1
<1> HIDE DEF width, k
<1>12. QED
  BY <1>1, <1>2, <1>7, <1>9, <1>10, <1>11 DEF BreaksFrom

BreaksLoop(s, indent) ==
    Loop(LAMBDA r : BreaksTurn(r, indent), [s |-> s, widest |-> 0, breaks |-> 0], LineTurns(s))

(* All turns of it.                                                        *)
LEMMA BreaksLoopReads ==
    ASSUME NEW V, NEW s \in ScannersOver(V), NEW indent \in Nat
    PROVE  BreaksLoop(s, indent) \in BreaksFrom(V, s)
<1> DEFINE n == LineTurns(s)
           a == [s |-> s, widest |-> 0, breaks |-> 0]
           A == BreaksFrom(V, s)
           g == [r \in A |-> BreaksTurn(r, indent)]
           Is(f) == f = [i \in 0..n |-> IF i = 0 THEN a ELSE BreaksTurn(f[i - 1], indent)]
           c == CHOOSE f : Is(f)
<1>1. n \in Nat
  BY TurnsAreCounted
<1>2. BreaksLoop(s, indent) = c[n]
  BY DEF BreaksLoop, Loop
<1>3. a \in A
  BY StaysReads DEF BreaksFrom
<1>4. ASSUME NEW r \in A PROVE BreaksTurn(r, indent) \in A
  BY BreaksTurnReads
<1> HIDE DEF n, A, a
<1>5. g \in [A -> A]
  BY <1>4
<1> HIDE DEF g
<1>6. PICK f : TurnsFrom(A, n, a, g, f)
  BY <1>1, <1>3, <1>5, TurnsExist
<1>7. Is(f)
  <2>1. \A i \in 1..n : f[i - 1] \in A
    BY <1>1, <1>6 DEF TurnsFrom
  <2>2. \A i \in 1..n : f[i] = BreaksTurn(f[i - 1], indent)
    BY <1>6, <2>1 DEF TurnsFrom, g
  <2>3. f = [i \in 0..n |-> f[i]] /\ f[0] = a
    BY <1>6 DEF TurnsFrom
  <2>4. \A i \in 0..n : i # 0 => i \in 1..n
    BY <1>1
  <2>5. QED
    BY <2>2, <2>3, <2>4, Zenon
<1>8. Is(c)
  <2> HIDE DEF Is
  <2> QED BY <1>7
<1> HIDE DEF c
<1>9. c[0] = a /\ \A i \in 1..n : c[i] = BreaksTurn(c[i - 1], indent)
  <2> DEFINE e == [i \in 0..n |-> IF i = 0 THEN a ELSE BreaksTurn(c[i - 1], indent)]
  <2>1. e[0] = a /\ \A i \in 1..n : e[i] = BreaksTurn(c[i - 1], indent)
    BY <1>1
  <2>2. QED
    BY <1>8, <2>1, Zenon
<1>10. \A i \in 1..n : c[i - 1] \in A => c[i] \in A
  BY <1>4, <1>9
<1>11. \A i \in 0..n : c[i] \in A
  BY <1>1, <1>3, <1>9, <1>10, LoopStays
<1>12. c[n] \in A
  BY <1>1, <1>11
<1>13. QED
  BY <1>2, <1>12 DEF A

(* yaml_parser_scan_block_scalar_breaks: the breaks are text, and the      *)
(* indentation is a number.                                                *)
BreaksFound(V, s) ==
    {r \in [s : ScannersOver(V), breaks : Seq(Symbols), indent : Nat] : Reads(V, s, r.s)}

LEMMA BlockBreaksRead ==
    ASSUME NEW V, NEW s \in ScannersOver(V), NEW indent \in Nat
    PROVE  BlockBreaks(s, indent) \in BreaksFound(V, s)
<1> DEFINE end == BreaksLoop(s, indent)
           messed == IsTab(Here(end.s)) /\ (indent = 0 \/ end.s.column < indent)
           there == IF messed THEN Failed(end.s) ELSE end.s
           breaks == BreakSeq(end.breaks)
           w == end.widest
           d == s.indent + 1
           m == Max({w, d, 1})
           found == IF indent # 0 THEN indent ELSE m
<1>1. BlockBreaks(s, indent) = [s |-> there, breaks |-> breaks, indent |-> found]
  BY DEF BlockBreaks, BreaksLoop, Unless
<1>2. end \in BreaksFrom(V, s)
  BY BreaksLoopReads
<1> HIDE DEF end
<1>3. /\ end.s \in ScannersOver(V) /\ end.widest \in Nat /\ end.breaks \in Nat
      /\ Reads(V, s, end.s)
  BY <1>2 DEF BreaksFrom
<1>4. Reads(V, s, Failed(end.s))
  BY <1>3, FailedReads DEF Consumes
<1>5. Reads(V, s, there) /\ there \in ScannersOver(V)
  BY <1>3, <1>4 DEF Reads
<1> HIDE DEF messed, there
<1>6. breaks \in Seq(Symbols)
  <2> DEFINE n == end.breaks
             nl == "\n"
  <2>1. breaks = [i \in 1..n |-> nl] /\ n \in Nat /\ nl \in Symbols
    BY <1>3 DEF BreakSeq, Symbols
  <2> HIDE DEF n, nl
  <2>2. QED
    BY <2>1
<1> HIDE DEF breaks
<1>7. found \in Nat
  <2>1. w \in Int /\ d \in Int /\ 1 \in Int
    BY <1>3, Fields
  <2> HIDE DEF w, d
  <2>2. m \in {w, d, 1} /\ m >= 1
    BY <2>1, GreatestOfThree
  <2> HIDE DEF m
  <2>3. m \in Nat
    BY <2>1, <2>2
  <2>4. QED
    BY <2>3
<1> HIDE DEF found
<1>8. QED
  BY <1>1, <1>5, <1>6, <1>7 DEF BreaksFound

(* The lines of a block scalar.                                            *)
LinesFrom(V, s) == [next : BreaksFound(V, s), value : Seq(Symbols),
                    leading : Seq(Symbols), leadingBlank : BOOLEAN]

LEMMA JoinedIsText ==
    ASSUME NEW literal, NEW leading \in Seq(Symbols), NEW trailing \in Seq(Symbols),
           NEW leadingBlank, NEW trailingBlank
    PROVE  Joined(literal, leading, trailing, leadingBlank, trailingBlank) \in Seq(Symbols)
<1> DEFINE space == " "
           joined == IF ~literal /\ leading # <<>> /\ ~leadingBlank /\ ~trailingBlank
                     THEN IF trailing = <<>> THEN <<space>> ELSE <<>>
                     ELSE leading
<1>1. Joined(literal, leading, trailing, leadingBlank, trailingBlank) = joined \o trailing
  BY DEF Joined
<1>2. space \in Symbols
  BY DEF Symbols
<1> HIDE DEF space
<1>3. <<space>> \in Seq(Symbols) /\ <<>> \in Seq(Symbols)
  BY <1>2
<1>4. joined \in Seq(Symbols)
  BY <1>3
<1> HIDE DEF joined
<1>5. QED
  BY <1>1, <1>4

LEMMA LineTurnReads ==
    ASSUME NEW V, NEW s \in ScannersOver(V), NEW r \in LinesFrom(V, s), NEW literal
    PROVE  LineTurn(r, literal) \in LinesFrom(V, s)
<1> DEFINE t == r.next.s
           stops == {i \in DOMAIN t.rest : ~~IsBreakZ(t.rest[i])}
           width == IF stops = {} THEN Len(t.rest) ELSE Min(stops) - 1
           blank == IsBlank(Here(t))
           end == Forward(t, width)
           line == SkipLine(end)
           next == BlockBreaks(line, r.next.indent)
           text == SubSeq(t.rest, 1, width)
           joined == Joined(literal, r.leading, r.next.breaks, r.leadingBlank, blank)
           value == r.value \o joined \o text
           leading == IF IsBreak(Here(end)) THEN <<"\n">> ELSE <<>>
<1>1. /\ t \in ScannersOver(V) /\ r.next.indent \in Nat /\ r.next.breaks \in Seq(Symbols)
      /\ Reads(V, s, t) /\ r.value \in Seq(Symbols) /\ r.leading \in Seq(Symbols)
  BY DEF LinesFrom, BreaksFound
<1>2. LineTurn(r, literal) =
          IF t.error \/ t.column # r.next.indent \/ IsZ(Here(t)) THEN r
          ELSE [next |-> next, value |-> value, leading |-> leading, leadingBlank |-> blank]
  BY DEF LineTurn, Lines, Span
<1> HIDE DEF t
<1>3. t.rest \in Seq(Symbols) /\ Len(t.rest) \in Nat
  BY <1>1, Fields
<1>4. width \in Nat /\ width \in 0..Len(t.rest)
  <2>1. stops \subseteq DOMAIN t.rest
    OBVIOUS
  <2> HIDE DEF stops
  <2>2. width \in 0..Len(t.rest)
    BY <1>3, <2>1, SpanLength
  <2> HIDE DEF width
  <2>3. QED
    BY <1>3, <2>2
<1> HIDE DEF width
<1>5. Reads(V, t, end)
  BY <1>1, <1>4, ForwardReads
<1>6. Reads(V, s, end) /\ end \in ScannersOver(V)
  BY <1>1, <1>5, ReadsTransitive DEF Reads
<1> HIDE DEF end
<1>7. Reads(V, end, line)
  BY <1>6, SkipLineReads
<1>8. Reads(V, s, line) /\ line \in ScannersOver(V)
  BY <1>6, <1>7, ReadsTransitive DEF Reads
<1> HIDE DEF line
<1>9. next \in BreaksFound(V, s)
  <2>1. next \in BreaksFound(V, line)
    BY <1>1, <1>8, BlockBreaksRead
  <2> HIDE DEF next
  <2>2. Reads(V, line, next.s)
    BY <2>1 DEF BreaksFound
  <2>3. Reads(V, s, next.s)
    BY <1>8, <2>2, ReadsTransitive
  <2>4. QED
    BY <2>1, <2>3 DEF BreaksFound
<1> HIDE DEF next
<1>10. text \in Seq(Symbols)
  BY <1>3, <1>4
<1> HIDE DEF text
<1>11. joined \in Seq(Symbols)
  BY <1>1, JoinedIsText
<1> HIDE DEF joined
<1>12. value \in Seq(Symbols)
  BY <1>1, <1>10, <1>11
<1> HIDE DEF value
<1>13. leading \in Seq(Symbols)
  <2> DEFINE nl == "\n"
  <2>1. nl \in Symbols /\ leading = IF IsBreak(Here(end)) THEN <<nl>> ELSE <<>>
    BY DEF Symbols
  <2> HIDE DEF nl, leading
  <2>2. QED
    BY <2>1
<1>14. blank \in BOOLEAN
  BY DEF IsBlank
<1> HIDE DEF leading, blank
<1>15. QED
  BY <1>2, <1>9, <1>12, <1>13, <1>14 DEF LinesFrom

(* All lines of it.                                                        *)
LEMMA LinesLoopReads ==
    ASSUME NEW V, NEW s \in ScannersOver(V), NEW next \in BreaksFound(V, s), NEW literal
    PROVE  BlockLines(next, literal) \in LinesFrom(V, s)
<1> DEFINE n == LineTurns(next.s)
           a == Lines(next, <<>>, <<>>, FALSE)
           A == LinesFrom(V, s)
           g == [r \in A |-> LineTurn(r, literal)]
           Is(f) == f = [i \in 0..n |-> IF i = 0 THEN a ELSE LineTurn(f[i - 1], literal)]
           c == CHOOSE f : Is(f)
<1>1. n \in Nat
  BY TurnsAreCounted DEF BreaksFound
<1>2. BlockLines(next, literal) = c[n]
  BY DEF BlockLines, Loop
<1>3. a \in A
  <2>1. <<>> \in Seq(Symbols) /\ FALSE \in BOOLEAN
    OBVIOUS
  <2>2. QED
    BY <2>1 DEF Lines, LinesFrom
<1>4. ASSUME NEW r \in A PROVE LineTurn(r, literal) \in A
  BY LineTurnReads
<1> HIDE DEF n, A, a
<1>5. g \in [A -> A]
  BY <1>4
<1> HIDE DEF g
<1>6. PICK f : TurnsFrom(A, n, a, g, f)
  BY <1>1, <1>3, <1>5, TurnsExist
<1>7. Is(f)
  <2>1. \A i \in 1..n : f[i - 1] \in A
    BY <1>1, <1>6 DEF TurnsFrom
  <2>2. \A i \in 1..n : f[i] = LineTurn(f[i - 1], literal)
    BY <1>6, <2>1 DEF TurnsFrom, g
  <2>3. f = [i \in 0..n |-> f[i]] /\ f[0] = a
    BY <1>6 DEF TurnsFrom
  <2>4. \A i \in 0..n : i # 0 => i \in 1..n
    BY <1>1
  <2>5. QED
    BY <2>2, <2>3, <2>4, Zenon
<1>8. Is(c)
  <2> HIDE DEF Is
  <2> QED BY <1>7
<1> HIDE DEF c
<1>9. c[0] = a /\ \A i \in 1..n : c[i] = LineTurn(c[i - 1], literal)
  <2> DEFINE e == [i \in 0..n |-> IF i = 0 THEN a ELSE LineTurn(c[i - 1], literal)]
  <2>1. e[0] = a /\ \A i \in 1..n : e[i] = LineTurn(c[i - 1], literal)
    BY <1>1
  <2>2. QED
    BY <1>8, <2>1, Zenon
<1>10. \A i \in 1..n : c[i - 1] \in A => c[i] \in A
  BY <1>4, <1>9
<1>11. \A i \in 0..n : c[i] \in A
  BY <1>1, <1>3, <1>9, <1>10, LoopStays
<1>12. c[n] \in A
  BY <1>1, <1>11
<1>13. QED
  BY <1>2, <1>12 DEF A

(* The header is read, and the increment is a number.                      *)
LEMMA HeaderReads ==
    ASSUME NEW V, NEW s \in ScannersOver(V), s.rest # <<>>
    PROVE  Consumes(V, s, Header(s).s) /\ Header(s).increment \in Nat
<1> DEFINE Chomps(k) == Ahead(s, k) \in {"+", "-"}
           Indents(k) == IsDigit(Ahead(s, k))
           chompAt  == IF Chomps(1) THEN {1} ELSE IF Indents(1) /\ Chomps(2) THEN {2} ELSE {}
           indentAt == IF Indents(1) THEN {1} ELSE IF Chomps(1) /\ Indents(2) THEN {2} ELSE {}
           zero     == \E k \in indentAt : Ahead(s, k) = "0"
           both == chompAt \cup indentAt
           n == 1 + Cardinality(both)
           f == Forward(s, n)
           u == IF zero THEN Failed(f) ELSE f
           at == Max(indentAt)
           increment == IF indentAt = {} THEN 0 ELSE DigitValue(Ahead(s, at))
<1>1. Header(s).s = RestOfLine(u) /\ Header(s).increment = increment
  BY DEF Header, Unless
<1>2. n \in Nat /\ n > 0
  <2> DEFINE two == 2
  <2>1. both \subseteq 1..two /\ two \in Nat
    OBVIOUS
  <2> HIDE DEF both, two
  <2>2. IsFiniteSet(1..two)
    BY <2>1, FS_Interval
  <2>3. IsFiniteSet(both)
    BY <2>1, <2>2, FS_Subset
  <2>4. Cardinality(both) \in Nat
    BY <2>3, FS_CardinalityType
  <2>5. QED
    BY <2>4
<1> HIDE DEF n, zero
<1>3. Consumes(V, s, f) /\ f \in ScannersOver(V)
  BY <1>2, ForwardReads DEF Reads
<1> HIDE DEF f
<1>4. Consumes(V, s, Failed(f))
  BY <1>3, FailedReads DEF Consumes
<1>5. Consumes(V, s, u) /\ u \in ScannersOver(V)
  BY <1>3, <1>4 DEF Consumes, Reads
<1> HIDE DEF u
<1>6. Reads(V, u, RestOfLine(u))
  BY <1>5, RestOfLineReads
<1>7. Consumes(V, s, RestOfLine(u))
  BY <1>5, <1>6, ConsumesThenReads
<1>8. increment \in Nat
  <2>1. CASE indentAt = {}
    BY <2>1
  <2>2. CASE indentAt # {}
    <3>1. indentAt \subseteq {1, 2} /\ \A k \in indentAt : IsDigit(Ahead(s, k))
      OBVIOUS
    <3> HIDE DEF indentAt
    <3>2. at \in indentAt
      <4>1. indentAt \subseteq 0..2 /\ 2 \in Nat
        BY <3>1
      <4>2. QED
        BY <2>2, <4>1, GreatestExists
    <3> DEFINE c == Ahead(s, at)
    <3>3. IsDigit(c)
      BY <3>1, <3>2
    <3> HIDE DEF c
    <3>4. DigitValue(c) \in Nat
      BY <3>3, DigitsAreNumbers
    <3>5. QED
      BY <2>2, <3>4 DEF c
  <2>3. QED
    BY <2>1, <2>2
<1>9. QED
  BY <1>1, <1>7, <1>8

(* yaml_parser_scan_block_scalar.                                          *)
LEMMA BlockScalarScans ==
    ASSUME NEW V, NEW s \in ScannersOver(V), s.rest # <<>>
    PROVE  Scans(V, s, ScanBlockScalar(s), {"SCALAR"})
<1> DEFINE header == Header(s)
           least == Max({s.indent, 0})
           indent == IF header.increment = 0 THEN 0 ELSE least + header.increment
           there == header.s
           next == BlockBreaks(there, indent)
           literal == Here(s) = "|"
           text == BlockLines(next, literal)
<1>1. ScanBlockScalar(s).s = text.next.s /\ ScanBlockScalar(s).token.type = "SCALAR"
  BY DEF ScanBlockScalar, Scanned, Token
<1>2. Consumes(V, s, there) /\ header.increment \in Nat
  BY HeaderReads
<1> HIDE DEF header
<1>3. indent \in Nat
  <2> DEFINE d == s.indent
  <2>1. d \in Int /\ 0 \in Int
    BY Fields
  <2>2. least = Max({d, 0})
    OBVIOUS
  <2> HIDE DEF d
  <2>3. Max({d, 0}) \in {d, 0} /\ Max({d, 0}) >= 0
    BY <2>1, ExtremesOfTwo
  <2> HIDE DEF least
  <2>4. least \in Nat
    BY <2>1, <2>2, <2>3
  <2>5. QED
    BY <1>2, <2>4
<1> HIDE DEF indent
<1>4. there \in ScannersOver(V)
  BY <1>2 DEF Consumes, Reads
<1> HIDE DEF there
<1>5. next \in BreaksFound(V, there)
  BY <1>3, <1>4, BlockBreaksRead
<1> HIDE DEF next, literal
<1>6. text \in LinesFrom(V, there)
  BY <1>4, <1>5, LinesLoopReads
<1> HIDE DEF text
<1>7. Reads(V, there, text.next.s)
  BY <1>6 DEF LinesFrom, BreaksFound
<1>8. Consumes(V, s, text.next.s)
  BY <1>2, <1>7, ConsumesThenReads
<1>9. QED
  BY <1>1, <1>8 DEF Scans

-----------------------------------------------------------------------------
(* The fields that are about the structure of what is read.                *)
SamePlace(s, t) ==
    /\ t.rest = s.rest /\ t.index = s.index /\ t.line = s.line /\ t.column = s.column
    /\ t.tokensParsed = s.tokensParsed /\ t.started = s.started /\ t.ended = s.ended

Set(s, f, d, ds, ks, q, a, e, t) ==
    t = [s EXCEPT !.flowLevel = f, !.indent = d, !.indents = ds, !.simpleKeys = ks,
                  !.tokens = q, !.simpleKeyAllowed = a, !.error = e]

Structured(V, s, f, d, ds, ks, q, a, e, t) ==
    /\ t \in ScannersOver(V)
    /\ t.flowLevel = f /\ t.indent = d /\ t.indents = ds /\ t.simpleKeys = ks
    /\ t.tokens = q /\ t.simpleKeyAllowed = a /\ t.error = e
    /\ SamePlace(s, t)

LEMMA FieldsSet ==
    ASSUME NEW V, NEW s \in ScannersOver(V), NEW f \in Nat, NEW d \in Nat \cup {-1},
           NEW ds \in Seq(Nat \cup {-1}), NEW ks \in Seq(KeySets), NEW q \in Seq(V),
           NEW a \in BOOLEAN, NEW e \in BOOLEAN, NEW t,
           Set(s, f, d, ds, ks, q, a, e, t)
    PROVE  Structured(V, s, f, d, ds, ks, q, a, e, t)
<1>1. t \in ScannersOver(V)
  BY DEF ScannersOver, Set
<1>2. /\ t.flowLevel = f /\ t.indent = d /\ t.indents = ds /\ t.simpleKeys = ks
      /\ t.tokens = q /\ t.simpleKeyAllowed = a /\ t.error = e
  BY DEF ScannersOver, Set
<1>3. SamePlace(s, t)
  BY DEF ScannersOver, Set, SamePlace
<1>4. QED
  BY <1>1, <1>2, <1>3 DEF Structured

(* ks with another key on the innermost level.                             *)
WithKey(ks, key, ls) ==
    /\ ls \in Seq(KeySets) /\ Len(ls) = Len(ks) /\ ls[Len(ks)] = key
    /\ \A i \in 1..(Len(ks) - 1) : ls[i] = ks[i]

LEMMA KeyReplaced ==
    ASSUME NEW ks \in Seq(KeySets), ks # <<>>, NEW key \in KeySets
    PROVE  WithKey(ks, key, Append(Front(ks), key))
<1> DEFINE front == Front(ks)
           ls == Append(front, key)
<1>1. front = SubSeq(ks, 1, Len(ks) - 1)
  BY DEF Front
<1>2. /\ front \in Seq(KeySets) /\ Len(front) = Len(ks) - 1 /\ Len(ks) \in Nat
      /\ \A i \in 1..(Len(ks) - 1) : front[i] = ks[i]
  BY <1>1, AllButLast
<1> HIDE DEF front
<1>3. /\ ls \in Seq(KeySets) /\ Len(ls) = Len(front) + 1
      /\ \A i \in 1..Len(front) : ls[i] = front[i]
      /\ ls[Len(front) + 1] = key
  BY <1>2, Appended
<1> HIDE DEF ls
<1>4. Len(ls) = Len(ks) /\ Len(front) + 1 = Len(ks)
  BY <1>2, <1>3
<1>5. QED
  BY <1>2, <1>3, <1>4 DEF WithKey, ls, front

(* Only the keys and the error have changed, if anything.                  *)
Rekeyed(V, s, t) ==
    /\ t \in ScannersOver(V) /\ SamePlace(s, t)
    /\ t.flowLevel = s.flowLevel /\ t.indent = s.indent /\ t.indents = s.indents
    /\ t.tokens = s.tokens /\ t.simpleKeyAllowed = s.simpleKeyAllowed
    /\ s.error => t.error
    /\ Len(t.simpleKeys) = Len(s.simpleKeys)

LEMMA SetKeyFields ==
    ASSUME NEW V, NEW s \in ScannersOver(V), s.simpleKeys # <<>>, NEW key \in KeySets
    PROVE  LET t == SetKey(s, key) IN
           /\ Rekeyed(V, s, t) /\ t.error = s.error
           /\ WithKey(s.simpleKeys, key, t.simpleKeys)
<1> DEFINE t == SetKey(s, key)
           ks == s.simpleKeys
           ls == Append(Front(ks), key)
<1>1. ks \in Seq(KeySets)
  BY Fields
<1>2. Set(s, s.flowLevel, s.indent, s.indents, ls, s.tokens, s.simpleKeyAllowed, s.error, t)
  BY DEF SetKey, ScannersOver, Set
<1> HIDE DEF t, ks
<1>3. WithKey(ks, key, ls)
  BY <1>1, KeyReplaced DEF ks
<1> HIDE DEF ls
<1>4. ls \in Seq(KeySets) /\ Len(ls) = Len(ks)
  BY <1>3 DEF WithKey
<1>5. Structured(V, s, s.flowLevel, s.indent, s.indents, ls, s.tokens,
                 s.simpleKeyAllowed, s.error, t)
  BY <1>2, <1>4, Fields, FieldsSet
<1>6. Rekeyed(V, s, t) /\ t.error = s.error /\ t.simpleKeys = ls
  BY <1>4, <1>5 DEF Structured, Rekeyed, ks
<1>7. QED
  BY <1>3, <1>6 DEF t, ks

LEMMA FailedFields ==
    ASSUME NEW V, NEW s \in ScannersOver(V)
    PROVE  Rekeyed(V, s, Failed(s)) /\ Failed(s).error /\ Failed(s).simpleKeys = s.simpleKeys
<1> DEFINE t == Failed(s)
           e == TRUE
<1>1. Set(s, s.flowLevel, s.indent, s.indents, s.simpleKeys, s.tokens,
          s.simpleKeyAllowed, e, t)
  BY DEF Failed, ScannersOver, Set
<1>2. e \in BOOLEAN
  OBVIOUS
<1> HIDE DEF t, e
<1>3. Structured(V, s, s.flowLevel, s.indent, s.indents, s.simpleKeys, s.tokens,
                 s.simpleKeyAllowed, e, t)
  BY <1>1, <1>2, Fields, FieldsSet
<1>4. QED
  BY <1>3 DEF Structured, Rekeyed, e, t

(* yaml_parser_remove_simple_key.                                          *)
LEMMA RemoveFields ==
    ASSUME NEW V, NEW s \in ScannersOver(V), s.simpleKeys # <<>>
    PROVE  LET t == RemoveSimpleKey(s) IN
           /\ Rekeyed(V, s, t)
           /\ ~t.error => WithKey(s.simpleKeys, {}, t.simpleKeys)
<1> DEFINE none == {}
<1>1. none \in KeySets
  BY DEF KeySets
<1>2. RemoveSimpleKey(s) = IF \E key \in CurrentKey(s) : key.required THEN Failed(s)
                           ELSE SetKey(s, none)
  BY DEF RemoveSimpleKey
<1> HIDE DEF none
<1>3. Rekeyed(V, s, Failed(s)) /\ Failed(s).error
  BY FailedFields
<1>4. Rekeyed(V, s, SetKey(s, none)) /\ WithKey(s.simpleKeys, none, SetKey(s, none).simpleKeys)
  BY <1>1, SetKeyFields
<1>5. QED
  BY <1>2, <1>3, <1>4 DEF none

(* yaml_parser_save_simple_key: the key is the next token and it is here.  *)
IsHere(s, key) ==
    /\ key \in Keys /\ key.number = s.tokensParsed + Len(s.tokens)
    /\ key.line = s.line /\ key.column = s.column

LEMMA SaveFields ==
    ASSUME NEW V, NEW s \in ScannersOver(V), s.simpleKeys # <<>>
    PROVE  LET t == SaveSimpleKey(s) IN
           /\ Rekeyed(V, s, t)
           /\ ~t.error => \/ t.simpleKeys = s.simpleKeys
                          \/ \E key : IsHere(s, key) /\ WithKey(s.simpleKeys, {key}, t.simpleKeys)
<1> DEFINE r == RemoveSimpleKey(s)
           key == [required |-> s.flowLevel = 0 /\ s.indent = s.column,
                   number |-> s.tokensParsed + Len(s.tokens),
                   index |-> s.index, line |-> s.line, column |-> s.column]
           u == SetKey(r, {key})
<1>1. SaveSimpleKey(s) = IF ~s.simpleKeyAllowed THEN s ELSE u
  BY DEF SaveSimpleKey
<1>2. Rekeyed(V, s, s) /\ s.tokens \in Seq(V) /\ s.simpleKeys \in Seq(KeySets)
  BY Fields DEF Rekeyed, SamePlace
<1>3. Rekeyed(V, s, r) /\ (~r.error => WithKey(s.simpleKeys, {}, r.simpleKeys))
  BY RemoveFields
<1>4. IsHere(s, key)
  <2>1. s.tokensParsed + Len(s.tokens) \in Nat
    BY <1>2, Fields
  <2>2. QED
    BY <2>1, Fields DEF IsHere, Keys
<1> HIDE DEF key, r
<1>5. r \in ScannersOver(V) /\ r.simpleKeys # <<>> /\ Len(r.simpleKeys) = Len(s.simpleKeys)
  BY <1>2, <1>3, Fields DEF Rekeyed
<1>6. {key} \in KeySets
  BY <1>4 DEF IsHere, KeySets
<1>7. Rekeyed(V, r, u) /\ u.error = r.error /\ WithKey(r.simpleKeys, {key}, u.simpleKeys)
  BY <1>5, <1>6, SetKeyFields
<1> HIDE DEF u
<1>8. Rekeyed(V, s, u)
  BY <1>3, <1>7 DEF Rekeyed, SamePlace
<1>9. ~u.error => WithKey(s.simpleKeys, {key}, u.simpleKeys)
  BY <1>3, <1>7 DEF WithKey
<1>10. QED
  BY <1>1, <1>2, <1>4, <1>8, <1>9

(* Some of the keys of a level.                                            *)
LEMMA FewerKeys ==
    ASSUME NEW K \in KeySets, NEW L, L \subseteq K
    PROVE  L \in KeySets
BY DEF KeySets

(* yaml_parser_stale_simple_keys.                                          *)
Fresh(s, ks, ls) ==
    /\ ls \in Seq(KeySets) /\ Len(ls) = Len(ks)
    /\ \A i \in 1..Len(ks) : ls[i] = {key \in ks[i] : ~Stale(s, key)}

LEMMA StaleFields ==
    ASSUME NEW V, NEW s \in ScannersOver(V)
    PROVE  LET t == StaleSimpleKeys(s) IN
           /\ Rekeyed(V, s, t)
           /\ ~t.error => Fresh(s, s.simpleKeys, t.simpleKeys)
<1> DEFINE ks == s.simpleKeys
           ls == [i \in DOMAIN ks |-> {key \in ks[i] : ~Stale(s, key)}]
           u == [s EXCEPT !.simpleKeys = ls]
<1>1. StaleSimpleKeys(s) = IF \E key \in PossibleKeys(s) : Stale(s, key) /\ key.required
                           THEN Failed(s) ELSE u
  BY DEF StaleSimpleKeys, ScannersOver
<1>2. Rekeyed(V, s, Failed(s)) /\ Failed(s).error
  BY FailedFields
<1>3. ks \in Seq(KeySets) /\ DOMAIN ks = 1..Len(ks) /\ Len(ks) \in Nat
  BY Fields
<1>4. Set(s, s.flowLevel, s.indent, s.indents, ls, s.tokens, s.simpleKeyAllowed, s.error, u)
  BY DEF ScannersOver, Set
<1> HIDE DEF ks
<1>5. Fresh(s, ks, ls)
  <2>1. ASSUME NEW i \in DOMAIN ks PROVE {key \in ks[i] : ~Stale(s, key)} \in KeySets
    <3> DEFINE K == ks[i]
               L == {key \in K : ~Stale(s, key)}
    <3>1. K \in KeySets /\ L \subseteq K
      BY <1>3
    <3> HIDE DEF K, L
    <3>2. L \in KeySets
      BY <3>1, FewerKeys
    <3>3. QED
      BY <3>2 DEF K, L
  <2>2. ls \in Seq(KeySets) /\ Len(ls) = Len(ks)
    BY <1>3, <2>1
  <2>3. QED
    BY <1>3, <2>2 DEF Fresh
<1> HIDE DEF ls, u
<1>6. ls \in Seq(KeySets) /\ Len(ls) = Len(ks)
  BY <1>5 DEF Fresh
<1>7. Structured(V, s, s.flowLevel, s.indent, s.indents, ls, s.tokens,
                 s.simpleKeyAllowed, s.error, u)
  BY <1>4, <1>6, Fields, FieldsSet
<1>8. Rekeyed(V, s, u) /\ u.simpleKeys = ls
  BY <1>6, <1>7 DEF Structured, Rekeyed, ks
<1>9. QED
  BY <1>1, <1>2, <1>5, <1>8 DEF ks

(* yaml_parser_increase_flow_level and yaml_parser_decrease_flow_level.    *)
LEMMA IncreaseFields ==
    ASSUME NEW V, NEW s \in ScannersOver(V)
    PROVE  LET t == IncreaseFlowLevel(s) IN
           /\ t \in ScannersOver(V) /\ SamePlace(s, t) /\ t.error = s.error
           /\ t.indent = s.indent /\ t.indents = s.indents /\ t.tokens = s.tokens
           /\ t.flowLevel = s.flowLevel + 1
           /\ t.simpleKeys = Append(s.simpleKeys, {})
<1> DEFINE ls == Append(s.simpleKeys, {})
           t == IncreaseFlowLevel(s)
           f == s.flowLevel + 1
<1>1. Set(s, f, s.indent, s.indents, ls, s.tokens, s.simpleKeyAllowed, s.error, t)
  BY DEF IncreaseFlowLevel, ScannersOver, Set
<1>2. ls \in Seq(KeySets) /\ f \in Nat
  <2> DEFINE none == {}
  <2>1. none \in KeySets /\ s.simpleKeys \in Seq(KeySets)
    BY Fields DEF KeySets
  <2> HIDE DEF none
  <2>2. Append(s.simpleKeys, none) \in Seq(KeySets)
    BY <2>1
  <2>3. QED
    BY <2>2, Fields DEF none
<1> HIDE DEF ls, f, t
<1>3. Structured(V, s, f, s.indent, s.indents, ls, s.tokens, s.simpleKeyAllowed, s.error, t)
  BY <1>1, <1>2, Fields, FieldsSet
<1>4. QED
  BY <1>3 DEF Structured, ls, f, t

LEMMA DecreaseFields ==
    ASSUME NEW V, NEW s \in ScannersOver(V), s.simpleKeys # <<>>
    PROVE  LET t == DecreaseFlowLevel(s) IN
           /\ t \in ScannersOver(V) /\ SamePlace(s, t) /\ t.error = s.error
           /\ t.indent = s.indent /\ t.indents = s.indents /\ t.tokens = s.tokens
           /\ s.flowLevel = 0 => t = s
           /\ s.flowLevel > 0 =>
                 /\ t.flowLevel = s.flowLevel - 1
                 /\ t.simpleKeys = SubSeq(s.simpleKeys, 1, Len(s.simpleKeys) - 1)
<1>1. CASE s.flowLevel = 0
  <2>1. DecreaseFlowLevel(s) = s /\ SamePlace(s, s)
    BY <1>1 DEF DecreaseFlowLevel, SamePlace
  <2>2. QED
    BY <1>1, <2>1
<1>2. CASE s.flowLevel # 0
  <2> DEFINE ls == SubSeq(s.simpleKeys, 1, Len(s.simpleKeys) - 1)
             t == DecreaseFlowLevel(s)
             f == s.flowLevel - 1
  <2>1. Set(s, f, s.indent, s.indents, ls, s.tokens, s.simpleKeyAllowed, s.error, t)
    BY <1>2 DEF DecreaseFlowLevel, ScannersOver, Set, Front
  <2>2. ls \in Seq(KeySets) /\ f \in Nat
    BY <1>2, Fields, AllButLast
  <2> HIDE DEF ls, f, t
  <2>3. Structured(V, s, f, s.indent, s.indents, ls, s.tokens, s.simpleKeyAllowed, s.error, t)
    BY <2>1, <2>2, Fields, FieldsSet
  <2>4. QED
    BY <1>2, <2>3 DEF Structured, ls, f, t
<1>3. QED
  BY <1>1, <1>2

LEMMA AllowFields ==
    ASSUME NEW V, NEW s \in ScannersOver(V), NEW a \in BOOLEAN
    PROVE  LET t == Allow(s, a) IN
           /\ t \in ScannersOver(V) /\ SamePlace(s, t) /\ SameStructure(s, t)
           /\ t.error = s.error
<1> DEFINE t == Allow(s, a)
<1>1. Set(s, s.flowLevel, s.indent, s.indents, s.simpleKeys, s.tokens, a, s.error, t)
  BY DEF Allow, ScannersOver, Set
<1> HIDE DEF t
<1>2. Structured(V, s, s.flowLevel, s.indent, s.indents, s.simpleKeys, s.tokens, a, s.error, t)
  BY <1>1, Fields, FieldsSet
<1>3. QED
  BY <1>2 DEF Structured, SameStructure, SamePlace, t

-----------------------------------------------------------------------------
(* The queue.                                                              *)
Requeued(V, s, q, t) ==
    /\ t \in ScannersOver(V) /\ SamePlace(s, t) /\ t.error = s.error
    /\ t.flowLevel = s.flowLevel /\ t.indent = s.indent /\ t.indents = s.indents
    /\ t.simpleKeys = s.simpleKeys /\ t.tokens = q

LEMMA QueueFields ==
    ASSUME NEW V, NEW s \in ScannersOver(V), NEW q \in Seq(V)
    PROVE  Requeued(V, s, q, [s EXCEPT !.tokens = q])
<1> DEFINE t == [s EXCEPT !.tokens = q]
<1>1. Set(s, s.flowLevel, s.indent, s.indents, s.simpleKeys, q, s.simpleKeyAllowed, s.error, t)
  BY DEF ScannersOver, Set
<1> HIDE DEF t
<1>2. Structured(V, s, s.flowLevel, s.indent, s.indents, s.simpleKeys, q,
                 s.simpleKeyAllowed, s.error, t)
  BY <1>1, Fields, FieldsSet
<1>3. QED
  BY <1>2 DEF Structured, Requeued, t

(* The tokens that the scanner makes of no text are there.                 *)
Vocabulary(V) == /\ \A v \in V : v.type \in TokenTypes
                 /\ \A type \in TokenTypes : Token(type, "", <<>>) \in V

LEMMA EnqueueFields ==
    ASSUME NEW V, Vocabulary(V), NEW s \in ScannersOver(V), NEW type \in TokenTypes
    PROVE  LET token == Token(type, "", <<>>) IN
           /\ token \in V /\ token.type = type
           /\ Requeued(V, s, Append(s.tokens, token), Enqueue(s, type))
<1> DEFINE token == Token(type, "", <<>>)
           q == Append(s.tokens, token)
<1>1. token \in V /\ token.type = type
  BY DEF Vocabulary, Token
<1> HIDE DEF token
<1>2. q \in Seq(V)
  BY <1>1, Fields, Appended
<1>3. Enqueue(s, type) = [s EXCEPT !.tokens = q]
  BY DEF Enqueue, ScannersOver, token
<1> HIDE DEF q
<1>4. Requeued(V, s, q, [s EXCEPT !.tokens = q])
  BY <1>2, QueueFields
<1>5. QED
  BY <1>1, <1>3, <1>4 DEF q, token

(* A token in front of another one.                                        *)
Inserted(q, i, e, r) ==
    /\ Len(r) = Len(q) + 1 /\ r[i] = e
    /\ \A k \in 1..(i - 1) : r[k] = q[k]
    /\ \A k \in i..Len(q) : r[k + 1] = q[k]

LEMMA InsertAtInserts ==
    ASSUME NEW V, NEW q \in Seq(V), NEW i \in DOMAIN q, NEW e \in V
    PROVE  InsertAt(q, i, e) \in Seq(V) /\ Inserted(q, i, e, InsertAt(q, i, e))
<1> DEFINE a == SubSeq(q, 1, i - 1)
           b == <<e>>
           c == SubSeq(q, i, Len(q))
           r == (a \o b) \o c
<1>1. InsertAt(q, i, e) = r
  BY DEF InsertAt
<1>2. Len(q) \in Nat /\ i \in 1..Len(q)
  OBVIOUS
<1>3. a \in Seq(V) /\ Len(a) = i - 1 /\ \A k \in 1..(i - 1) : a[k] = q[k]
  BY <1>2
<1>4. b \in Seq(V) /\ Len(b) = 1 /\ b[1] = e
  OBVIOUS
<1>5. c \in Seq(V) /\ Len(c) = Len(q) - i + 1 /\ \A k \in 1..(Len(q) - i + 1) : c[k] = q[i + k - 1]
  BY <1>2
<1> HIDE DEF a, b, c
<1>6. /\ a \o b \in Seq(V) /\ Len(a \o b) = Len(a) + Len(b)
      /\ \A k \in 1..Len(a) : (a \o b)[k] = a[k]
      /\ \A k \in 1..Len(b) : (a \o b)[Len(a) + k] = b[k]
  <2>1. a \in Seq(V) /\ b \in Seq(V)
    BY <1>3, <1>4
  <2>2. QED
    BY ONLY <2>1, Concatenation
<1> DEFINE ab == a \o b
<1>7. ab \in Seq(V) /\ Len(ab) = i /\ ab[i] = e /\ \A k \in 1..(i - 1) : ab[k] = q[k]
  <2>1. Len(a) + 1 = i /\ 1 \in 1..Len(b)
    BY <1>2, <1>3, <1>4
  <2>2. ab[Len(a) + 1] = b[1]
    BY <1>6, <2>1
  <2>3. QED
    BY <1>2, <1>3, <1>4, <1>6, <2>1, <2>2
<1> HIDE DEF ab
<1>8. /\ ab \o c \in Seq(V) /\ Len(ab \o c) = Len(ab) + Len(c)
      /\ \A k \in 1..Len(ab) : (ab \o c)[k] = ab[k]
      /\ \A k \in 1..Len(c) : (ab \o c)[Len(ab) + k] = c[k]
  <2>1. ab \in Seq(V) /\ c \in Seq(V)
    BY <1>5, <1>7
  <2>2. QED
    BY ONLY <2>1, Concatenation
<1>9. r = ab \o c
  BY DEF ab
<1> HIDE DEF r
<1>10. r \in Seq(V) /\ Len(r) = Len(q) + 1 /\ r[i] = e /\ \A k \in 1..(i - 1) : r[k] = q[k]
  <2>1. i \in 1..Len(ab) /\ \A k \in 1..(i - 1) : k \in 1..Len(ab)
    BY <1>2, <1>7
  <2>2. QED
    BY <1>2, <1>5, <1>7, <1>8, <1>9, <2>1
<1>11. ASSUME NEW k \in i..Len(q) PROVE r[k + 1] = q[k]
  <2> DEFINE j == k - i + 1
  <2> DEFINE m == Len(c)
             n == Len(q)
             l == Len(ab)
  <2>1. m = n - i + 1 /\ l = i /\ n \in Nat /\ i \in 1..n /\ k \in i..n
    BY <1>2, <1>5, <1>7
  <2> HIDE DEF m, n, l
  <2>2. j \in 1..m /\ l + j = k + 1 /\ i + j - 1 = k
    BY ONLY <2>1
  <2> HIDE DEF j
  <2>3. j \in 1..Len(c) /\ j \in 1..(Len(q) - i + 1) /\ l = Len(ab)
    BY <1>5, <2>2 DEF m, l
  <2>4. r[l + j] = c[j]
    BY <1>8, <1>9, <2>3
  <2>5. c[j] = q[i + j - 1]
    BY <1>5, <2>3
  <2>6. QED
    BY <2>2, <2>4, <2>5
<1>12. QED
  BY <1>1, <1>9, <1>10, <1>11 DEF Inserted

(* QUEUE_INSERT, at the place of a token that is in the queue.             *)
LEMMA QueueInsertFields ==
    ASSUME NEW V, Vocabulary(V), NEW s \in ScannersOver(V), NEW type \in TokenTypes,
           NEW number \in Nat, number - s.tokensParsed + 1 \in DOMAIN s.tokens
    PROVE  \E q \in Seq(V), e \in V :
               /\ e.type = type
               /\ Inserted(s.tokens, number - s.tokensParsed + 1, e, q)
               /\ Requeued(V, s, q, QueueInsert(s, number, type))
<1> DEFINE e == Token(type, "", <<>>)
           i == number - s.tokensParsed + 1
           q == InsertAt(s.tokens, i, e)
<1>1. e \in V /\ e.type = type
  BY DEF Vocabulary, Token
<1>2. QueueInsert(s, number, type) = [s EXCEPT !.tokens = q]
  BY DEF QueueInsert, ScannersOver
<1> HIDE DEF e
<1>3. s.tokens \in Seq(V) /\ i \in DOMAIN s.tokens
  BY Fields
<1> HIDE DEF i
<1>4. q \in Seq(V) /\ Inserted(s.tokens, i, e, q)
  BY <1>1, <1>3, InsertAtInserts
<1> HIDE DEF q
<1>5. Requeued(V, s, q, [s EXCEPT !.tokens = q])
  BY <1>4, QueueFields
<1>6. QED
  BY <1>1, <1>2, <1>4, <1>5 DEF i

-----------------------------------------------------------------------------
(* Indentation.                                                            *)
IndentLevels(s) == Append(s.indents, s.indent)

LEMMA LevelsOfIndents ==
    ASSUME NEW V, NEW s \in ScannersOver(V)
    PROVE  LET levels == IndentLevels(s) IN
           /\ levels \in Seq(Nat \cup {-1})
           /\ Len(s.indents) \in Nat /\ Len(levels) = Len(s.indents) + 1
           /\ DOMAIN levels = 1..Len(levels) /\ levels[Len(levels)] = s.indent
           /\ \A i \in 1..Len(s.indents) : levels[i] = s.indents[i]
<1> DEFINE S == Nat \cup {-1}
           q == s.indents
           d == s.indent
<1>1. q \in Seq(S) /\ d \in S /\ Len(q) \in Nat
  BY Fields
<1> HIDE DEF S, q, d
<1>2. /\ Append(q, d) \in Seq(S) /\ Len(Append(q, d)) = Len(q) + 1
      /\ \A i \in 1..Len(q) : Append(q, d)[i] = q[i]
      /\ Append(q, d)[Len(q) + 1] = d
  BY <1>1, Appended
<1>3. DOMAIN Append(q, d) = 1..Len(Append(q, d))
  BY <1>2
<1>4. QED
  BY <1>1, <1>2, <1>3 DEF IndentLevels, S, q, d

Indented(V, s, d, ds, q, t) ==
    /\ t \in ScannersOver(V) /\ SamePlace(s, t) /\ t.error = s.error
    /\ t.flowLevel = s.flowLevel /\ t.simpleKeys = s.simpleKeys
    /\ t.indent = d /\ t.indents = ds /\ t.tokens = q

LEMMA IndentFields ==
    ASSUME NEW V, NEW s \in ScannersOver(V), NEW d \in Nat \cup {-1},
           NEW ds \in Seq(Nat \cup {-1}), NEW q \in Seq(V), NEW t,
           Set(s, s.flowLevel, d, ds, s.simpleKeys, q, s.simpleKeyAllowed, s.error, t)
    PROVE  Indented(V, s, d, ds, q, t)
<1>1. Structured(V, s, s.flowLevel, d, ds, s.simpleKeys, q, s.simpleKeyAllowed, s.error, t)
  BY Fields, FieldsSet
<1>2. QED
  BY <1>1 DEF Structured, Indented

(* yaml_parser_roll_indent, one level deeper.                              *)
Rolled(s, column) == [s EXCEPT !.indents = Append(@, s.indent), !.indent = column]

LEMMA RolledFields ==
    ASSUME NEW V, NEW s \in ScannersOver(V), NEW column \in Nat
    PROVE  Indented(V, s, column, IndentLevels(s), s.tokens, Rolled(s, column))
<1> DEFINE t == Rolled(s, column)
           ds == IndentLevels(s)
<1>1. Set(s, s.flowLevel, column, ds, s.simpleKeys, s.tokens, s.simpleKeyAllowed, s.error, t)
  BY DEF Rolled, ScannersOver, Set, IndentLevels
<1>2. ds \in Seq(Nat \cup {-1})
  BY LevelsOfIndents
<1> HIDE DEF t, ds
<1>3. Indented(V, s, column, ds, s.tokens, t)
  BY <1>1, <1>2, Fields, IndentFields
<1>4. QED
  BY <1>3 DEF ds, t

(* ... at the end of the queue.                                            *)
LEMMA RollFields ==
    ASSUME NEW V, Vocabulary(V), NEW s \in ScannersOver(V), NEW column \in Nat,
           NEW type \in TokenTypes
    PROVE  LET t == RollIndent(s, column, {}, type) IN
           \/ t = s /\ (s.flowLevel > 0 \/ s.indent >= column)
           \/ /\ s.flowLevel = 0 /\ s.indent < column
              /\ \E e \in V : /\ e.type = type
                              /\ Indented(V, s, column, IndentLevels(s), Append(s.tokens, e), t)
<1> DEFINE r == Rolled(s, column)
           token == Token(type, "", <<>>)
<1>1. RollIndent(s, column, {}, type) = IF s.flowLevel > 0 \/ s.indent >= column THEN s
                                        ELSE Enqueue(r, type)
  BY DEF RollIndent, Rolled
<1>2. Indented(V, s, column, IndentLevels(s), s.tokens, r)
  BY RolledFields
<1> HIDE DEF r
<1>3. r \in ScannersOver(V)
  BY <1>2 DEF Indented
<1>4. token \in V /\ token.type = type /\ Requeued(V, r, Append(r.tokens, token), Enqueue(r, type))
  BY <1>3, EnqueueFields
<1> HIDE DEF token
<1>5. Indented(V, s, column, IndentLevels(s), Append(s.tokens, token), Enqueue(r, type))
  BY <1>2, <1>4 DEF Indented, Requeued, SamePlace
<1>6. s.flowLevel \in Nat /\ s.indent \in Int
  BY Fields
<1>7. QED
  BY <1>1, <1>4, <1>5, <1>6

(* ... in front of a token that waits.                                     *)
LEMMA RollInsertFields ==
    ASSUME NEW V, Vocabulary(V), NEW s \in ScannersOver(V), NEW column \in Nat,
           NEW type \in TokenTypes,
           NEW number \in Nat, number - s.tokensParsed + 1 \in DOMAIN s.tokens
    PROVE  LET t == RollIndent(s, column, {number}, type) IN
           \/ t = s /\ (s.flowLevel > 0 \/ s.indent >= column)
           \/ /\ s.flowLevel = 0 /\ s.indent < column
              /\ \E q \in Seq(V), e \in V :
                    /\ e.type = type
                    /\ Inserted(s.tokens, number - s.tokensParsed + 1, e, q)
                    /\ Indented(V, s, column, IndentLevels(s), q, t)
<1> DEFINE r == Rolled(s, column)
           place == number - s.tokensParsed + 1
<1>1. RollIndent(s, column, {number}, type) =
          IF s.flowLevel > 0 \/ s.indent >= column THEN s ELSE QueueInsert(r, number, type)
  <2>1. (CHOOSE n \in {number} : TRUE) = number /\ {number} # {}
    OBVIOUS
  <2>2. QED
    BY <2>1 DEF RollIndent, Rolled
<1>2. Indented(V, s, column, IndentLevels(s), s.tokens, r)
  BY RolledFields
<1> HIDE DEF r
<1>3. r \in ScannersOver(V) /\ r.tokensParsed = s.tokensParsed /\ r.tokens = s.tokens
  BY <1>2 DEF Indented, SamePlace
<1>4. PICK q \in Seq(V), e \in V :
          /\ e.type = type
          /\ Inserted(r.tokens, number - r.tokensParsed + 1, e, q)
          /\ Requeued(V, r, q, QueueInsert(r, number, type))
  BY <1>3, QueueInsertFields
<1>5. Inserted(s.tokens, place, e, q)
  BY <1>3, <1>4
<1>6. Indented(V, s, column, IndentLevels(s), q, QueueInsert(r, number, type))
  BY <1>2, <1>4 DEF Indented, Requeued, SamePlace
<1>7. s.flowLevel \in Nat /\ s.indent \in Int
  BY Fields
<1> DEFINE u == QueueInsert(r, number, type)
           t == RollIndent(s, column, {number}, type)
<1>8. t = (IF s.flowLevel > 0 \/ s.indent >= column THEN s ELSE u)
      /\ Indented(V, s, column, IndentLevels(s), q, u) /\ q \in Seq(V) /\ e \in V /\ e.type = type
  BY <1>1, <1>4, <1>6
<1> HIDE DEF u, t, place
<1>9. CASE s.flowLevel > 0 \/ s.indent >= column
  BY <1>8, <1>9 DEF t
<1>10. CASE ~(s.flowLevel > 0 \/ s.indent >= column)
  <2>1. s.flowLevel = 0 /\ s.indent < column /\ t = u
    BY <1>7, <1>8, <1>10
  <2>2. QED
    BY <1>5, <1>8, <2>1 DEF t, place
<1>11. QED
  BY <1>9, <1>10

(* yaml_parser_unroll_indent: the outermost level is never closed.         *)
Rooted(s) == /\ s.started /\ Len(s.simpleKeys) = s.flowLevel + 1
             /\ IndentLevels(s)[1] = -1
             /\ \A i \in 2..Len(IndentLevels(s)) : IndentLevels(s)[i] \in Nat

Unrolls(V, s, column, t) ==
    \E kept \in DOMAIN IndentLevels(s), ends \in Seq(V) :
        /\ IndentLevels(s)[kept] <= column
        /\ Len(ends) = Len(IndentLevels(s)) - kept
        /\ \A k \in DOMAIN ends : ends[k].type = "BLOCK-END"
        /\ Indented(V, s, IndentLevels(s)[kept], SubSeq(IndentLevels(s), 1, kept - 1),
                    s.tokens \o ends, t)

LEMMA UnrollFields ==
    ASSUME NEW V, Vocabulary(V), NEW s \in ScannersOver(V), NEW column \in Nat \cup {-1},
           Rooted(s)
    PROVE  LET t == UnrollIndent(s, column) IN
           \/ s.flowLevel > 0 /\ t = s
           \/ s.flowLevel = 0 /\ Unrolls(V, s, column, t)
<1> DEFINE levels == IndentLevels(s)
           S == {i \in DOMAIN levels : levels[i] <= column}
           kept == Max(S)
           n == Len(levels) - kept
           token == Token("BLOCK-END", "", <<>>)
           ends == [i \in 1..n |-> token]
           d == levels[kept]
           ds == SubSeq(levels, 1, kept - 1)
           q == s.tokens \o ends
           t == UnrollIndent(s, column)
<1>1. t = IF s.flowLevel > 0 THEN s
          ELSE [s EXCEPT !.indent = d, !.indents = ds, !.tokens = q]
  BY DEF UnrollIndent, IndentLevels, ScannersOver
<1>2. levels \in Seq(Nat \cup {-1}) /\ Len(levels) \in Nat /\ 1 \in DOMAIN levels
      /\ DOMAIN levels = 1..Len(levels)
  <2>1. /\ levels \in Seq(Nat \cup {-1}) /\ DOMAIN levels = 1..Len(levels)
        /\ Len(s.indents) \in Nat /\ Len(levels) = Len(s.indents) + 1
    BY LevelsOfIndents
  <2> HIDE DEF levels
  <2>2. QED
    BY <2>1
<1>3. levels[1] = -1 /\ -1 <= column
  BY DEF Rooted
<1> HIDE DEF levels
<1>4. kept \in S
  <2>1. S \subseteq 0..Len(levels) /\ S # {}
    BY <1>2, <1>3
  <2> HIDE DEF S
  <2>2. QED
    BY <1>2, <2>1, GreatestExists
<1>5. kept \in 1..Len(levels) /\ levels[kept] <= column
  BY <1>2, <1>4
<1> HIDE DEF kept, S
<1>6. token \in V /\ token.type = "BLOCK-END"
  <2>1. "BLOCK-END" \in TokenTypes
    BY DEF TokenTypes
  <2>2. QED
    BY <2>1 DEF Vocabulary, Token
<1> HIDE DEF token
<1>7. n \in Nat
  BY <1>2, <1>5
<1>8. ends \in Seq(V) /\ Len(ends) = n /\ \A k \in DOMAIN ends : ends[k].type = "BLOCK-END"
  BY <1>6, <1>7
<1>9. d \in Nat \cup {-1} /\ ds \in Seq(Nat \cup {-1})
  BY <1>2, <1>5
<1> HIDE DEF ends
<1>10. q \in Seq(V)
  BY <1>8, Fields
<1> DEFINE u == [s EXCEPT !.indent = d, !.indents = ds, !.tokens = q]
<1> HIDE DEF d, ds, q
<1>11. Set(s, s.flowLevel, d, ds, s.simpleKeys, q, s.simpleKeyAllowed, s.error, u)
  BY DEF ScannersOver, Set
<1> HIDE DEF u
<1>12. Indented(V, s, d, ds, q, u)
  BY <1>9, <1>10, <1>11, IndentFields
<1>13. Unrolls(V, s, column, u)
  BY <1>2, <1>5, <1>8, <1>12 DEF Unrolls, levels, d, ds, q
<1>14. t = IF s.flowLevel > 0 THEN s ELSE u
  BY <1>1 DEF u
<1> HIDE DEF t
<1>15. QED
  BY <1>13, <1>14, Fields DEF t

-----------------------------------------------------------------------------
(* What the caller will know once it has all the tokens in the queue.      *)
Givens == [token : TokenTypes \cup {"NO-TOKEN"}, blocks : Nat, flows : Nat,
           started : BOOLEAN]

DocumentTypes == {"STREAM-END", "DOCUMENT-START", "DOCUMENT-END", "VERSION-DIRECTIVE",
                  "TAG-DIRECTIVE"}

Settled(g) == g.token \notin {"BLOCK-MAPPING-START", "BLOCK-SEQUENCE-START"}

(* A token that may follow.                                                *)
Allowed(g, type) ==
    /\ g.token # "STREAM-END"
    /\ g.token = "BLOCK-MAPPING-START" => type \in {"KEY", "VALUE"}
    /\ g.token = "BLOCK-SEQUENCE-START" => type = "BLOCK-ENTRY"
    /\ (type = "STREAM-START") <=> ~g.started
    /\ type \in {"BLOCK-SEQUENCE-START", "BLOCK-MAPPING-START"} => g.flows = 0
    /\ type = "BLOCK-END" => g.flows = 0 /\ g.blocks > 0
    /\ type \in DocumentTypes => g.flows > 0 \/ g.blocks = 0

(* h[k] is what the caller knows after k of the tokens, in the end e.      *)
Walk(g, q, h, e) ==
    /\ h \in [0..Len(q) -> Givens]
    /\ h[0] = g /\ h[Len(q)] = e
    /\ \A k \in 1..Len(q) : /\ Allowed(h[k - 1], q[k].type)
                            /\ h[k] = GivenAfter(h[k - 1], q[k].type)

Place(s, key) == key.number - s.tokensParsed + 1

(* The token of a key waits, or it is the next one (m = 1).                *)
Waits(s, key, m) ==
    \/ /\ Place(s, key) \in DOMAIN s.tokens
       /\ s.tokens[Place(s, key)].type \in KeyStarts
       /\ Behind(key, s)
    \/ m = 1 /\ Place(s, key) = Len(s.tokens) + 1 /\ NotBefore(key, s)

KeysWait(s, m) == \A i \in DOMAIN s.simpleKeys : \A key \in s.simpleKeys[i] : Waits(s, key, m)

Nested(ks) ==
    \A i, j \in DOMAIN ks : i < j =>
        \A key \in ks[i], inner \in ks[j] : key.number < inner.number

(* A key is on the flow level that its place says, and no document begins  *)
(* or ends behind it on that level.                                        *)
Encloses(s, h, key, flows) ==
    /\ h[Place(s, key) - 1].flows = flows
    /\ \A k \in Place(s, key)..Len(s.tokens) :
          s.tokens[k].type \in DocumentTypes => h[k - 1].flows > 0

KeysEnclose(s, h) ==
    \A i \in DOMAIN s.simpleKeys : \A key \in s.simpleKeys[i] : Encloses(s, h, key, i - 1)

Queued(g, s, e, m) ==
    /\ e \in Givens /\ e.blocks = Len(s.indents)
    /\ KeysWait(s, m) /\ Nested(s.simpleKeys)
    /\ \E h : Walk(g, s.tokens, h, e) /\ KeysEnclose(s, h)

Open(s) == \A k \in DOMAIN s.tokens : s.tokens[k].type # "STREAM-END"

(* A scanner in the middle of a fetch.                                     *)
Sound(V, g, s, e, m) ==
    /\ Vocabulary(V) /\ s \in ScannersOver(V)
    /\ Rooted(s) /\ Open(s)
    /\ ~s.error => Queued(g, s, e, m)

(* Reading text leaves the queue alone.                                    *)
LEMMA SoundReads ==
    ASSUME NEW V, NEW g, NEW s, NEW e, NEW m, Sound(V, g, s, e, m), NEW t, Reads(V, s, t)
    PROVE  Sound(V, g, t, e, m)
<1>1. /\ s \in ScannersOver(V) /\ t \in ScannersOver(V) /\ SameStructure(s, t)
      /\ NotBefore(s, t) /\ (~t.error => ~s.error)
  BY DEF Sound, Reads
<1>2. Rooted(t) /\ Open(t)
  BY <1>1 DEF Sound, Rooted, Open, SameStructure, IndentLevels
<1>3. ASSUME ~t.error PROVE Queued(g, t, e, m)
  <2>1. Queued(g, s, e, m)
    BY <1>1, <1>3 DEF Sound
  <2>2. KeysWait(t, m)
    <3>1. ASSUME NEW i \in DOMAIN t.simpleKeys, NEW key \in t.simpleKeys[i]
          PROVE  Waits(t, key, m)
      <4>1. Waits(s, key, m)
        BY <1>1, <2>1, <3>1 DEF Queued, KeysWait, SameStructure
      <4>2. key \in Keys
        <5>1. t.simpleKeys[i] \in KeySets
          BY <1>1, Fields
        <5>2. QED
          BY <5>1 DEF KeySets
      <4>3. Behind(key, s) => Behind(key, t)
        BY <1>1, <4>2, Fields DEF Behind, NotBefore, Keys
      <4>4. NotBefore(key, s) => NotBefore(key, t)
        BY <1>1, <4>2, Fields DEF NotBefore, Keys
      <4>5. Place(t, key) = Place(s, key) /\ t.tokens = s.tokens
        BY <1>1 DEF SameStructure, Place
      <4>6. QED
        BY <4>1, <4>3, <4>4, <4>5 DEF Waits
    <3>2. QED
      BY <3>1 DEF KeysWait
  <2>3. \A h : KeysEnclose(s, h) => KeysEnclose(t, h)
    BY <1>1 DEF KeysEnclose, Encloses, Place, SameStructure
  <2>4. QED
    BY <1>1, <2>1, <2>2, <2>3 DEF Queued, SameStructure
<1>4. QED
  BY <1>1, <1>2, <1>3 DEF Sound

(* A key of a level is a key.                                              *)
LEMMA KeysAreKeys ==
    ASSUME NEW V, NEW s \in ScannersOver(V), NEW i \in DOMAIN s.simpleKeys,
           NEW key \in s.simpleKeys[i]
    PROVE  key \in Keys /\ key.number \in Nat /\ s.simpleKeys[i] = {key}
<1>1. s.simpleKeys[i] \in KeySets
  BY Fields
<1>2. QED
  BY <1>1 DEF KeySets, Keys

(* Some of the keys are removed, or the scanner fails.                     *)
LEMMA QueuedRekeyed ==
    ASSUME NEW V, NEW g, NEW s \in ScannersOver(V), NEW e, NEW m, Queued(g, s, e, m),
           NEW t, Rekeyed(V, s, t),
           \A i \in DOMAIN s.simpleKeys : t.simpleKeys[i] \subseteq s.simpleKeys[i]
    PROVE  Queued(g, t, e, m)
<1>1. /\ t \in ScannersOver(V) /\ SamePlace(s, t)
      /\ t.tokens = s.tokens /\ t.indents = s.indents
      /\ Len(t.simpleKeys) = Len(s.simpleKeys)
  BY DEF Rekeyed
<1>2. DOMAIN t.simpleKeys = DOMAIN s.simpleKeys
  BY <1>1, Fields
<1>3. \A key : Place(t, key) = Place(s, key) /\ (Waits(s, key, m) => Waits(t, key, m))
  BY <1>1 DEF Waits, Place, SamePlace, Behind, NotBefore
<1>4. KeysWait(t, m)
  BY <1>2, <1>3 DEF Queued, KeysWait
<1>5. Nested(t.simpleKeys)
  BY <1>2 DEF Queued, Nested
<1>6. \A h, key, f : Encloses(s, h, key, f) => Encloses(t, h, key, f)
  BY <1>1, <1>3 DEF Encloses
<1>7. \A h : KeysEnclose(s, h) => KeysEnclose(t, h)
  BY <1>2, <1>6 DEF KeysEnclose
<1>8. QED
  BY <1>1, <1>4, <1>5, <1>7 DEF Queued

LEMMA SoundRekeyed ==
    ASSUME NEW V, NEW g, NEW s, NEW e, NEW m, Sound(V, g, s, e, m), NEW t, Rekeyed(V, s, t),
           ~t.error => \A i \in DOMAIN s.simpleKeys : t.simpleKeys[i] \subseteq s.simpleKeys[i]
    PROVE  Sound(V, g, t, e, m)
<1>1. /\ s \in ScannersOver(V) /\ t \in ScannersOver(V) /\ SamePlace(s, t)
      /\ t.tokens = s.tokens /\ t.indents = s.indents /\ t.indent = s.indent
      /\ Len(t.simpleKeys) = Len(s.simpleKeys) /\ t.flowLevel = s.flowLevel
      /\ (~t.error => ~s.error)
  BY DEF Sound, Rekeyed
<1>2. Rooted(t) /\ Open(t)
  BY <1>1 DEF Sound, Rooted, Open, SamePlace, IndentLevels
<1>3. ~t.error => Queued(g, t, e, m)
  BY <1>1, QueuedRekeyed DEF Sound
<1>4. QED
  BY <1>1, <1>2, <1>3 DEF Sound

(* The token at the place of a key may be still to come.                   *)
LEMMA SoundPending ==
    ASSUME NEW V, NEW g, NEW s, NEW e, Sound(V, g, s, e, 0)
    PROVE  Sound(V, g, s, e, 1)
<1>1. KeysWait(s, 0) => KeysWait(s, 1)
  BY DEF KeysWait, Waits
<1>2. QED
  BY <1>1 DEF Sound, Queued

(* A key is saved for the next token.                                      *)
LEMMA SoundSaved ==
    ASSUME NEW V, NEW g, NEW s, NEW e, Sound(V, g, s, e, 0), e.flows = s.flowLevel
    PROVE  Sound(V, g, SaveSimpleKey(s), e, 1)
<1> DEFINE t == SaveSimpleKey(s)
           ks == s.simpleKeys
           n == Len(ks)
<1>1. /\ s \in ScannersOver(V) /\ Rooted(s) /\ Open(s) /\ Vocabulary(V)
      /\ (~s.error => Queued(g, s, e, 0))
  BY DEF Sound
<1>2. s.flowLevel \in Nat /\ ks \in Seq(KeySets) /\ n = s.flowLevel + 1 /\ n \in Nat
      /\ ks # <<>> /\ DOMAIN ks = 1..n
  BY <1>1, Fields DEF Rooted
<1>3. Rekeyed(V, s, t)
      /\ (~t.error => \/ t.simpleKeys = ks
                      \/ \E key : IsHere(s, key) /\ WithKey(ks, {key}, t.simpleKeys))
  BY <1>1, <1>2, SaveFields
<1> HIDE DEF t
<1>4. /\ t \in ScannersOver(V) /\ SamePlace(s, t)
      /\ t.tokens = s.tokens /\ t.indents = s.indents /\ t.indent = s.indent
      /\ Len(t.simpleKeys) = n /\ t.flowLevel = s.flowLevel
      /\ (~t.error => ~s.error)
  BY <1>3 DEF Rekeyed
<1>5. Rooted(t) /\ Open(t)
  BY <1>1, <1>2, <1>4 DEF Rooted, Open, SamePlace, IndentLevels
<1>6. DOMAIN t.simpleKeys = 1..n
  BY <1>4, Fields
<1>7. \A key : Place(t, key) = Place(s, key)
  BY <1>4 DEF Place, SamePlace
<1>8. \A key : Waits(s, key, 0) => Waits(t, key, 1)
  BY <1>4, <1>7 DEF Waits, SamePlace, Behind, NotBefore
<1>9. \A h, key, f : Encloses(s, h, key, f) => Encloses(t, h, key, f)
  BY <1>4, <1>7 DEF Encloses
<1>10. ASSUME ~t.error PROVE Queued(g, t, e, 1)
  <2>1. Queued(g, s, e, 0)
    BY <1>1, <1>4, <1>10
  <2>2. PICK h : Walk(g, s.tokens, h, e) /\ KeysEnclose(s, h)
    BY <2>1 DEF Queued
  <2>3. CASE t.simpleKeys = ks
    <3>1. KeysWait(t, 1) /\ KeysEnclose(t, h) /\ Nested(t.simpleKeys)
      BY <1>8, <1>9, <2>1, <2>2, <2>3 DEF KeysWait, KeysEnclose, Queued
    <3>2. QED
      BY <1>4, <2>1, <2>2, <3>1 DEF Queued
  <2>4. CASE \E key : IsHere(s, key) /\ WithKey(ks, {key}, t.simpleKeys)
    <3>1. PICK key : IsHere(s, key) /\ WithKey(ks, {key}, t.simpleKeys)
      BY <2>4
    <3>2. /\ key.number = s.tokensParsed + Len(s.tokens) /\ Len(s.tokens) \in Nat
          /\ s.tokensParsed \in Nat /\ key.number \in Nat
      BY <1>1, <3>1, Fields DEF IsHere
    <3>3. Place(s, key) = Len(s.tokens) + 1
      BY <3>2 DEF Place
    <3>4. NotBefore(key, s)
      BY <1>1, <3>1, Fields DEF IsHere, NotBefore
    <3>5. Waits(t, key, 1)
      BY <1>4, <1>7, <3>3, <3>4 DEF Waits, NotBefore, SamePlace
    <3>6. Encloses(t, h, key, n - 1)
      <4>1. h[Len(s.tokens)] = e /\ e.flows = n - 1
        BY <1>2, <2>2 DEF Walk
      <4>2. Place(t, key) - 1 = Len(s.tokens) /\ Place(t, key)..Len(t.tokens) = {}
        BY <1>4, <1>7, <3>2, <3>3
      <4>3. QED
        BY <4>1, <4>2 DEF Encloses
    <3>7. t.simpleKeys[n] = {key} /\ \A i \in 1..n : i # n => t.simpleKeys[i] = ks[i]
      BY <1>2, <3>1 DEF WithKey
    <3>8. KeysWait(t, 1)
      BY <1>2, <1>6, <1>8, <2>1, <3>5, <3>7 DEF KeysWait, Queued
    <3>9. KeysEnclose(t, h)
      BY <1>2, <1>6, <1>9, <2>2, <3>6, <3>7 DEF KeysEnclose
    <3>10. Nested(t.simpleKeys)
      <4>1. ASSUME NEW i \in 1..n, NEW j \in 1..n, i < j,
                   NEW outer \in t.simpleKeys[i], NEW inner \in t.simpleKeys[j]
            PROVE  outer.number < inner.number
        <5>1. i # n /\ i \in DOMAIN ks /\ outer \in ks[i]
          BY <1>2, <3>7, <4>1
        <5>2. CASE j = n
          <6>1. Waits(s, outer, 0) /\ outer.number \in Nat
            BY <1>1, <2>1, <5>1, KeysAreKeys DEF Queued, KeysWait
          <6>2. Place(s, outer) \in 1..Len(s.tokens)
            BY <1>1, <6>1, Fields DEF Waits
          <6>3. outer.number < key.number
            BY <3>2, <6>1, <6>2 DEF Place
          <6>4. QED
            BY <3>7, <5>2, <6>3
        <5>3. CASE j # n
          <6>1. j \in DOMAIN ks /\ inner \in ks[j]
            BY <1>2, <3>7, <4>1, <5>3
          <6>2. Nested(ks)
            BY <2>1 DEF Queued
          <6> HIDE DEF ks
          <6>3. QED
            BY <4>1, <5>1, <6>1, <6>2 DEF Nested
        <5>4. QED
          BY <5>2, <5>3
      <4>2. QED
        BY <1>6, <4>1 DEF Nested
    <3>11. QED
      BY <1>4, <2>1, <2>2, <3>8, <3>9, <3>10 DEF Queued
  <2>5. QED
    BY <1>3, <1>10, <2>3, <2>4
<1>11. QED
  BY <1>1, <1>4, <1>5, <1>10 DEF Sound, t

LEMMA SoundAllowed ==
    ASSUME NEW V, NEW g, NEW s, NEW e, NEW m, Sound(V, g, s, e, m), NEW a \in BOOLEAN
    PROVE  Sound(V, g, Allow(s, a), e, m)
<1>1. s \in ScannersOver(V)
  BY DEF Sound
<1>2. Reads(V, s, Allow(s, a))
  BY <1>1, StaysReads, KeyAllowedReads DEF Allow
<1>3. QED
  BY <1>2, SoundReads

(* A level more, without a key.                                            *)
LEMMA SoundIncreased ==
    ASSUME NEW V, NEW g, NEW s, NEW e, NEW m, Sound(V, g, s, e, m)
    PROVE  Sound(V, g, IncreaseFlowLevel(s), e, m)
<1> DEFINE t == IncreaseFlowLevel(s)
           ks == s.simpleKeys
           n == Len(ks)
           none == {}
<1>1. s \in ScannersOver(V) /\ Rooted(s) /\ Open(s)
  BY DEF Sound
<1>2. /\ t \in ScannersOver(V) /\ SamePlace(s, t) /\ t.error = s.error
      /\ t.indent = s.indent /\ t.indents = s.indents /\ t.tokens = s.tokens
      /\ t.flowLevel = s.flowLevel + 1
      /\ t.simpleKeys = Append(ks, none)
  BY <1>1, IncreaseFields
<1>3. ks \in Seq(KeySets) /\ none \in KeySets /\ n \in Nat /\ DOMAIN ks = 1..n
  <2>1. none \in KeySets
    BY DEF KeySets
  <2>2. ks \in Seq(KeySets) /\ n \in Nat /\ DOMAIN ks = 1..n
    BY <1>1, Fields
  <2>3. QED
    BY <2>1, <2>2
<1> HIDE DEF t, ks, none
<1>4. /\ Len(t.simpleKeys) = n + 1 /\ DOMAIN t.simpleKeys = 1..(n + 1)
      /\ \A i \in 1..n : t.simpleKeys[i] = ks[i]
      /\ t.simpleKeys[n + 1] = {}
  BY <1>2, <1>3, Appended DEF none
<1>5. \A i \in DOMAIN t.simpleKeys : t.simpleKeys[i] # {} => i \in DOMAIN ks /\ t.simpleKeys[i] = ks[i]
  BY <1>3, <1>4
<1>6. Rooted(t) /\ Open(t)
  BY <1>1, <1>2, <1>3, <1>4 DEF Rooted, Open, SamePlace, IndentLevels, ks
<1>7. ASSUME ~t.error PROVE Queued(g, t, e, m)
  <2>1. Queued(g, s, e, m)
    BY <1>2, <1>7 DEF Sound
  <2>2. \A key : Place(t, key) = Place(s, key) /\ (Waits(s, key, m) => Waits(t, key, m))
    BY <1>2 DEF Waits, Place, SamePlace, Behind, NotBefore
  <2>3. KeysWait(t, m)
    BY <1>5, <2>1, <2>2 DEF Queued, KeysWait, ks
  <2>4. Nested(t.simpleKeys)
    <3>1. Nested(ks)
      BY <2>1 DEF Queued, ks
    <3>2. QED
      BY <1>5, <3>1 DEF Nested
  <2>5. \A h, key, f : Encloses(s, h, key, f) => Encloses(t, h, key, f)
    BY <1>2, <2>2 DEF Encloses
  <2>6. \A h : KeysEnclose(s, h) => KeysEnclose(t, h)
    BY <1>5, <2>5 DEF KeysEnclose, ks
  <2>7. QED
    BY <1>2, <2>1, <2>3, <2>4, <2>6 DEF Queued
<1>8. QED
  BY <1>1, <1>2, <1>6, <1>7 DEF Sound, t

(* A level less, and its key.                                              *)
LEMMA SoundDecreased ==
    ASSUME NEW V, NEW g, NEW s, NEW e, NEW m, Sound(V, g, s, e, m)
    PROVE  Sound(V, g, DecreaseFlowLevel(s), e, m)
<1> DEFINE t == DecreaseFlowLevel(s)
           ks == s.simpleKeys
           n == Len(ks)
<1>1. s \in ScannersOver(V) /\ Rooted(s) /\ Open(s)
  BY DEF Sound
<1>2. ks \in Seq(KeySets) /\ n \in Nat /\ DOMAIN ks = 1..n /\ n = s.flowLevel + 1
      /\ s.flowLevel \in Nat /\ ks # <<>>
  BY <1>1, Fields DEF Rooted
<1>3. /\ t \in ScannersOver(V) /\ SamePlace(s, t) /\ t.error = s.error
      /\ t.indent = s.indent /\ t.indents = s.indents /\ t.tokens = s.tokens
      /\ s.flowLevel = 0 => t = s
      /\ s.flowLevel > 0 => /\ t.flowLevel = s.flowLevel - 1
                            /\ t.simpleKeys = SubSeq(ks, 1, n - 1)
  BY <1>1, <1>2, DecreaseFields
<1>4. CASE s.flowLevel = 0
  BY <1>3, <1>4
<1>5. CASE s.flowLevel # 0
  <2>1. t.flowLevel = s.flowLevel - 1 /\ t.simpleKeys = SubSeq(ks, 1, n - 1)
    BY <1>2, <1>3, <1>5
  <2> HIDE DEF t, ks
  <2>2. /\ Len(t.simpleKeys) = n - 1
        /\ \A i \in DOMAIN t.simpleKeys : i \in DOMAIN ks /\ t.simpleKeys[i] = ks[i]
    BY <1>2, <2>1
  <2>3. Rooted(t) /\ Open(t)
    BY <1>1, <1>2, <1>3, <2>1, <2>2 DEF Rooted, Open, SamePlace, IndentLevels, ks
  <2>4. ASSUME ~t.error PROVE Queued(g, t, e, m)
    <3>1. Queued(g, s, e, m)
      BY <1>3, <2>4 DEF Sound
    <3>2. \A key : Place(t, key) = Place(s, key) /\ (Waits(s, key, m) => Waits(t, key, m))
      BY <1>3 DEF Waits, Place, SamePlace, Behind, NotBefore
    <3>3. KeysWait(t, m)
      BY <2>2, <3>1, <3>2 DEF Queued, KeysWait, ks
    <3>4. Nested(t.simpleKeys)
      <4>1. Nested(ks)
        BY <3>1 DEF Queued, ks
      <4>2. QED
        BY <2>2, <4>1 DEF Nested
    <3>5. \A h, key, f : Encloses(s, h, key, f) => Encloses(t, h, key, f)
      BY <1>3, <3>2 DEF Encloses
    <3>6. \A h : KeysEnclose(s, h) => KeysEnclose(t, h)
      BY <2>2, <3>5 DEF KeysEnclose, ks
    <3>7. QED
      BY <1>3, <3>1, <3>3, <3>4, <3>6 DEF Queued
  <2>5. QED
    BY <1>1, <1>3, <2>3, <2>4 DEF Sound, t
<1>6. QED
  BY <1>4, <1>5

-----------------------------------------------------------------------------
(* What the caller knows after one more token.                             *)
LEMMA GivenAfterIs ==
    ASSUME NEW e \in Givens, NEW type \in TokenTypes, Allowed(e, type)
    PROVE  LET n == GivenAfter(e, type) IN
           /\ n \in Givens /\ n.token = type /\ n.started = TRUE
           /\ n.blocks = CASE type \in {"BLOCK-SEQUENCE-START", "BLOCK-MAPPING-START"} -> e.blocks + 1
                           [] type = "BLOCK-END" -> e.blocks - 1
                           [] OTHER -> e.blocks
           /\ n.flows = CASE type \in {"FLOW-SEQUENCE-START", "FLOW-MAPPING-START"} -> e.flows + 1
                          [] type \in {"FLOW-SEQUENCE-END", "FLOW-MAPPING-END"} ->
                                IF e.flows > 0 THEN e.flows - 1 ELSE 0
                          [] OTHER -> e.flows
<1> DEFINE a == e.flows - 1
           z == 0
<1>1. e.blocks \in Nat /\ e.flows \in Nat
  BY DEF Givens
<1>2. Max({a, z}) = IF e.flows > 0 THEN e.flows - 1 ELSE 0
  <2>1. a \in Int /\ z \in Int
    BY <1>1
  <2> HIDE DEF a, z
  <2>2. Max({a, z}) \in {a, z} /\ Max({a, z}) >= a /\ Max({a, z}) >= z
    BY <2>1, ExtremesOfTwo
  <2>3. QED
    BY <1>1, <2>1, <2>2 DEF a, z
<1> DEFINE less == Max({a, z})
           n == GivenAfter(e, type)
           b == CASE type \in {"BLOCK-SEQUENCE-START", "BLOCK-MAPPING-START"} -> e.blocks + 1
                  [] type = "BLOCK-END" -> e.blocks - 1
                  [] OTHER -> e.blocks
           f == CASE type \in {"FLOW-SEQUENCE-START", "FLOW-MAPPING-START"} -> e.flows + 1
                  [] type \in {"FLOW-SEQUENCE-END", "FLOW-MAPPING-END"} -> less
                  [] OTHER -> e.flows
<1>3. n = [token |-> type, started |-> TRUE, blocks |-> b, flows |-> f]
  BY DEF GivenAfter
<1> HIDE DEF less, a, z
<1>4. less \in Nat /\ less = IF e.flows > 0 THEN e.flows - 1 ELSE 0
  BY <1>1, <1>2 DEF less
<1>5. b \in Nat /\ f \in Nat
  BY <1>1, <1>4 DEF Allowed
<1> HIDE DEF n
<1>6. n \in Givens
  <2> HIDE DEF b, f
  <2> QED BY <1>3, <1>5 DEF Givens
<1>7. n.token = type /\ n.started = TRUE /\ n.blocks = b /\ n.flows = f
  BY <1>3
<1>8. QED
  BY <1>4, <1>6, <1>7 DEF n

(* One more step of a walk.                                                *)
WalksOn(g, q, h, r, x) ==
    \E f : Walk(g, r, f, x) /\ \A k \in 0..Len(q) : f[k] = h[k]

LEMMA WalkOn ==
    ASSUME NEW V, NEW g, NEW q \in Seq(V), NEW h, NEW e \in Givens, Walk(g, q, h, e), NEW W,
           NEW token \in W, token.type \in TokenTypes, Allowed(e, token.type),
           NEW r \in Seq(W), r = Append(q, token)
    PROVE  WalksOn(g, q, h, r, GivenAfter(e, token.type))
<1> DEFINE n == Len(q)
           x == GivenAfter(e, token.type)
           f == [k \in 0..(n + 1) |-> IF k = n + 1 THEN x ELSE h[k]]
<1>1. /\ n \in Nat /\ Len(r) = n + 1 /\ r[n + 1] = token
      /\ \A k \in 1..n : r[k] = q[k]
  BY Appended
<1>2. x \in Givens
  BY GivenAfterIs
<1>3. /\ h \in [0..n -> Givens] /\ h[0] = g /\ h[n] = e
      /\ \A k \in 1..n : /\ Allowed(h[k - 1], q[k].type)
                         /\ h[k] = GivenAfter(h[k - 1], q[k].type)
  BY DEF Walk
<1> HIDE DEF x, n
<1>4. f \in [0..(n + 1) -> Givens]
  <2>1. ASSUME NEW k \in 0..(n + 1), k # n + 1 PROVE h[k] \in Givens
    <3>1. k \in 0..n
      BY <1>1, <2>1
    <3>2. QED
      BY <1>3, <3>1
  <2>2. QED
    BY <1>2, <2>1
<1>5. f[n + 1] = x /\ \A k \in 0..n : f[k] = h[k]
  BY <1>1
<1> HIDE DEF f
<1>6. ASSUME NEW k \in 1..(n + 1)
      PROVE  Allowed(f[k - 1], r[k].type) /\ f[k] = GivenAfter(f[k - 1], r[k].type)
  <2>1. CASE k = n + 1
    <3>1. k - 1 = n /\ f[n] = e /\ r[k] = token
      BY <1>1, <1>3, <1>5, <2>1
    <3>2. QED
      BY <1>5, <2>1, <3>1 DEF x
  <2>2. CASE k # n + 1
    <3>1. k \in 1..n /\ k \in 0..n /\ k - 1 \in 0..n
      BY <1>1, <2>2
    <3>2. f[k] = h[k] /\ f[k - 1] = h[k - 1] /\ r[k] = q[k]
      BY <1>1, <1>5, <3>1
    <3>3. QED
      BY <1>3, <3>1, <3>2
  <2>3. QED
    BY <2>1, <2>2
<1>7. Walk(g, r, f, x)
  <2>1. f[0] = g
    BY <1>1, <1>3, <1>5
  <2>2. QED
    BY <1>1, <1>4, <1>5, <1>6, <2>1 DEF Walk
<1>8. QED
  BY <1>5, <1>7 DEF x, n, WalksOn

NoKeys(s) == \A i \in DOMAIN s.simpleKeys : s.simpleKeys[i] = {}
KeysBehind(s) == \A i \in DOMAIN s.simpleKeys : \A key \in s.simpleKeys[i] : Behind(key, s)

(* One more token in the queue.                                            *)
Adds(s, token, t) ==
    /\ SamePlace(s, t) /\ t.simpleKeys = s.simpleKeys /\ t.tokens = Append(s.tokens, token)

Follows(s, e, m, type) ==
    /\ type \in TokenTypes /\ Allowed(e, type)
    /\ type \in DocumentTypes => e.flows > 0 \/ NoKeys(s)
    /\ m = 0 \/ (type \in KeyStarts /\ KeysBehind(s))

LEMMA QueuedAdds ==
    ASSUME NEW V, NEW s \in ScannersOver(V), NEW g, NEW e \in Givens, NEW m, Queued(g, s, e, m),
           NEW W, NEW t \in ScannersOver(W), NEW token \in W, Adds(s, token, t),
           Follows(s, e, m, token.type),
           Len(t.indents) = GivenAfter(e, token.type).blocks
    PROVE  Queued(g, t, GivenAfter(e, token.type), 0)
<1> DEFINE n == Len(s.tokens)
           type == token.type
           x == GivenAfter(e, type)
<1>1. PICK h : Walk(g, s.tokens, h, e) /\ KeysEnclose(s, h)
  BY DEF Queued
<1>2. /\ s.tokens \in Seq(V) /\ n \in Nat /\ DOMAIN s.tokens = 1..n
      /\ t.tokens \in Seq(W) /\ t.tokens = Append(s.tokens, token)
  <2>1. s.tokens \in Seq(V) /\ t.tokens \in Seq(W)
    BY Fields
  <2>2. t.tokens = Append(s.tokens, token)
    BY DEF Adds
  <2>3. QED
    BY <2>1, <2>2
<1>3. /\ Len(t.tokens) = n + 1 /\ DOMAIN t.tokens = 1..(n + 1)
      /\ t.tokens[n + 1] = token
      /\ \A k \in 1..n : t.tokens[k] = s.tokens[k]
  BY <1>2, Appended
<1>4. PICK f : Walk(g, t.tokens, f, x) /\ \A k \in 0..n : f[k] = h[k]
  <2>1. token.type \in TokenTypes /\ Allowed(e, token.type)
    BY DEF Follows
  <2> DEFINE q == s.tokens
             r == t.tokens
  <2>2. q \in Seq(V) /\ r \in Seq(W) /\ r = Append(q, token) /\ Walk(g, q, h, e)
    BY <1>1, <1>2
  <2> HIDE DEF q, r
  <2>3. WalksOn(g, q, h, r, GivenAfter(e, token.type))
    BY <2>1, <2>2, WalkOn
  <2>4. QED
    BY <2>3 DEF q, r, WalksOn
<1>5. t.simpleKeys = s.simpleKeys /\ SamePlace(s, t)
  BY DEF Adds
<1>6. \A key : Place(t, key) = Place(s, key)
  BY <1>5 DEF Place, SamePlace
<1>7. ASSUME NEW i \in DOMAIN s.simpleKeys, NEW key \in s.simpleKeys[i]
      PROVE  Waits(t, key, 0) /\ Encloses(t, f, key, i - 1)
  <2> DEFINE p == Place(s, key)
  <2>1. Waits(s, key, m) /\ Encloses(s, h, key, i - 1)
    BY <1>1 DEF KeysEnclose, Queued, KeysWait
  <2>2. p \in 1..(n + 1)
    BY <1>2, <2>1 DEF Waits
  <2>3. Behind(key, s) => Behind(key, t)
    BY <1>5 DEF Behind, SamePlace
  <2>4. Waits(t, key, 0)
    <3>1. CASE p \in 1..n /\ s.tokens[p].type \in KeyStarts /\ Behind(key, s)
      BY <1>3, <1>6, <2>2, <2>3, <3>1 DEF Waits
    <3>2. CASE m = 1 /\ p = n + 1
      <4>1. type \in KeyStarts /\ Behind(key, s)
        BY <3>2 DEF Follows, KeysBehind
      <4>2. QED
        BY <1>3, <1>6, <2>2, <2>3, <3>2, <4>1 DEF Waits
    <3>3. QED
      BY <1>2, <2>1, <3>1, <3>2 DEF Waits
  <2>5. f[p - 1].flows = i - 1
    <3>1. p - 1 \in 0..n
      BY <1>2, <2>2
    <3>2. QED
      BY <1>4, <2>1, <3>1 DEF Encloses
  <2>6. ASSUME NEW k \in p..(n + 1), t.tokens[k].type \in DocumentTypes
        PROVE  f[k - 1].flows > 0
    <3>1. k \in 1..(n + 1) /\ k - 1 \in 0..n
      BY <1>2, <2>2
    <3>2. CASE k = n + 1
      <4>1. e.flows > 0
        BY <1>3, <2>6, <3>2 DEF Follows, NoKeys
      <4>2. f[n] = e /\ k - 1 = n
        BY <1>1, <1>2, <1>4, <3>2 DEF Walk
      <4>3. QED
        BY <4>1, <4>2
    <3>3. CASE k # n + 1
      <4>1. k \in 1..n /\ k \in p..n
        BY <1>2, <3>1, <3>3
      <4>2. h[k - 1].flows > 0
        BY <1>3, <2>1, <2>6, <4>1 DEF Encloses
      <4>3. QED
        BY <1>4, <3>1, <4>2
    <3>4. QED
      BY <3>2, <3>3
  <2>7. QED
    BY <1>3, <1>6, <2>4, <2>5, <2>6 DEF Encloses
<1>8. KeysWait(t, 0) /\ KeysEnclose(t, f)
  BY <1>5, <1>7 DEF KeysWait, KeysEnclose
<1>9. QED
  BY <1>4, <1>5, <1>8, GivenAfterIs DEF Queued, Follows

(* More tokens may be of another set.                                      *)
LEMMA ScannersGrow ==
    ASSUME NEW V, NEW W, V \subseteq W, NEW s \in ScannersOver(V)
    PROVE  s \in ScannersOver(W)
<1>1. \A q \in Seq(V) : q \in Seq(W)
  OBVIOUS
<1>2. QED
  BY <1>1 DEF ScannersOver

(* A token that closes and opens no block collection is queued.            *)
LEMMA SoundEnqueued ==
    ASSUME NEW V, NEW g, NEW s, NEW e, NEW m, Sound(V, g, s, e, m), NEW W, Vocabulary(W),
           NEW token \in W, NEW t, Requeued(W, s, Append(s.tokens, token), t),
           token.type \notin {"STREAM-END", "BLOCK-MAPPING-START", "BLOCK-SEQUENCE-START",
                              "BLOCK-END"},
           ~s.error => Follows(s, e, m, token.type)
    PROVE  Sound(W, g, t, GivenAfter(e, token.type), 0)
<1> DEFINE type == token.type
           x == GivenAfter(e, type)
<1>1. s \in ScannersOver(V) /\ Rooted(s) /\ Open(s)
  BY DEF Sound
<1>2. /\ t \in ScannersOver(W) /\ SamePlace(s, t) /\ t.error = s.error
      /\ t.flowLevel = s.flowLevel /\ t.indent = s.indent /\ t.indents = s.indents
      /\ t.simpleKeys = s.simpleKeys /\ t.tokens = Append(s.tokens, token)
  BY DEF Requeued
<1>3. Rooted(t)
  BY <1>1, <1>2 DEF Rooted, SamePlace, IndentLevels
<1>4. Open(t)
  <2> DEFINE q == s.tokens
             r == Append(q, token)
  <2>1. q \in Seq(V) /\ r \in Seq(W)
    BY <1>1, <1>2, Fields
  <2>2. /\ DOMAIN r = 1..(Len(q) + 1) /\ Len(q) \in Nat
        /\ r[Len(q) + 1] = token
        /\ \A k \in 1..Len(q) : k \in DOMAIN q /\ r[k] = q[k]
    BY <2>1
  <2> HIDE DEF r
  <2>3. \A k \in DOMAIN r : r[k].type # "STREAM-END"
    BY <1>1, <2>2 DEF Open
  <2>4. QED
    BY <1>2, <2>3 DEF Open, r
<1>5. ASSUME ~t.error PROVE Queued(g, t, x, 0)
  <2>1. Queued(g, s, e, m) /\ Follows(s, e, m, type) /\ Adds(s, token, t)
    BY <1>2, <1>5 DEF Sound, Adds
  <2>2. e \in Givens /\ type \in TokenTypes /\ Allowed(e, type) /\ e.blocks = Len(s.indents)
    BY <2>1 DEF Queued, Follows
  <2>3. Len(t.indents) = x.blocks
    BY <1>2, <2>2, GivenAfterIs
  <2>4. QED
    BY <1>1, <1>2, <2>1, <2>2, <2>3, QueuedAdds
<1>6. QED
  BY <1>2, <1>3, <1>4, <1>5 DEF Sound

(* Between two tokens.                                                     *)
Ready(s, e) ==
    /\ e.started = TRUE /\ e.flows = s.flowLevel
    /\ e.token \notin {"BLOCK-MAPPING-START", "BLOCK-SEQUENCE-START", "STREAM-END"}

BlockStarts == {"BLOCK-MAPPING-START", "BLOCK-SEQUENCE-START"}

(* The outermost level stays when another one begins.                       *)
LEMMA RolledIsRooted ==
    ASSUME NEW V, NEW s \in ScannersOver(V), Rooted(s), NEW column \in Nat,
           NEW q, NEW t, Indented(V, s, column, IndentLevels(s), q, t)
    PROVE  Rooted(t)
<1> DEFINE S == Nat \cup {-1}
           a == IndentLevels(s)
           b == Append(a, column)
<1>1. /\ a \in Seq(S) /\ Len(a) \in Nat /\ Len(a) >= 1 /\ a[1] = -1
      /\ \A i \in 2..Len(a) : a[i] \in Nat
  <2>1. a \in Seq(S) /\ Len(a) = Len(s.indents) + 1 /\ Len(s.indents) \in Nat
    BY LevelsOfIndents
  <2>2. QED
    BY <2>1 DEF Rooted
<1>2. column \in S
  OBVIOUS
<1> HIDE DEF S, a
<1>3. /\ Len(b) = Len(a) + 1 /\ b[Len(a) + 1] = column
      /\ \A i \in 1..Len(a) : b[i] = a[i]
  BY <1>1, <1>2, Appended
<1> HIDE DEF b
<1>4. b[1] = -1 /\ \A i \in 2..Len(b) : b[i] \in Nat
  <2>1. 1 \in 1..Len(a)
    BY <1>1
  <2>2. ASSUME NEW i \in 2..Len(b) PROVE b[i] \in Nat
    <3>1. CASE i = Len(a) + 1
      BY <1>3, <3>1
    <3>2. CASE i # Len(a) + 1
      <4>1. i \in 2..Len(a) /\ i \in 1..Len(a)
        BY <1>1, <1>3, <3>2
      <4>2. QED
        BY <1>1, <1>3, <4>1
    <3>3. QED
      BY <3>1, <3>2
  <2>3. QED
    BY <1>1, <1>3, <2>1, <2>2
<1>5. IndentLevels(t) = b
  BY DEF Indented, IndentLevels, a, b
<1>6. QED
  BY <1>4, <1>5 DEF Rooted, SamePlace, Indented

(* A deeper level may begin.                                               *)
LEMMA SoundRolled ==
    ASSUME NEW V, NEW g, NEW s, NEW e, Sound(V, g, s, e, 0), NEW column \in Nat,
           NEW type \in BlockStarts, ~s.error => Ready(s, e)
    PROVE  LET t == RollIndent(s, column, {}, type) IN
           /\ t.simpleKeys = s.simpleKeys /\ t.error = s.error /\ SamePlace(s, t)
           /\ t.flowLevel = s.flowLevel
           /\ \/ Sound(V, g, t, e, 0)
              \/ Sound(V, g, t, GivenAfter(e, type), 0) /\ (~t.error => Allowed(e, type))
<1> DEFINE t == RollIndent(s, column, {}, type)
           x == GivenAfter(e, type)
<1>1. s \in ScannersOver(V) /\ Rooted(s) /\ Open(s) /\ Vocabulary(V)
  BY DEF Sound
<1>2. type \in TokenTypes
  BY DEF BlockStarts, TokenTypes
<1>3. \/ t = s /\ (s.flowLevel > 0 \/ s.indent >= column)
      \/ /\ s.flowLevel = 0 /\ s.indent < column
         /\ \E token \in V : /\ token.type = type
                             /\ Indented(V, s, column, IndentLevels(s), Append(s.tokens, token), t)
  BY <1>1, <1>2, RollFields
<1> HIDE DEF t
<1>4. CASE t = s
  BY <1>4 DEF SamePlace, t
<1>5. CASE /\ s.flowLevel = 0 /\ s.indent < column
           /\ \E token \in V : /\ token.type = type
                               /\ Indented(V, s, column, IndentLevels(s), Append(s.tokens, token), t)
  <2>1. PICK token \in V : /\ token.type = type
                           /\ Indented(V, s, column, IndentLevels(s), Append(s.tokens, token), t)
    BY <1>5
  <2>2. /\ t \in ScannersOver(V) /\ SamePlace(s, t) /\ t.error = s.error
        /\ t.flowLevel = s.flowLevel /\ t.simpleKeys = s.simpleKeys
        /\ t.indent = column /\ t.indents = IndentLevels(s)
        /\ t.tokens = Append(s.tokens, token)
    BY <2>1 DEF Indented
  <2>3. Rooted(t)
    BY <1>1, <2>1, RolledIsRooted
  <2>4. Open(t)
    <3> DEFINE q == s.tokens
               r == Append(q, token)
    <3>1. q \in Seq(V) /\ r \in Seq(V)
      BY <1>1, <2>2, Fields
    <3>2. /\ DOMAIN r = 1..(Len(q) + 1) /\ Len(q) \in Nat
          /\ r[Len(q) + 1] = token
          /\ \A k \in 1..Len(q) : k \in DOMAIN q /\ r[k] = q[k]
      BY <3>1
    <3> HIDE DEF r
    <3>3. token.type # "STREAM-END"
      BY <2>1 DEF BlockStarts
    <3>4. \A k \in DOMAIN r : r[k].type # "STREAM-END"
      BY <1>1, <3>2, <3>3 DEF Open
    <3>5. QED
      BY <2>2, <3>4 DEF Open, r
  <2>5. ASSUME ~t.error PROVE Queued(g, t, x, 0) /\ Allowed(e, type)
    <3>1. Queued(g, s, e, 0) /\ Ready(s, e)
      BY <2>2, <2>5 DEF Sound
    <3>2. e \in Givens /\ e.blocks = Len(s.indents)
      BY <3>1 DEF Queued
    <3>3. Allowed(e, type)
      BY <1>5, <3>1 DEF Allowed, Ready, BlockStarts, DocumentTypes
    <3>4. Follows(s, e, 0, type)
      BY <1>2, <3>3 DEF Follows, BlockStarts, DocumentTypes
    <3>5. x.blocks = e.blocks + 1
      BY <1>2, <3>2, <3>3, GivenAfterIs DEF BlockStarts
    <3>6. Len(t.indents) = x.blocks
      BY <1>1, <2>2, <3>2, <3>5, LevelsOfIndents
    <3>7. Adds(s, token, t)
      BY <2>2 DEF Adds
    <3>8. QED
      BY <1>1, <2>1, <2>2, <3>1, <3>2, <3>3, <3>4, <3>6, <3>7, QueuedAdds
  <2>6. Sound(V, g, t, x, 0)
    BY <1>1, <2>2, <2>3, <2>4, <2>5 DEF Sound
  <2>7. QED
    BY <2>2, <2>5, <2>6 DEF t
<1>6. QED
  BY <1>3, <1>4, <1>5

(* n block collections end.                                                *)
Closed(e, n) == IF n = 0 THEN e
                ELSE [token |-> "BLOCK-END", blocks |-> e.blocks - n, flows |-> e.flows,
                      started |-> TRUE]

LEMMA WalkDown ==
    ASSUME NEW V, NEW g, NEW q \in Seq(V), NEW h, NEW e \in Givens, Walk(g, q, h, e),
           e.flows = 0, e.started = TRUE, Settled(e), e.token # "STREAM-END",
           NEW ends \in Seq(V), \A k \in DOMAIN ends : ends[k].type = "BLOCK-END",
           Len(ends) <= e.blocks
    PROVE  WalksOn(g, q, h, q \o ends, Closed(e, Len(ends))) /\ Closed(e, Len(ends)) \in Givens
<1> DEFINE l == Len(q)
           n == Len(ends)
           r == q \o ends
           f == [k \in 0..(l + n) |-> IF k <= l THEN h[k] ELSE Closed(e, k - l)]
<1>1. /\ l \in Nat /\ n \in Nat /\ e.blocks \in Nat /\ n <= e.blocks
      /\ DOMAIN ends = 1..n
  BY DEF Givens
<1>2. /\ r \in Seq(V) /\ Len(r) = l + n
      /\ \A k \in 1..l : r[k] = q[k]
      /\ \A k \in 1..n : r[l + k] = ends[k]
  BY ONLY q \in Seq(V), ends \in Seq(V), Concatenation
<1>3. /\ h \in [0..l -> Givens] /\ h[0] = g /\ h[l] = e
      /\ \A k \in 1..l : /\ Allowed(h[k - 1], q[k].type)
                         /\ h[k] = GivenAfter(h[k - 1], q[k].type)
  BY DEF Walk
<1> HIDE DEF l, n, r
<1>4. ASSUME NEW k \in 0..n PROVE Closed(e, k) \in Givens
  <2>1. CASE k = 0
    BY <2>1 DEF Closed
  <2>2. CASE k # 0
    <3>1. e.blocks - k \in Nat
      BY <1>1
    <3> DEFINE b == e.blocks - k
               type == "BLOCK-END"
    <3>2. type \in TokenTypes /\ Closed(e, k) = [token |-> type, blocks |-> b,
                                                 flows |-> e.flows, started |-> TRUE]
      BY <2>2 DEF TokenTypes, Closed
    <3> HIDE DEF b, type
    <3>3. QED
      BY <3>1, <3>2 DEF Givens, b
  <2>3. QED
    BY <2>1, <2>2
<1>5. f \in [0..(l + n) -> Givens]
  <2>1. ASSUME NEW k \in 0..(l + n), k <= l PROVE h[k] \in Givens
    <3>1. k \in 0..l
      BY <1>1, <2>1
    <3>2. QED
      BY <1>3, <3>1
  <2>2. ASSUME NEW k \in 0..(l + n), ~(k <= l) PROVE Closed(e, k - l) \in Givens
    <3> DEFINE j == k - l
    <3>1. j \in 0..n
      BY <1>1, <2>2
    <3> HIDE DEF j
    <3>2. Closed(e, j) \in Givens
      BY <1>4, <3>1
    <3>3. QED
      BY <3>2 DEF j
  <2>3. QED
    BY <2>1, <2>2
<1>6. \A k \in 0..l : f[k] = h[k]
  BY <1>1
<1>7. \A j \in 0..n : f[l + j] = Closed(e, j)
  <2>1. ASSUME NEW j \in 0..n PROVE f[l + j] = Closed(e, j)
    <3> DEFINE k == l + j
    <3>1. k \in 0..(l + n) /\ (k <= l <=> j = 0) /\ k - l = j
      BY <1>1
    <3>2. CASE j = 0
      <4>1. f[k] = h[k] /\ k = l
        BY <1>1, <3>1, <3>2
      <4>2. QED
        BY <1>3, <3>2, <4>1 DEF Closed
    <3>3. CASE j # 0
      <4> HIDE DEF k
      <4>1. f[k] = Closed(e, k - l)
        BY <3>1, <3>3
      <4>2. QED
        BY <3>1, <4>1 DEF k
    <3>4. QED
      BY <3>2, <3>3
  <2>2. QED
    BY <2>1
<1> HIDE DEF f
<1>8. ASSUME NEW j \in 0..(n - 1)
      PROVE  /\ Allowed(Closed(e, j), "BLOCK-END")
             /\ Closed(e, j + 1) = GivenAfter(Closed(e, j), "BLOCK-END")
  <2> DEFINE c == Closed(e, j)
             i == j + 1
  <2>1. /\ c.token \notin {"STREAM-END", "BLOCK-MAPPING-START", "BLOCK-SEQUENCE-START"}
        /\ c.started = TRUE /\ c.flows = e.flows /\ c.blocks = e.blocks - j
    BY <1>1 DEF Closed, Settled
  <2> HIDE DEF c
  <2>2. c.blocks > 0
    BY <1>1, <2>1
  <2>3. Allowed(c, "BLOCK-END")
    BY <2>1, <2>2 DEF Allowed, DocumentTypes
  <2>4. GivenAfter(c, "BLOCK-END") = [token |-> "BLOCK-END", blocks |-> c.blocks - 1,
                                      flows |-> c.flows, started |-> TRUE]
    BY DEF GivenAfter
  <2>5. i # 0 /\ e.blocks - i = c.blocks - 1
    BY <1>1, <2>1
  <2> HIDE DEF i
  <2>6. Closed(e, i) = [token |-> "BLOCK-END", blocks |-> e.blocks - i,
                        flows |-> e.flows, started |-> TRUE]
    BY <2>5 DEF Closed
  <2>7. Closed(e, i) = GivenAfter(c, "BLOCK-END")
    BY <2>1, <2>4, <2>5, <2>6
  <2>8. QED
    BY <2>3, <2>7 DEF c, i
<1>9. ASSUME NEW k \in 1..(l + n)
      PROVE  Allowed(f[k - 1], r[k].type) /\ f[k] = GivenAfter(f[k - 1], r[k].type)
  <2>1. CASE k <= l
    <3>1. k \in 1..l /\ k \in 0..l /\ k - 1 \in 0..l
      BY <1>1, <2>1
    <3>2. f[k] = h[k] /\ f[k - 1] = h[k - 1] /\ r[k] = q[k]
      BY <1>2, <1>6, <3>1
    <3>3. QED
      BY <1>3, <3>1, <3>2
  <2>2. CASE ~(k <= l)
    <3> DEFINE j == k - l - 1
               i == j + 1
    <3>1. j \in 0..(n - 1) /\ j \in 0..n /\ i \in 0..n /\ i \in 1..n /\ l + j = k - 1 /\ l + i = k
      BY <1>1, <2>2
    <3> HIDE DEF j, i
    <3>2. f[l + j] = Closed(e, j) /\ f[l + i] = Closed(e, i) /\ r[l + i] = ends[i]
      BY <1>2, <1>7, <3>1
    <3>3. f[k - 1] = Closed(e, j) /\ f[k] = Closed(e, i) /\ r[k] = ends[i]
      BY <3>1, <3>2
    <3>4. ends[i].type = "BLOCK-END"
      BY <1>1, <3>1
    <3>5. /\ Allowed(Closed(e, j), "BLOCK-END")
          /\ Closed(e, i) = GivenAfter(Closed(e, j), "BLOCK-END")
      BY <1>8, <3>1 DEF i
    <3>6. QED
      BY <3>3, <3>4, <3>5
  <2>3. QED
    BY <2>1, <2>2
<1>10. f[0] = g /\ f[Len(r)] = Closed(e, n)
  <2>1. 0 \in 0..l /\ n \in 0..n
    BY <1>1
  <2>2. QED
    BY <1>2, <1>3, <1>6, <1>7, <2>1
<1>11. Walk(g, r, f, Closed(e, n))
  BY <1>2, <1>5, <1>9, <1>10 DEF Walk
<1>12. Closed(e, n) \in Givens
  <2>1. n \in 0..n
    BY <1>1
  <2>2. QED
    BY <1>4, <2>1
<1>13. QED
  BY <1>6, <1>11, <1>12 DEF WalksOn, l, n, r

(* The ends of block collections in the queue.                             *)
LEMMA QueuedCloses ==
    ASSUME NEW V, NEW s \in ScannersOver(V), NEW g, NEW e \in Givens, Queued(g, s, e, 0),
           Ready(s, e), s.flowLevel = 0,
           NEW t \in ScannersOver(V), SamePlace(s, t), t.simpleKeys = s.simpleKeys,
           NEW ends \in Seq(V), \A k \in DOMAIN ends : ends[k].type = "BLOCK-END",
           t.tokens = s.tokens \o ends, Len(s.indents) = Len(t.indents) + Len(ends)
    PROVE  Queued(g, t, Closed(e, Len(ends)), 0)
<1> DEFINE l == Len(s.tokens)
           n == Len(ends)
           x == Closed(e, n)
<1>1. PICK h : Walk(g, s.tokens, h, e) /\ KeysEnclose(s, h)
  BY DEF Queued
<1>2. /\ s.tokens \in Seq(V) /\ l \in Nat /\ n \in Nat /\ DOMAIN s.tokens = 1..l
      /\ Len(t.indents) \in Nat /\ Len(s.indents) \in Nat /\ DOMAIN ends = 1..n
      /\ e.blocks = Len(s.indents)
  <2>1. /\ s.tokens \in Seq(V) /\ s.indents \in Seq(Nat \cup {-1})
        /\ t.indents \in Seq(Nat \cup {-1})
    BY Fields
  <2>2. e.blocks = Len(s.indents)
    BY DEF Queued
  <2>3. QED
    BY <2>1, <2>2
<1>3. /\ Len(t.tokens) = l + n /\ DOMAIN t.tokens = 1..(l + n)
      /\ \A k \in 1..l : t.tokens[k] = s.tokens[k]
      /\ \A k \in 1..n : t.tokens[l + k] = ends[k]
  <2> DEFINE q == s.tokens
             r == q \o ends
  <2>1. q \in Seq(V) /\ ends \in Seq(V)
    BY <1>2
  <2> HIDE DEF q
  <2>2. /\ r \in Seq(V) /\ Len(r) = Len(q) + Len(ends)
        /\ \A k \in 1..Len(q) : r[k] = q[k]
        /\ \A k \in 1..Len(ends) : r[Len(q) + k] = ends[k]
    BY ONLY <2>1, Concatenation
  <2> HIDE DEF r
  <2>3. DOMAIN r = 1..Len(r)
    BY <2>2
  <2>4. QED
    BY <2>2, <2>3 DEF q, r
<1>4. WalksOn(g, s.tokens, h, t.tokens, x) /\ x \in Givens
  <2>1. e.flows = 0 /\ e.started = TRUE /\ Settled(e) /\ e.token # "STREAM-END"
    BY DEF Ready, Settled
  <2>2. n <= e.blocks
    BY <1>2
  <2>3. WalksOn(g, s.tokens, h, s.tokens \o ends, x) /\ x \in Givens
    BY <1>1, <1>2, <2>1, <2>2, WalkDown
  <2>4. QED
    BY <2>3
<1>5. PICK f : Walk(g, t.tokens, f, x) /\ \A k \in 0..l : f[k] = h[k]
  BY <1>4 DEF WalksOn
<1>6. x.blocks = Len(t.indents)
  <2>1. n = 0 => x.blocks = e.blocks
    BY DEF Closed
  <2>2. n # 0 => x.blocks = e.blocks - n
    BY DEF Closed
  <2> DEFINE a == e.blocks
             b == Len(t.indents)
             c == x.blocks
  <2>3. a = b + n /\ a \in Int /\ b \in Int /\ n \in Int
    BY <1>2
  <2> HIDE DEF x, n, a, b, c
  <2>4. (n = 0 => c = a) /\ (n # 0 => c = a - n)
    BY <2>1, <2>2 DEF a, c
  <2>5. c = b
    BY ONLY <2>3, <2>4
  <2>6. QED
    BY <2>5 DEF b, c
<1> HIDE DEF x, n, l
<1>7. \A key : Place(t, key) = Place(s, key)
  BY DEF Place, SamePlace
<1>8. ASSUME NEW i \in DOMAIN s.simpleKeys, NEW key \in s.simpleKeys[i]
      PROVE  Waits(t, key, 0) /\ Encloses(t, f, key, i - 1)
  <2> DEFINE p == Place(s, key)
  <2>1. Waits(s, key, 0) /\ Encloses(s, h, key, i - 1)
    BY <1>1 DEF KeysEnclose, Queued, KeysWait
  <2>2. p \in 1..l /\ s.tokens[p].type \in KeyStarts /\ Behind(key, s)
    BY <1>2, <2>1 DEF Waits
  <2>3. Behind(key, t)
    BY <2>2 DEF Behind, SamePlace
  <2>4. Waits(t, key, 0)
    BY <1>2, <1>3, <1>7, <2>2, <2>3 DEF Waits
  <2>5. f[p - 1].flows = i - 1
    <3>1. p - 1 \in 0..l
      BY <1>2, <2>2
    <3>2. QED
      BY <1>5, <2>1, <3>1 DEF Encloses
  <2>6. ASSUME NEW k \in p..(l + n), t.tokens[k].type \in DocumentTypes
        PROVE  f[k - 1].flows > 0
    <3> HIDE DEF p
    <3>1. CASE k <= l
      <4>1. k \in 1..l /\ k \in p..l /\ k - 1 \in 0..l
        BY <1>2, <2>2, <3>1
      <4>2. h[k - 1].flows > 0
        BY <1>3, <2>1, <2>6, <4>1 DEF Encloses, p, l
      <4>3. QED
        BY <1>5, <4>1, <4>2
    <3>2. CASE ~(k <= l)
      <4> DEFINE j == k - l
      <4>1. j \in 1..n /\ l + j = k
        BY <1>2, <2>2, <3>2
      <4> HIDE DEF j
      <4>2. t.tokens[l + j] = ends[j] /\ ends[j].type = "BLOCK-END"
        BY <1>2, <1>3, <4>1 DEF n
      <4>3. t.tokens[k].type = "BLOCK-END"
        BY <4>1, <4>2
      <4>4. QED
        BY <2>6, <4>3 DEF DocumentTypes
    <3>3. QED
      BY <3>1, <3>2
  <2>7. QED
    BY <1>3, <1>7, <2>4, <2>5, <2>6 DEF Encloses
<1>9. KeysWait(t, 0) /\ KeysEnclose(t, f)
  BY <1>8 DEF KeysWait, KeysEnclose
<1>10. Nested(t.simpleKeys)
  BY DEF Queued
<1>11. QED
  BY <1>4, <1>5, <1>6, <1>9, <1>10 DEF Queued, x, n

(* The first k elements, taken apart.                                      *)
LEMMA FirstAndLast ==
    ASSUME NEW S, NEW q \in Seq(S), NEW k \in DOMAIN q
    PROVE  LET r == Append(SubSeq(q, 1, k - 1), q[k]) IN
           /\ Len(SubSeq(q, 1, k - 1)) = k - 1
           /\ Len(r) = k /\ \A i \in 1..k : r[i] = q[i]
<1> DEFINE a == SubSeq(q, 1, k - 1)
           r == Append(a, q[k])
<1>1. k \in 1..Len(q) /\ Len(q) \in Nat /\ q[k] \in S
  OBVIOUS
<1>2. a \in Seq(S) /\ Len(a) = k - 1 /\ \A i \in 1..(k - 1) : a[i] = q[i]
  BY <1>1
<1> HIDE DEF a
<1>3. /\ Len(r) = Len(a) + 1 /\ r[Len(a) + 1] = q[k]
      /\ \A i \in 1..Len(a) : r[i] = a[i]
  BY <1>1, <1>2, Appended
<1> HIDE DEF r
<1>4. ASSUME NEW i \in 1..k PROVE r[i] = q[i]
  <2>1. CASE i = k
    BY <1>1, <1>2, <1>3, <2>1
  <2>2. CASE i # k
    <3>1. i \in 1..(k - 1)
      BY <1>1, <2>2
    <3>2. QED
      BY <1>2, <1>3, <3>1
  <2>3. QED
    BY <2>1, <2>2
<1>5. QED
  BY <1>1, <1>2, <1>3, <1>4 DEF r, a

(* Levels end.                                                             *)
Unrolled(V, g, s, column, t, x) ==
    /\ Sound(V, g, t, x, 0) /\ (~t.error => Ready(t, x))
    /\ t.simpleKeys = s.simpleKeys /\ t.error = s.error /\ SamePlace(s, t)
    /\ t.flowLevel = s.flowLevel
    /\ column = -1 /\ s.flowLevel = 0 => Len(t.indents) = 0

LEMMA SoundUnrolled ==
    ASSUME NEW V, NEW g, NEW s, NEW e, Sound(V, g, s, e, 0), NEW column \in Nat \cup {-1},
           ~s.error => Ready(s, e)
    PROVE  \E x : Unrolled(V, g, s, column, UnrollIndent(s, column), x)
<1> DEFINE t == UnrollIndent(s, column)
<1>1. s \in ScannersOver(V) /\ Rooted(s) /\ Open(s) /\ Vocabulary(V) /\ s.flowLevel \in Nat
  BY Fields DEF Sound
<1>2. \/ s.flowLevel > 0 /\ t = s
      \/ s.flowLevel = 0 /\ Unrolls(V, s, column, t)
  BY <1>1, UnrollFields
<1> HIDE DEF t
<1>3. CASE s.flowLevel > 0 /\ t = s
  <2>1. Unrolled(V, g, s, column, t, e)
    BY <1>1, <1>3 DEF Unrolled, SamePlace
  <2>2. QED
    BY <2>1 DEF t
<1>4. CASE s.flowLevel = 0 /\ Unrolls(V, s, column, t)
  <2> DEFINE levels == IndentLevels(s)
  <2>1. PICK kept \in DOMAIN levels, ends \in Seq(V) :
            /\ levels[kept] <= column
            /\ Len(ends) = Len(levels) - kept
            /\ \A k \in DOMAIN ends : ends[k].type = "BLOCK-END"
            /\ Indented(V, s, levels[kept], SubSeq(levels, 1, kept - 1), s.tokens \o ends, t)
    BY <1>4 DEF Unrolls
  <2>2. /\ t \in ScannersOver(V) /\ SamePlace(s, t) /\ t.error = s.error
        /\ t.flowLevel = s.flowLevel /\ t.simpleKeys = s.simpleKeys
        /\ t.indent = levels[kept] /\ t.indents = SubSeq(levels, 1, kept - 1)
        /\ t.tokens = s.tokens \o ends
    BY <2>1 DEF Indented
  <2>3. /\ levels \in Seq(Nat \cup {-1}) /\ Len(s.indents) \in Nat
        /\ Len(levels) = Len(s.indents) + 1 /\ DOMAIN levels = 1..Len(levels)
    BY <1>1, LevelsOfIndents
  <2>4. levels[1] = -1 /\ \A i \in 2..Len(levels) : levels[i] \in Nat
    BY <1>1 DEF Rooted
  <2>5. IndentLevels(t) = Append(SubSeq(levels, 1, kept - 1), levels[kept])
    BY <2>2 DEF IndentLevels
  <2> HIDE DEF levels
  <2>6. /\ Len(t.indents) = kept - 1
        /\ Len(IndentLevels(t)) = kept /\ \A i \in 1..kept : IndentLevels(t)[i] = levels[i]
    BY <2>2, <2>3, <2>5, FirstAndLast
  <2>7. kept \in 1..Len(levels)
    BY <2>3
  <2>8. Rooted(t)
    <3>1. IndentLevels(t)[1] = -1 /\ \A i \in 2..kept : IndentLevels(t)[i] \in Nat
      <4>1. 1 \in 1..kept /\ \A i \in 2..kept : i \in 1..kept /\ i \in 2..Len(levels)
        BY <2>3, <2>7
      <4>2. QED
        BY <2>4, <2>6, <4>1
    <3>2. QED
      BY <1>1, <2>2, <2>6, <3>1 DEF Rooted, SamePlace
  <2>9. Open(t)
    <3> DEFINE q == s.tokens
               r == q \o ends
    <3>1. q \in Seq(V) /\ ends \in Seq(V) /\ DOMAIN q = 1..Len(q) /\ DOMAIN ends = 1..Len(ends)
          /\ Len(q) \in Nat /\ Len(ends) \in Nat
      BY <1>1, Fields
    <3>2. /\ r \in Seq(V) /\ Len(r) = Len(q) + Len(ends)
          /\ \A k \in 1..Len(q) : r[k] = q[k]
          /\ \A k \in 1..Len(ends) : r[Len(q) + k] = ends[k]
      <4>1. q \in Seq(V) /\ ends \in Seq(V)
        BY <3>1
      <4> HIDE DEF q
      <4>2. QED
        BY ONLY <4>1, Concatenation
    <3>3. \A k \in 1..Len(q) : q[k].type # "STREAM-END"
      BY <1>1, <3>1 DEF Open
    <3> HIDE DEF r, q
    <3>4. ASSUME NEW k \in 1..(Len(q) + Len(ends)) PROVE r[k].type # "STREAM-END"
      <4>1. CASE k <= Len(q)
        BY <3>1, <3>2, <3>3, <4>1
      <4>2. CASE ~(k <= Len(q))
        <5> DEFINE j == k - Len(q)
        <5>1. j \in 1..Len(ends) /\ Len(q) + j = k
          BY <3>1, <4>2
        <5> HIDE DEF j
        <5>2. r[Len(q) + j] = ends[j] /\ ends[j].type = "BLOCK-END"
          BY <2>1, <3>1, <3>2, <5>1
        <5>3. r[k].type = "BLOCK-END"
          BY <5>1, <5>2
        <5>4. QED
          BY <5>3
      <4>3. QED
        BY <4>1, <4>2
    <3>5. \A k \in DOMAIN r : r[k].type # "STREAM-END"
      <4>1. DOMAIN r = 1..(Len(q) + Len(ends))
        BY <3>2
      <4>2. QED
        BY <3>4, <4>1
    <3>6. QED
      BY <2>2, <3>5 DEF Open, r, q
  <2>10. column = -1 => Len(t.indents) = 0
    <3>1. ASSUME column = -1 PROVE kept = 1
      <4>1. kept # 1 => levels[kept] \in Nat
        BY <2>3, <2>4, <2>7
      <4>2. QED
        BY <2>1, <3>1, <4>1
    <3>2. QED
      BY <2>6, <3>1
  <2> DEFINE n == Len(ends)
             x == Closed(e, n)
  <2>11. ASSUME ~t.error PROVE Queued(g, t, x, 0) /\ Ready(t, x)
    <3>1. Queued(g, s, e, 0) /\ Ready(s, e) /\ e \in Givens
      BY <2>2, <2>11 DEF Sound, Queued
    <3>2. Len(s.indents) = Len(t.indents) + n
      BY <2>1, <2>3, <2>6, <2>7
    <3>3. Queued(g, t, x, 0)
      BY <1>1, <1>4, <2>1, <2>2, <3>1, <3>2, QueuedCloses
    <3>4. Ready(t, x)
      BY <2>2, <3>1 DEF Ready, Closed
    <3>5. QED
      BY <3>3, <3>4
  <2> HIDE DEF x
  <2>12. Sound(V, g, t, x, 0)
    BY <1>1, <2>2, <2>8, <2>9, <2>11 DEF Sound
  <2>13. Unrolled(V, g, s, column, t, x)
    BY <2>2, <2>10, <2>11, <2>12 DEF Unrolled
  <2>14. QED
    BY <2>13 DEF t
<1>5. QED
  BY <1>2, <1>3, <1>4

(* A key that was saved for a token lies behind once the token is read.    *)
LEMMA KeysAreBehind ==
    ASSUME NEW V, NEW g, NEW s, NEW e, NEW m, Sound(V, g, s, e, m), ~s.error,
           NEW t, Consumes(V, s, t), ~t.error
    PROVE  KeysBehind(t)
<1>1. s \in ScannersOver(V) /\ t \in ScannersOver(V) /\ Behind(s, t)
      /\ t.simpleKeys = s.simpleKeys /\ KeysWait(s, m)
  BY DEF Sound, Queued, Consumes, Reads, SameStructure
<1>2. ASSUME NEW i \in DOMAIN s.simpleKeys, NEW key \in s.simpleKeys[i]
      PROVE  Behind(key, t)
  <2>1. Waits(s, key, m)
    BY <1>1 DEF KeysWait
  <2>2. Behind(key, s) \/ NotBefore(key, s)
    BY <2>1 DEF Waits
  <2>3. key \in Keys
    BY <1>1, KeysAreKeys
  <2>4. QED
    BY <1>1, <2>2, <2>3, Fields DEF Behind, NotBefore, Keys
<1>3. QED
  BY <1>1, <1>2 DEF KeysBehind

-----------------------------------------------------------------------------
(* A token in front of another one: what the caller knows behind it is the *)
(* same but for the levels.                                                *)
Deeper(x, d) == [token |-> x.token, blocks |-> x.blocks + d, flows |-> x.flows,
                 started |-> x.started]

LEMMA AfterDeeper ==
    ASSUME NEW x \in Givens, NEW y \in Givens, NEW d \in Nat,
           y.blocks = x.blocks + d, y.flows = x.flows, NEW type
    PROVE  GivenAfter(y, type) = Deeper(GivenAfter(x, type), d)
<1>1. x.blocks \in Nat /\ y.blocks \in Nat
  BY DEF Givens
<1> DEFINE less == Max({x.flows - 1, 0})
           f == CASE type \in {"FLOW-SEQUENCE-START", "FLOW-MAPPING-START"} -> x.flows + 1
                  [] type \in {"FLOW-SEQUENCE-END", "FLOW-MAPPING-END"} -> less
                  [] OTHER -> x.flows
           b(z) == CASE type \in {"BLOCK-SEQUENCE-START", "BLOCK-MAPPING-START"} -> z.blocks + 1
                     [] type = "BLOCK-END" -> z.blocks - 1
                     [] OTHER -> z.blocks
<1>2. /\ GivenAfter(x, type) = [token |-> type, started |-> TRUE, blocks |-> b(x), flows |-> f]
      /\ GivenAfter(y, type) = [token |-> type, started |-> TRUE, blocks |-> b(y), flows |-> f]
  BY DEF GivenAfter
<1> HIDE DEF f
<1>3. b(y) = b(x) + d
  BY <1>1
<1> HIDE DEF b
<1>4. QED
  BY <1>2, <1>3 DEF Deeper

LEMMA AllowedDeeper ==
    ASSUME NEW x \in Givens, NEW d \in Nat, NEW type, Allowed(x, type),
           type \in DocumentTypes => x.flows > 0
    PROVE  Allowed(Deeper(x, d), type) /\ Deeper(x, d) \in Givens
<1> DEFINE y == Deeper(x, d)
<1>1. /\ y.token = x.token /\ y.started = x.started /\ y.flows = x.flows
      /\ y.blocks = x.blocks + d /\ x.blocks \in Nat
  BY DEF Deeper, Givens
<1>2. y \in Givens
  BY DEF Deeper, Givens
<1> HIDE DEF y
<1>3. x.blocks > 0 => y.blocks > 0
  BY <1>1
<1>4. Allowed(y, type)
  BY <1>1, <1>3 DEF Allowed
<1>5. QED
  BY <1>2, <1>4 DEF y

(* The walk with a token more at the place p.                              *)
Clear(q, h, p) == \A k \in p..Len(q) : q[k].type \in DocumentTypes => h[k - 1].flows > 0

WalksAround(g, q, h, p, r, n, x) ==
    \E f : /\ Walk(g, r, f, x)
           /\ \A k \in 0..(p - 1) : f[k] = h[k]
           /\ f[p] = n
           /\ \A k \in p..Len(q) : f[k].flows = h[k - 1].flows

LEMMA WalkInserts ==
    ASSUME NEW V, Vocabulary(V), NEW g, NEW q \in Seq(V), NEW h, NEW e, Walk(g, q, h, e),
           NEW p \in DOMAIN q, NEW token \in V, NEW r \in Seq(V), Inserted(q, p, token, r),
           NEW d \in Nat, NEW n, n = GivenAfter(h[p - 1], token.type),
           n.blocks = h[p - 1].blocks + d, n.flows = h[p - 1].flows,
           Allowed(h[p - 1], token.type), Allowed(n, q[p].type),
           Clear(q, h, p)
    PROVE  WalksAround(g, q, h, p, r, n, Deeper(e, d))
<1> DEFINE l == Len(q)
           f == [k \in 0..(l + 1) |-> IF k < p THEN h[k] ELSE
                                      IF k = p THEN n ELSE Deeper(h[k - 1], d)]
<1>1. /\ l \in Nat /\ p \in 1..l /\ Len(r) = l + 1
      /\ r[p] = token
      /\ \A k \in 1..(p - 1) : r[k] = q[k]
      /\ \A k \in p..l : r[k + 1] = q[k]
  BY DEF Inserted
<1>2. /\ h \in [0..l -> Givens] /\ h[0] = g /\ h[l] = e
      /\ \A k \in 1..l : /\ Allowed(h[k - 1], q[k].type)
                         /\ h[k] = GivenAfter(h[k - 1], q[k].type)
  BY DEF Walk
<1>3. \A k \in p..l : q[k].type \in DocumentTypes => h[k - 1].flows > 0
  BY DEF Clear
<1> HIDE DEF l
<1>4. \A k \in 0..l : h[k] \in Givens
  BY <1>2
<1>5. n \in Givens
  <2>1. h[p - 1] \in Givens
    <3>1. p - 1 \in 0..l
      BY <1>1
    <3>2. QED
      BY <1>4, <3>1
  <2>2. token.type \in TokenTypes
    BY DEF Vocabulary
  <2>3. QED
    BY <2>1, <2>2, GivenAfterIs
<1>6. \A k \in 0..l : Deeper(h[k], d) \in Givens
  <2>1. ASSUME NEW k \in 0..l PROVE Deeper(h[k], d) \in Givens
    <3> DEFINE x == h[k]
    <3>1. x \in Givens
      BY <1>4, <2>1
    <3> HIDE DEF x
    <3>2. x.blocks + d \in Nat
      BY <3>1 DEF Givens
    <3>3. Deeper(x, d) \in Givens
      BY <3>1, <3>2 DEF Givens, Deeper
    <3>4. QED
      BY <3>3 DEF x
  <2>2. QED
    BY <2>1
<1>7. /\ \A k \in 0..(p - 1) : f[k] = h[k]
      /\ f[p] = n
      /\ \A k \in p..l : f[k + 1] = Deeper(h[k], d)
  <2>1. \A k \in 0..(p - 1) : k \in 0..(l + 1) /\ k < p
    BY <1>1
  <2>2. p \in 0..(l + 1)
    BY <1>1
  <2>3. ASSUME NEW k \in p..l PROVE f[k + 1] = Deeper(h[k], d)
    <3> DEFINE j == k + 1
    <3>1. j \in 0..(l + 1) /\ ~(j < p) /\ j # p /\ j - 1 = k
      BY <1>1
    <3> HIDE DEF j
    <3>2. f[j] = Deeper(h[j - 1], d)
      BY <3>1
    <3>3. QED
      BY <3>1, <3>2 DEF j
  <2>4. QED
    BY <2>1, <2>2, <2>3
<1>8. f \in [0..(l + 1) -> Givens]
  <2>1. ASSUME NEW k \in 0..(l + 1) PROVE f[k] \in Givens
    <3>1. CASE k < p
      <4>1. k \in 0..(p - 1) /\ k \in 0..l
        BY <1>1, <3>1
      <4>2. QED
        BY <1>4, <1>7, <4>1
    <3>2. CASE k = p
      BY <1>5, <1>7, <3>2
    <3>3. CASE k > p
      <4> DEFINE j == k - 1
      <4>1. j \in p..l /\ j \in 0..l /\ j + 1 = k
        BY <1>1, <3>3
      <4> HIDE DEF j
      <4>2. f[j + 1] \in Givens
        BY <1>6, <1>7, <4>1
      <4>3. QED
        BY <4>1, <4>2
    <3>4. QED
      BY <1>1, <3>1, <3>2, <3>3
  <2>2. QED
    BY <2>1
<1> HIDE DEF f
<1>9. ASSUME NEW k \in 1..(l + 1)
      PROVE  Allowed(f[k - 1], r[k].type) /\ f[k] = GivenAfter(f[k - 1], r[k].type)
  <2>1. CASE k < p
    <3>1. k \in 1..(p - 1) /\ k \in 0..(p - 1) /\ k - 1 \in 0..(p - 1) /\ k \in 1..l
      BY <1>1, <2>1
    <3>2. f[k] = h[k] /\ f[k - 1] = h[k - 1] /\ r[k] = q[k]
      BY <1>1, <1>7, <3>1
    <3>3. QED
      BY <1>2, <3>1, <3>2
  <2>2. CASE k = p
    <3>1. p - 1 \in 0..(p - 1)
      BY <1>1
    <3>2. f[p] = n /\ f[p - 1] = h[p - 1] /\ r[p] = token
      BY <1>1, <1>7, <3>1
    <3>3. QED
      BY <2>2, <3>2
  <2>3. CASE k = p + 1
    <3>1. p \in p..l /\ p \in 1..l /\ p - 1 \in 0..l
      BY <1>1
    <3>2. r[k] = q[p] /\ f[k] = Deeper(h[p], d)
      BY <1>1, <1>7, <2>3, <3>1
    <3>3. k - 1 = p /\ f[k - 1] = n
      BY <1>1, <1>7, <2>3
    <3> DEFINE x == h[p - 1]
               type == q[p].type
    <3>4. x \in Givens /\ h[p] = GivenAfter(x, type)
      BY <1>2, <1>4, <3>1
    <3>5. n.blocks = x.blocks + d /\ n.flows = x.flows
      OBVIOUS
    <3> HIDE DEF x, type
    <3>6. GivenAfter(n, type) = Deeper(GivenAfter(x, type), d)
      BY <1>5, <3>4, <3>5, AfterDeeper
    <3>7. f[k] = GivenAfter(f[k - 1], type)
      BY <3>2, <3>3, <3>4, <3>6
    <3>8. QED
      BY <3>2, <3>3, <3>7 DEF type
  <2>4. CASE k > p + 1
    <3> DEFINE j == k - 1
               i == k - 2
    <3>1. /\ j \in p..l /\ j \in 1..l /\ j + 1 = k /\ i \in p..l /\ i + 1 = k - 1 /\ j - 1 = i
          /\ i \in 0..l
      BY <1>1, <2>4
    <3> HIDE DEF j, i
    <3>2. f[j + 1] = Deeper(h[j], d) /\ f[i + 1] = Deeper(h[i], d) /\ r[j + 1] = q[j]
      BY <1>1, <1>7, <3>1
    <3>3. f[k] = Deeper(h[j], d) /\ f[k - 1] = Deeper(h[i], d) /\ r[k] = q[j]
      BY <3>1, <3>2
    <3> DEFINE x == h[i]
               type == q[j].type
               y == Deeper(x, d)
    <3>4. /\ x \in Givens /\ Allowed(x, type) /\ h[j] = GivenAfter(x, type)
          /\ (type \in DocumentTypes => x.flows > 0)
      BY <1>2, <1>3, <1>4, <3>1
    <3> HIDE DEF x, type
    <3>5. Allowed(y, type) /\ y \in Givens
      BY <3>4, AllowedDeeper
    <3>6. y.blocks = x.blocks + d /\ y.flows = x.flows
      BY DEF Deeper
    <3> HIDE DEF y
    <3>7. GivenAfter(y, type) = Deeper(GivenAfter(x, type), d)
      BY <3>4, <3>5, <3>6, AfterDeeper
    <3>8. QED
      BY <3>3, <3>4, <3>5, <3>7 DEF x, type, y
  <2>5. QED
    BY <1>1, <2>1, <2>2, <2>3, <2>4
<1>10. f[0] = g /\ f[l + 1] = Deeper(e, d)
  <2>1. 0 \in 0..(p - 1) /\ l \in p..l
    BY <1>1
  <2>2. QED
    BY <1>2, <1>7, <2>1
<1>11. Walk(g, r, f, Deeper(e, d))
  BY <1>1, <1>8, <1>9, <1>10 DEF Walk
<1>12. \A k \in p..l : f[k].flows = h[k - 1].flows
  <2>1. ASSUME NEW k \in p..l PROVE f[k].flows = h[k - 1].flows
    <3>1. CASE k = p
      BY <1>7, <3>1
    <3>2. CASE k # p
      <4> DEFINE i == k - 1
      <4>1. i \in p..l /\ i + 1 = k
        BY <1>1, <3>2
      <4> HIDE DEF i
      <4>2. f[i + 1] = Deeper(h[i], d)
        BY <1>7, <4>1
      <4>3. f[k].flows = h[i].flows
        BY <4>1, <4>2 DEF Deeper
      <4>4. QED
        BY <4>3 DEF i
    <3>3. QED
      BY <3>1, <3>2
  <2>2. QED
    BY <2>1
<1>13. QED
  BY <1>7, <1>11, <1>12 DEF WalksAround, l

(* The keys in front of that place stay where they are.                    *)
KeysBefore(s, p) == \A i \in DOMAIN s.simpleKeys : \A key \in s.simpleKeys[i] : Place(s, key) < p

Enters(g, s, h, p, t, n, x) ==
    \E f : /\ Walk(g, t.tokens, f, x) /\ KeysEnclose(t, f)
           /\ f[p - 1] = h[p - 1] /\ f[p] = n
           /\ Clear(t.tokens, f, p)

LEMMA QueuedInserts ==
    ASSUME NEW V, Vocabulary(V), NEW g, NEW s \in ScannersOver(V), NEW t \in ScannersOver(V),
           SamePlace(s, t), t.simpleKeys = s.simpleKeys, NEW p, KeysBefore(s, p),
           NEW h, NEW e, Walk(g, s.tokens, h, e), KeysEnclose(s, h), KeysWait(s, 0),
           p \in DOMAIN s.tokens, NEW token \in V, Inserted(s.tokens, p, token, t.tokens),
           NEW d \in Nat, NEW n, n = GivenAfter(h[p - 1], token.type),
           n.blocks = h[p - 1].blocks + d, n.flows = h[p - 1].flows,
           Allowed(h[p - 1], token.type), Allowed(n, s.tokens[p].type),
           Clear(s.tokens, h, p), token.type \notin DocumentTypes
    PROVE  Enters(g, s, h, p, t, n, Deeper(e, d)) /\ KeysWait(t, 0) /\ KeysBefore(t, p)
<1> DEFINE q == s.tokens
           r == t.tokens
           l == Len(q)
           x == Deeper(e, d)
<1>1. q \in Seq(V) /\ r \in Seq(V) /\ DOMAIN q = 1..l /\ l \in Nat /\ DOMAIN r = 1..Len(r)
  <2>1. q \in Seq(V) /\ r \in Seq(V)
    BY Fields
  <2>2. QED
    BY <2>1
<1>2. /\ p \in 1..l /\ Len(r) = l + 1 /\ r[p] = token
      /\ \A k \in 1..(p - 1) : r[k] = q[k]
      /\ \A k \in p..l : r[k + 1] = q[k]
  BY <1>1 DEF Inserted
<1>3. WalksAround(g, q, h, p, r, n, x)
  <2> HIDE DEF x
  <2>1. p \in DOMAIN q /\ Inserted(q, p, token, r) /\ Walk(g, q, h, e) /\ Clear(q, h, p)
        /\ Allowed(n, q[p].type)
    OBVIOUS
  <2> HIDE DEF q, r
  <2>2. QED
    BY <1>1, <2>1, WalkInserts DEF x
<1>4. PICK f : /\ Walk(g, r, f, x)
               /\ \A k \in 0..(p - 1) : f[k] = h[k]
               /\ f[p] = n
               /\ \A k \in p..l : f[k].flows = h[k - 1].flows
  BY <1>3 DEF WalksAround
<1>5. \A key : Place(t, key) = Place(s, key)
  BY DEF Place, SamePlace
<1> HIDE DEF x
<1>6. ASSUME NEW k \in p..(l + 1), r[k].type \in DocumentTypes,
             NEW b \in 1..l, b <= p,
             \A j \in b..l : q[j].type \in DocumentTypes => h[j - 1].flows > 0
      PROVE  f[k - 1].flows > 0
  <2>1. CASE k = p
    BY <1>2, <1>6, <2>1
  <2>2. CASE k # p
    <3> DEFINE j == k - 1
    <3>1. j \in p..l /\ j \in b..l /\ j + 1 = k
      BY <1>1, <1>2, <1>6, <2>2
    <3> HIDE DEF j
    <3>2. r[j + 1] = q[j] /\ f[j].flows = h[j - 1].flows
      BY <1>2, <1>4, <3>1
    <3>3. h[j - 1].flows > 0
      BY <1>6, <3>1, <3>2
    <3>4. QED
      BY <3>2, <3>3 DEF j
  <2>3. QED
    BY <2>1, <2>2
<1>7. Clear(r, f, p)
  <2>1. \A j \in p..l : q[j].type \in DocumentTypes => h[j - 1].flows > 0
    BY DEF Clear
  <2>2. p <= p
    BY <1>1, <1>2
  <2>3. \A k \in p..(l + 1) : r[k].type \in DocumentTypes => f[k - 1].flows > 0
    BY <1>2, <1>6, <2>1, <2>2
  <2>4. QED
    BY <1>2, <2>3 DEF Clear
<1>8. ASSUME NEW i \in DOMAIN s.simpleKeys, NEW key \in s.simpleKeys[i]
      PROVE  Waits(t, key, 0) /\ Encloses(t, f, key, i - 1) /\ Place(t, key) < p
  <2> DEFINE b == Place(s, key)
  <2>1. Waits(s, key, 0) /\ Encloses(s, h, key, i - 1) /\ b < p
    BY DEF KeysWait, KeysEnclose, KeysBefore
  <2>2. b \in 1..l /\ q[b].type \in KeyStarts /\ Behind(key, s)
    BY <1>1, <2>1 DEF Waits
  <2>3. b \in 1..(p - 1) /\ b \in 1..(l + 1) /\ b - 1 \in 0..(p - 1)
    BY <1>1, <1>2, <2>1, <2>2
  <2>4. Behind(key, t)
    BY <2>2 DEF Behind, SamePlace
  <2>5. Waits(t, key, 0)
    BY <1>1, <1>2, <1>5, <2>2, <2>3, <2>4 DEF Waits
  <2>6. f[b - 1].flows = i - 1
    BY <1>4, <2>1, <2>3 DEF Encloses
  <2>7. \A j \in b..l : q[j].type \in DocumentTypes => h[j - 1].flows > 0
    BY <2>1 DEF Encloses
  <2> HIDE DEF b
  <2>8. ASSUME NEW k \in b..(l + 1), r[k].type \in DocumentTypes PROVE f[k - 1].flows > 0
    <3>1. CASE k < p
      <4>1. k \in 1..(p - 1) /\ k \in b..l /\ k - 1 \in 0..(p - 1)
        BY <1>1, <1>2, <2>3, <3>1
      <4>2. QED
        BY <1>2, <1>4, <2>7, <2>8, <4>1
    <3>2. CASE ~(k < p)
      <4>1. k \in p..(l + 1) /\ b <= p
        BY <1>1, <1>2, <2>3, <3>2
      <4>2. QED
        BY <1>6, <2>2, <2>7, <2>8, <4>1
    <3>3. QED
      BY <3>1, <3>2
  <2>9. \A k \in b..Len(r) : r[k].type \in DocumentTypes => f[k - 1].flows > 0
    BY <1>2, <2>8
  <2>10. Encloses(t, f, key, i - 1)
    BY <1>5, <2>6, <2>9 DEF Encloses, b
  <2>11. QED
    BY <1>5, <2>1, <2>5, <2>10 DEF b
<1>9. KeysWait(t, 0) /\ KeysEnclose(t, f) /\ KeysBefore(t, p)
  BY <1>8 DEF KeysWait, KeysEnclose, KeysBefore
<1>10. QED
  BY <1>4, <1>7, <1>9 DEF Enters, x

(* The keys go with the level, whatever is done to the queue meanwhile.    *)
LEMMA InsertKeyIs ==
    ASSUME NEW V, NEW s \in ScannersOver(V), NEW key
    PROVE  LET u == SetKey(s, {}) IN
           InsertKey(s, key) =
               Allow(RollIndent(QueueInsert(u, key.number, "KEY"), key.column,
                                {key.number}, "BLOCK-MAPPING-START"), FALSE)
<1> DEFINE none == {}
           u == SetKey(s, none)
           number == key.number
           column == key.column
           where == {number}
           start == "BLOCK-MAPPING-START"
           t == QueueInsert(s, number, "KEY")
           v == QueueInsert(u, number, "KEY")
           token == Token("KEY", "", <<>>)
           q == InsertAt(s.tokens, number - s.tokensParsed + 1, token)
           ks == Append(Front(s.simpleKeys), none)
<1>1. t = [s EXCEPT !.tokens = q]
  BY DEF QueueInsert, ScannersOver
<1>2. u = [s EXCEPT !.simpleKeys = ks]
  BY DEF SetKey, ScannersOver
<1>3. u.tokens = s.tokens /\ u.tokensParsed = s.tokensParsed
  BY <1>2 DEF ScannersOver
<1>4. v = [u EXCEPT !.tokens = q]
  <2>1. v = [u EXCEPT !.tokens = InsertAt(u.tokens, number - u.tokensParsed + 1, token)]
    BY <1>2 DEF QueueInsert, ScannersOver
  <2>2. QED
    BY <1>3, <2>1
<1>5. SetKey(t, none) = [t EXCEPT !.simpleKeys = ks]
  BY <1>1 DEF SetKey, ScannersOver
<1> HIDE DEF q, ks, none
<1>6. [[s EXCEPT !.tokens = q] EXCEPT !.simpleKeys = ks]
          = [[s EXCEPT !.simpleKeys = ks] EXCEPT !.tokens = q]
  BY DEF ScannersOver
<1>7. SetKey(t, none) = v
  BY <1>1, <1>2, <1>4, <1>5, <1>6
<1>8. /\ t.flowLevel = s.flowLevel /\ t.indent = s.indent /\ t.indents = s.indents
      /\ t.tokens = q /\ t.tokensParsed = s.tokensParsed /\ t.simpleKeys = s.simpleKeys
  BY <1>1 DEF ScannersOver
<1>9. /\ v.flowLevel = s.flowLevel /\ v.indent = s.indent /\ v.indents = s.indents
      /\ v.tokens = q /\ v.tokensParsed = s.tokensParsed /\ v.simpleKeys = ks
  BY <1>2, <1>4 DEF ScannersOver
<1>10. SetKey(RollIndent(t, column, where, start), none) = RollIndent(v, column, where, start)
  <2>1. CASE s.flowLevel > 0 \/ s.indent >= column
    <3>1. RollIndent(t, column, where, start) = t /\ RollIndent(v, column, where, start) = v
      BY <1>8, <1>9, <2>1 DEF RollIndent
    <3>2. QED
      BY <1>7, <3>1
  <2>2. CASE ~(s.flowLevel > 0 \/ s.indent >= column)
    <3> DEFINE other == CHOOSE any \in where : TRUE
               opening == Token(start, "", <<>>)
               rolled == InsertAt(q, other - s.tokensParsed + 1, opening)
               ds == Append(s.indents, s.indent)
    <3>1. where # {}
      OBVIOUS
    <3>2. /\ RollIndent(t, column, where, start) =
                 QueueInsert([t EXCEPT !.indents = Append(@, t.indent), !.indent = column],
                             other, start)
          /\ RollIndent(v, column, where, start) =
                 QueueInsert([v EXCEPT !.indents = Append(@, v.indent), !.indent = column],
                             other, start)
      BY <1>8, <1>9, <2>2, <3>1 DEF RollIndent
    <3> HIDE DEF other
    <3>3. RollIndent(t, column, where, start) =
              [t EXCEPT !.indents = ds, !.indent = column, !.tokens = rolled]
      BY <1>1, <1>8, <3>2 DEF QueueInsert, ScannersOver
    <3>4. RollIndent(v, column, where, start) =
              [v EXCEPT !.indents = ds, !.indent = column, !.tokens = rolled]
      BY <1>2, <1>4, <1>9, <3>2 DEF QueueInsert, ScannersOver
    <3> HIDE DEF ds, rolled, column
    <3>5. SetKey([t EXCEPT !.indents = ds, !.indent = column, !.tokens = rolled], none) =
              [[t EXCEPT !.indents = ds, !.indent = column, !.tokens = rolled]
                  EXCEPT !.simpleKeys = ks]
      BY <1>1, <1>8 DEF SetKey, ScannersOver, ks
    <3> DEFINE a == [s EXCEPT !.indents = ds, !.indent = column, !.tokens = rolled,
                              !.simpleKeys = ks]
    <3>6. [[t EXCEPT !.indents = ds, !.indent = column, !.tokens = rolled]
              EXCEPT !.simpleKeys = ks] = a
      <4>1. [t EXCEPT !.indents = ds, !.indent = column, !.tokens = rolled]
            = [s EXCEPT !.indents = ds, !.indent = column, !.tokens = rolled]
        BY <1>1 DEF ScannersOver
      <4>2. QED
        BY <4>1 DEF ScannersOver
    <3>7. [v EXCEPT !.indents = ds, !.indent = column, !.tokens = rolled] = a
      <4>1. v = [s EXCEPT !.simpleKeys = ks, !.tokens = q]
        BY <1>2, <1>4 DEF ScannersOver
      <4>2. QED
        BY <4>1 DEF ScannersOver
    <3>8. QED
      BY <3>3, <3>4, <3>5, <3>6, <3>7
  <2>3. QED
    BY <2>1, <2>2
<1>11. InsertKey(s, key) = Allow(SetKey(RollIndent(t, column, where, start), none), FALSE)
  BY DEF InsertKey, none
<1>12. QED
  BY <1>10, <1>11 DEF none

LEMMA OpenInserted ==
    ASSUME NEW V, NEW s \in ScannersOver(V), NEW t \in ScannersOver(V), Open(s),
           NEW p \in DOMAIN s.tokens, NEW token, token.type # "STREAM-END",
           Inserted(s.tokens, p, token, t.tokens)
    PROVE  Open(t)
<1> DEFINE q == s.tokens
           r == t.tokens
           l == Len(q)
<1>1. q \in Seq(V) /\ r \in Seq(V) /\ DOMAIN q = 1..l /\ l \in Nat /\ DOMAIN r = 1..Len(r)
  <2>1. q \in Seq(V) /\ r \in Seq(V)
    BY Fields
  <2>2. QED
    BY <2>1
<1>2. /\ p \in 1..l /\ Len(r) = l + 1 /\ r[p] = token
      /\ \A k \in 1..(p - 1) : r[k] = q[k]
      /\ \A k \in p..l : r[k + 1] = q[k]
  BY <1>1 DEF Inserted
<1>3. \A k \in 1..l : q[k].type # "STREAM-END"
  BY <1>1 DEF Open
<1>4. ASSUME NEW k \in 1..(l + 1) PROVE r[k].type # "STREAM-END"
  <2>1. CASE k < p
    <3>1. k \in 1..(p - 1) /\ k \in 1..l
      BY <1>1, <1>2, <2>1
    <3>2. QED
      BY <1>2, <1>3, <3>1
  <2>2. CASE k = p
    BY <1>2, <2>2
  <2>3. CASE k > p
    <3> DEFINE j == k - 1
    <3>1. j \in p..l /\ j \in 1..l /\ j + 1 = k
      BY <1>1, <1>2, <2>3
    <3> HIDE DEF j
    <3>2. r[j + 1] = q[j] /\ q[j].type # "STREAM-END"
      BY <1>2, <1>3, <3>1
    <3>3. QED
      BY <3>1, <3>2
  <2>4. QED
    BY <1>1, <1>2, <2>1, <2>2, <2>3
<1>5. QED
  BY <1>1, <1>2, <1>4 DEF Open

(* The place p, in front of a token that starts a key or is KEY.           *)
Spot(g, s, e, p, types) ==
    /\ p \in DOMAIN s.tokens /\ s.tokens[p].type \in types /\ KeysBefore(s, p)
    /\ \E h : /\ Walk(g, s.tokens, h, e) /\ KeysEnclose(s, h)
              /\ Clear(s.tokens, h, p)
              /\ Settled(h[p - 1]) /\ h[p - 1].token # "STREAM-END"
              /\ h[p - 1].started = TRUE /\ h[p - 1].flows = s.flowLevel

KeyItself == {"KEY"}

SameLevel(s, t) ==
    /\ SamePlace(s, t) /\ t.error = s.error /\ t.simpleKeys = s.simpleKeys
    /\ t.flowLevel = s.flowLevel

LEMMA DeeperByNone ==
    ASSUME NEW e \in Givens, NEW z, z = 0
    PROVE  Deeper(e, z) = e
BY DEF Deeper, Givens

LEMMA GivenAfterKey ==
    ASSUME NEW e \in Givens, NEW type, type \in {"KEY", "BLOCK-MAPPING-START"}, Allowed(e, type)
    PROVE  LET n == GivenAfter(e, type) IN
           /\ n \in Givens /\ n.token = type /\ n.started = TRUE /\ n.flows = e.flows
           /\ n.blocks = IF type = "KEY" THEN e.blocks ELSE e.blocks + 1
<1>1. type \in TokenTypes
  BY DEF TokenTypes
<1> DEFINE n == GivenAfter(e, type)
           b == CASE type \in {"BLOCK-SEQUENCE-START", "BLOCK-MAPPING-START"} -> e.blocks + 1
                  [] type = "BLOCK-END" -> e.blocks - 1
                  [] OTHER -> e.blocks
           f == CASE type \in {"FLOW-SEQUENCE-START", "FLOW-MAPPING-START"} -> e.flows + 1
                  [] type \in {"FLOW-SEQUENCE-END", "FLOW-MAPPING-END"} ->
                        IF e.flows > 0 THEN e.flows - 1 ELSE 0
                  [] OTHER -> e.flows
<1>2. n \in Givens /\ n.token = type /\ n.started = TRUE /\ n.blocks = b /\ n.flows = f
  BY <1>1, GivenAfterIs
<1> HIDE DEF n
<1>3. f = e.flows /\ b = IF type = "KEY" THEN e.blocks ELSE e.blocks + 1
  OBVIOUS
<1>4. QED
  BY <1>2, <1>3 DEF n

LEMMA SoundKeyPut ==
    ASSUME NEW V, NEW g, NEW s, NEW e, Sound(V, g, s, e, 0), ~s.error, NEW number \in Nat,
           Spot(g, s, e, number - s.tokensParsed + 1, KeyStarts)
    PROVE  LET t == QueueInsert(s, number, "KEY") IN
           /\ Sound(V, g, t, e, 0) /\ SameLevel(s, t)
           /\ Spot(g, t, e, number - s.tokensParsed + 1, KeyItself)
<1> DEFINE p == number - s.tokensParsed + 1
           t == QueueInsert(s, number, "KEY")
           l == Len(s.tokens)
<1>1. /\ s \in ScannersOver(V) /\ Rooted(s) /\ Open(s) /\ Vocabulary(V)
      /\ Queued(g, s, e, 0) /\ e \in Givens
  BY DEF Sound, Queued
<1>2. /\ p \in DOMAIN s.tokens /\ s.tokens[p].type \in KeyStarts /\ KeysBefore(s, p)
      /\ p \in 1..l /\ l \in Nat
  <2>1. s.tokens \in Seq(V)
    BY <1>1, Fields
  <2>2. QED
    BY <2>1 DEF Spot
<1>3. PICK h : /\ Walk(g, s.tokens, h, e) /\ KeysEnclose(s, h)
               /\ Clear(s.tokens, h, p)
               /\ Settled(h[p - 1]) /\ h[p - 1].token # "STREAM-END"
               /\ h[p - 1].started = TRUE /\ h[p - 1].flows = s.flowLevel
  BY DEF Spot
<1>4. "KEY" \in TokenTypes
  BY DEF TokenTypes
<1>5. PICK q \in Seq(V), token \in V :
          /\ token.type = "KEY" /\ Inserted(s.tokens, p, token, q)
          /\ Requeued(V, s, q, t)
  BY <1>1, <1>2, <1>4, QueueInsertFields
<1> HIDE DEF t, p, l
<1>6. /\ t \in ScannersOver(V) /\ SamePlace(s, t) /\ t.error = s.error
      /\ t.flowLevel = s.flowLevel /\ t.indent = s.indent /\ t.indents = s.indents
      /\ t.simpleKeys = s.simpleKeys /\ t.tokens = q
  BY <1>5 DEF Requeued
<1> DEFINE z == 0
           n == GivenAfter(h[p - 1], token.type)
<1>7. h[p - 1] \in Givens
  <2>1. p - 1 \in 0..l
    BY <1>2
  <2>2. QED
    BY <1>3, <2>1 DEF Walk, l
<1>8. Allowed(h[p - 1], token.type)
  BY <1>3, <1>5 DEF Allowed, Settled, DocumentTypes
<1>9. /\ n \in Givens /\ n.token = "KEY" /\ n.started = TRUE /\ n.flows = h[p - 1].flows
      /\ n.blocks = h[p - 1].blocks
  <2> DEFINE x == h[p - 1]
             type == token.type
  <2>1. x \in Givens /\ type \in {"KEY", "BLOCK-MAPPING-START"} /\ type = "KEY" /\ Allowed(x, type)
    BY <1>5, <1>7, <1>8
  <2> HIDE DEF x, type
  <2> DEFINE y == GivenAfter(x, type)
  <2>2. n = y
    BY DEF x, type
  <2>3. /\ y \in Givens /\ y.token = type /\ y.started = TRUE /\ y.flows = x.flows
        /\ y.blocks = x.blocks
    BY <2>1, GivenAfterKey
  <2> HIDE DEF y, n
  <2>4. QED
    BY <2>1, <2>2, <2>3 DEF x
<1>10. n.blocks = h[p - 1].blocks + z
  BY <1>7, <1>9 DEF Givens
<1> HIDE DEF n
<1>11. Allowed(n, s.tokens[p].type)
  BY <1>2, <1>9 DEF Allowed, KeyStarts, DocumentTypes
<1>12. z \in Nat /\ z = 0 /\ token.type \notin DocumentTypes
  BY <1>5 DEF DocumentTypes
<1> HIDE DEF z
<1>13. /\ Enters(g, s, h, p, t, n, Deeper(e, z)) /\ KeysWait(t, 0) /\ KeysBefore(t, p)
  <2>1. KeysWait(s, 0)
    BY <1>1 DEF Queued
  <2>2. QED
    BY <1>1, <1>2, <1>3, <1>5, <1>6, <1>8, <1>9, <1>10, <1>11, <1>12, <2>1, QueuedInserts DEF n
<1>14. Deeper(e, z) = e
  BY <1>1, <1>12, DeeperByNone
<1>15. PICK f : /\ Walk(g, t.tokens, f, e) /\ KeysEnclose(t, f)
                /\ f[p - 1] = h[p - 1] /\ f[p] = n
                /\ Clear(t.tokens, f, p)
  BY <1>13, <1>14 DEF Enters
<1>16. Rooted(t)
  BY <1>1, <1>6 DEF Rooted, SamePlace, IndentLevels
<1>17. Open(t)
  <2>1. token.type # "STREAM-END"
    BY <1>5
  <2>2. QED
    BY <1>1, <1>2, <1>5, <1>6, <2>1, OpenInserted
<1>18. Queued(g, t, e, 0)
  BY <1>1, <1>6, <1>13, <1>15 DEF Queued
<1>19. Sound(V, g, t, e, 0)
  BY <1>1, <1>6, <1>16, <1>17, <1>18 DEF Sound
<1>20. p \in DOMAIN t.tokens /\ t.tokens[p].type \in KeyItself
  BY <1>2, <1>5, <1>6 DEF Inserted, l, KeyItself
<1>21. Spot(g, t, e, p, KeyItself)
  BY <1>3, <1>6, <1>13, <1>15, <1>20 DEF Spot
<1>22. QED
  BY <1>6, <1>19, <1>21 DEF SameLevel, t, p

(* ... and the start of the mapping in front of KEY.                       *)
Deepens(V, g, e, t) ==
    \E x : /\ Sound(V, g, t, x, 0) /\ x.started = TRUE
           /\ x.flows = t.flowLevel /\ x.token = e.token

LEMMA SoundStartPut ==
    ASSUME NEW V, NEW g, NEW s, NEW e, Sound(V, g, s, e, 0), ~s.error, NEW number \in Nat,
           NEW column \in Nat, e.started = TRUE, e.flows = s.flowLevel,
           NEW place, place = number - s.tokensParsed + 1, Spot(g, s, e, place, KeyItself),
           NEW t, t = RollIndent(s, column, {number}, "BLOCK-MAPPING-START")
    PROVE  SameLevel(s, t) /\ Deepens(V, g, e, t)
<1> DEFINE p == number - s.tokensParsed + 1
           start == "BLOCK-MAPPING-START"
           l == Len(s.tokens)
<1>1. /\ s \in ScannersOver(V) /\ Rooted(s) /\ Open(s) /\ Vocabulary(V)
      /\ Queued(g, s, e, 0) /\ e \in Givens /\ e.blocks = Len(s.indents)
  BY DEF Sound, Queued
<1>2. /\ p \in DOMAIN s.tokens /\ s.tokens[p].type \in {"KEY"} /\ KeysBefore(s, p)
      /\ p \in 1..l /\ l \in Nat
  <2>1. s.tokens \in Seq(V)
    BY <1>1, Fields
  <2>2. QED
    BY <2>1 DEF Spot, KeyItself
<1>3. PICK h : /\ Walk(g, s.tokens, h, e) /\ KeysEnclose(s, h)
               /\ Clear(s.tokens, h, p)
               /\ Settled(h[p - 1]) /\ h[p - 1].token # "STREAM-END"
               /\ h[p - 1].started = TRUE /\ h[p - 1].flows = s.flowLevel
  BY DEF Spot
<1>4. start \in TokenTypes
  BY DEF TokenTypes
<1>5. \/ t = s /\ (s.flowLevel > 0 \/ s.indent >= column)
      \/ /\ s.flowLevel = 0 /\ s.indent < column
         /\ \E q \in Seq(V), token \in V :
               /\ token.type = start
               /\ Inserted(s.tokens, p, token, q)
               /\ Indented(V, s, column, IndentLevels(s), q, t)
  <2> DEFINE u == RollIndent(s, column, {number}, start)
  <2>1. \/ u = s /\ (s.flowLevel > 0 \/ s.indent >= column)
        \/ /\ s.flowLevel = 0 /\ s.indent < column
           /\ \E q \in Seq(V), token \in V :
                 /\ token.type = start
                 /\ Inserted(s.tokens, p, token, q)
                 /\ Indented(V, s, column, IndentLevels(s), q, u)
    BY <1>1, <1>2, <1>4, RollInsertFields
  <2>2. t = u
    OBVIOUS
  <2> HIDE DEF u
  <2>3. QED
    BY <2>1, <2>2
<1>6. CASE t = s
  <2>1. Sound(V, g, t, e, 0) /\ SameLevel(s, t)
    BY <1>6 DEF SameLevel, SamePlace
  <2>2. QED
    BY <1>6, <2>1 DEF Deepens
<1>7. CASE /\ s.flowLevel = 0 /\ s.indent < column
           /\ \E q \in Seq(V), token \in V :
                 /\ token.type = start
                 /\ Inserted(s.tokens, p, token, q)
                 /\ Indented(V, s, column, IndentLevels(s), q, t)
  <2>1. PICK q \in Seq(V), token \in V :
            /\ token.type = start
            /\ Inserted(s.tokens, p, token, q)
            /\ Indented(V, s, column, IndentLevels(s), q, t)
    BY <1>7
  <2> HIDE DEF p, l
  <2>2. /\ t \in ScannersOver(V) /\ SamePlace(s, t) /\ t.error = s.error
        /\ t.flowLevel = s.flowLevel /\ t.simpleKeys = s.simpleKeys
        /\ t.indent = column /\ t.indents = IndentLevels(s) /\ t.tokens = q
    BY <2>1 DEF Indented
  <2> DEFINE z == 1
             n == GivenAfter(h[p - 1], token.type)
             x == Deeper(e, z)
  <2>3. h[p - 1] \in Givens
    <3>1. p - 1 \in 0..l
      BY <1>2
    <3>2. QED
      BY <1>3, <3>1 DEF Walk, l
  <2>4. Allowed(h[p - 1], token.type)
    BY <1>3, <1>7, <2>1 DEF Allowed, Settled, DocumentTypes
  <2>5. /\ n \in Givens /\ n.token = start /\ n.started = TRUE /\ n.flows = h[p - 1].flows
        /\ n.blocks = h[p - 1].blocks + 1
    <3> DEFINE y == h[p - 1]
               type == token.type
    <3>1. /\ y \in Givens /\ type \in {"KEY", "BLOCK-MAPPING-START"} /\ type = start
          /\ type # "KEY" /\ Allowed(y, type)
      BY <2>1, <2>3, <2>4
    <3> HIDE DEF y, type
    <3> DEFINE w == GivenAfter(y, type)
    <3>2. n = w
      BY DEF y, type
    <3>3. /\ w \in Givens /\ w.token = type /\ w.started = TRUE /\ w.flows = y.flows
          /\ w.blocks = y.blocks + 1
      BY <3>1, GivenAfterKey
    <3> HIDE DEF w, n
    <3>4. QED
      BY <3>1, <3>2, <3>3 DEF y
  <2> HIDE DEF n
  <2>6. Allowed(n, s.tokens[p].type)
    BY <1>2, <1>3, <1>7, <2>5 DEF Allowed, DocumentTypes
  <2>7. z \in Nat /\ z = 1 /\ token.type \notin DocumentTypes
    BY <2>1 DEF DocumentTypes
  <2> HIDE DEF z
  <2>8. n.blocks = h[p - 1].blocks + z
    BY <2>5, <2>7
  <2>9. Enters(g, s, h, p, t, n, x) /\ KeysWait(t, 0)
    <3>1. KeysWait(s, 0)
      BY <1>1 DEF Queued
    <3>2. QED
      BY <1>1, <1>2, <1>3, <2>1, <2>2, <2>4, <2>5, <2>6, <2>7, <2>8, <3>1, QueuedInserts DEF n
  <2>10. PICK f : Walk(g, t.tokens, f, x) /\ KeysEnclose(t, f)
    BY <2>9 DEF Enters
  <2>11. /\ x.started = TRUE /\ x.flows = e.flows /\ x.token = e.token
         /\ x.blocks = e.blocks + 1 /\ x \in Givens
    BY <1>1, <2>7 DEF Deeper, Givens
  <2> HIDE DEF x
  <2>12. x.blocks = Len(t.indents)
    BY <1>1, <2>2, <2>11, LevelsOfIndents
  <2>13. Rooted(t)
    BY <1>1, <2>1, RolledIsRooted
  <2>14. Open(t)
    <3>1. token.type # "STREAM-END"
      BY <2>1
    <3>2. QED
      BY <1>1, <1>2, <2>1, <2>2, <3>1, OpenInserted
  <2>15. Queued(g, t, x, 0)
    BY <1>1, <2>2, <2>9, <2>10, <2>11, <2>12 DEF Queued
  <2>16. Sound(V, g, t, x, 0)
    BY <1>1, <2>2, <2>13, <2>14, <2>15 DEF Sound
  <2>17. SameLevel(s, t)
    BY <2>2 DEF SameLevel
  <2>18. QED
    BY <2>2, <2>11, <2>16, <2>17 DEF Deepens
<1>8. QED
  BY <1>5, <1>6, <1>7

(* yaml_parser_fetch_value, behind a simple key.                           *)
LEMMA SoundKeyInserted ==
    ASSUME NEW V, NEW g, NEW s, NEW e, Sound(V, g, s, e, 0), ~s.error, Ready(s, e),
           NEW key \in CurrentKey(s)
    PROVE  LET t == InsertKey(s, key) IN
           /\ \E x : Sound(V, g, t, x, 0) /\ Ready(t, x)
           /\ SamePlace(s, t) /\ ~t.error
<1> DEFINE ks == s.simpleKeys
           n == Len(ks)
           none == {}
           number == key.number
           column == key.column
           p == Place(s, key)
           u == SetKey(s, none)
<1>1. /\ s \in ScannersOver(V) /\ Rooted(s) /\ Open(s) /\ Vocabulary(V)
      /\ Queued(g, s, e, 0) /\ e \in Givens
  BY DEF Sound, Queued
<1>2. /\ s.flowLevel \in Nat /\ ks \in Seq(KeySets) /\ n = s.flowLevel + 1 /\ n \in Nat
      /\ ks # <<>> /\ DOMAIN ks = 1..n /\ n \in DOMAIN ks
  BY <1>1, Fields DEF Rooted
<1>3. key \in ks[n] /\ key \in Keys /\ number \in Nat /\ column \in Nat
  <2>1. CurrentKey(s) = ks[n]
    BY DEF CurrentKey, Last
  <2>2. key \in Keys
    BY <1>1, <1>2, <2>1, KeysAreKeys
  <2>3. QED
    BY <2>1, <2>2 DEF Keys
<1>4. none \in KeySets
  BY DEF KeySets
<1>5. /\ Rekeyed(V, s, u) /\ u.error = s.error
      /\ WithKey(ks, none, u.simpleKeys)
  BY <1>1, <1>2, <1>4, SetKeyFields
<1> HIDE DEF u
<1>6. /\ u \in ScannersOver(V) /\ SamePlace(s, u)
      /\ u.flowLevel = s.flowLevel /\ u.indent = s.indent /\ u.indents = s.indents
      /\ u.tokens = s.tokens /\ Len(u.simpleKeys) = n
  BY <1>5 DEF Rekeyed
<1>7. /\ \A i \in 1..(n - 1) : u.simpleKeys[i] = ks[i]
      /\ u.simpleKeys[n] = none
  BY <1>5 DEF WithKey
<1>8. DOMAIN u.simpleKeys = 1..n
  BY <1>6, Fields
<1>9. Sound(V, g, u, e, 0)
  <2>1. \A i \in DOMAIN ks : u.simpleKeys[i] \subseteq ks[i]
    <3>1. ASSUME NEW i \in DOMAIN ks PROVE u.simpleKeys[i] \subseteq ks[i]
      <4>1. CASE i = n
        BY <1>7, <4>1
      <4>2. CASE i # n
        <5>1. i \in 1..(n - 1)
          BY <1>2, <4>2
        <5>2. QED
          BY <1>7, <5>1
      <4>3. QED
        BY <4>1, <4>2
    <3>2. QED
      BY <3>1
  <2>2. QED
    BY <1>5, <2>1, SoundRekeyed
<1>10. \A other : Place(u, other) = Place(s, other)
  BY <1>6 DEF Place, SamePlace
<1>11. Waits(s, key, 0)
  BY <1>1, <1>2, <1>3 DEF Queued, KeysWait
<1>12. p \in DOMAIN s.tokens /\ s.tokens[p].type \in KeyStarts
  BY <1>11 DEF Waits
<1>13. KeysBefore(u, p)
  <2>1. ASSUME NEW i \in 1..n, NEW other \in u.simpleKeys[i] PROVE Place(u, other) < p
    <3>1. i # n
      BY <1>7, <2>1
    <3>2. i \in 1..(n - 1) /\ i \in DOMAIN ks /\ i < n
      BY <1>2, <3>1
    <3>3. other \in ks[i]
      BY <1>7, <2>1, <3>2
    <3>4. Nested(ks)
      BY <1>1 DEF Queued
    <3>5. other.number < key.number
      <4> HIDE DEF ks, n
      <4>1. QED
        BY <1>2, <1>3, <3>2, <3>3, <3>4 DEF Nested
    <3>6. other.number \in Nat
      BY <1>1, <3>2, <3>3, KeysAreKeys
    <3>7. Place(s, other) < p
      BY <1>1, <1>3, <3>5, <3>6, Fields DEF Place
    <3>8. QED
      BY <1>10, <3>7
  <2>2. QED
    BY <1>8, <2>1 DEF KeysBefore
<1>14. PICK h : Walk(g, s.tokens, h, e) /\ KeysEnclose(s, h)
  BY <1>1 DEF Queued
<1>15. /\ h[p - 1].flows = n - 1
       /\ \A k \in p..Len(s.tokens) : s.tokens[k].type \in DocumentTypes => h[k - 1].flows > 0
  BY <1>2, <1>3, <1>14 DEF KeysEnclose, Encloses
<1>16. Clear(u.tokens, h, p)
  BY <1>6, <1>15 DEF Clear
<1>17. KeysEnclose(u, h)
  <2>1. ASSUME NEW i \in 1..n, NEW other \in u.simpleKeys[i]
        PROVE  Encloses(u, h, other, i - 1)
    <3>1. i # n
      BY <1>7, <2>1
    <3>2. i \in 1..(n - 1) /\ i \in DOMAIN ks
      BY <1>2, <3>1
    <3>3. other \in ks[i]
      BY <1>7, <2>1, <3>2
    <3>4. Encloses(s, h, other, i - 1)
      BY <1>14, <3>2, <3>3 DEF KeysEnclose
    <3>5. QED
      BY <1>6, <1>10, <3>4 DEF Encloses
  <2>2. QED
    BY <1>8, <2>1 DEF KeysEnclose
<1>18. Allowed(h[p - 1], s.tokens[p].type)
  <2>1. p \in 1..Len(s.tokens)
    BY <1>1, <1>12, Fields
  <2>2. QED
    BY <1>14, <2>1 DEF Walk
<1>19. /\ Settled(h[p - 1]) /\ h[p - 1].token # "STREAM-END" /\ h[p - 1].started = TRUE
  <2>1. h[p - 1] \in Givens
    <3>1. p - 1 \in 0..Len(s.tokens)
      BY <1>1, <1>12, Fields
    <3>2. QED
      BY <1>14, <3>1 DEF Walk
  <2>2. QED
    BY <1>12, <1>18, <2>1 DEF Allowed, Settled, KeyStarts, Givens
<1>20. number - u.tokensParsed + 1 = p
  BY <1>6 DEF Place, SamePlace
<1>21. Spot(g, u, e, p, KeyStarts)
  <2>1. h[p - 1].flows = u.flowLevel
    BY <1>2, <1>6, <1>15
  <2>2. QED
    BY <1>6, <1>12, <1>13, <1>14, <1>16, <1>17, <1>19, <2>1 DEF Spot
<1> HIDE DEF p
<1> DEFINE a == QueueInsert(u, number, "KEY")
           b == RollIndent(a, column, {number}, "BLOCK-MAPPING-START")
           no == FALSE
           t == Allow(b, no)
<1>22. /\ Sound(V, g, a, e, 0) /\ SameLevel(u, a)
       /\ Spot(g, a, e, p, KeyItself)
  <2>1. ~u.error
    BY <1>5
  <2> HIDE DEF number
  <2>2. number \in Nat
    BY <1>3
  <2>3. Spot(g, u, e, number - u.tokensParsed + 1, KeyStarts)
    BY <1>20, <1>21
  <2>4. /\ Sound(V, g, a, e, 0) /\ SameLevel(u, a)
        /\ Spot(g, a, e, number - u.tokensParsed + 1, KeyItself)
    BY <1>9, <2>1, <2>2, <2>3, SoundKeyPut
  <2>5. QED
    BY <1>20, <2>4
<1> HIDE DEF a
<1>23. a.error = s.error /\ a.flowLevel = s.flowLevel /\ SamePlace(s, a)
  BY <1>5, <1>6, <1>22 DEF SameLevel, SamePlace
<1>24. SameLevel(a, b) /\ Deepens(V, g, e, b)
  <2>1. p = number - a.tokensParsed + 1
    BY <1>23 DEF SamePlace, p, Place
  <2>2. e.started = TRUE /\ e.flows = a.flowLevel /\ ~a.error
    BY <1>23 DEF Ready
  <2> HIDE DEF number, column
  <2>3. number \in Nat /\ column \in Nat
    BY <1>3 DEF number, column
  <2>4. b = RollIndent(a, column, {number}, "BLOCK-MAPPING-START")
    OBVIOUS
  <2> HIDE DEF b
  <2>5. QED
    BY <1>22, <2>1, <2>2, <2>3, <2>4, SoundStartPut
<1> HIDE DEF b
<1>25. PICK x : /\ Sound(V, g, b, x, 0) /\ x.started = TRUE
                /\ x.flows = b.flowLevel /\ x.token = e.token
  BY <1>24 DEF Deepens
<1>26. b \in ScannersOver(V) /\ SamePlace(s, b) /\ b.error = s.error
  BY <1>23, <1>24, <1>25 DEF Sound, SameLevel, SamePlace
<1>27. no \in BOOLEAN
  OBVIOUS
<1> HIDE DEF no
<1>28. Sound(V, g, t, x, 0)
  BY <1>25, <1>27, SoundAllowed
<1>29. SamePlace(b, t) /\ SameStructure(b, t) /\ t.error = b.error
  BY <1>26, <1>27, AllowFields
<1> HIDE DEF t
<1>30. Ready(t, x) /\ SamePlace(s, t) /\ ~t.error
  BY <1>25, <1>26, <1>29 DEF Ready, SameStructure, SamePlace
<1>31. InsertKey(s, key) = t
  BY <1>1, InsertKeyIs DEF t, no, b, a, u, none
<1>32. QED
  BY <1>28, <1>30, <1>31

-----------------------------------------------------------------------------
(* The fetchers.  What is in the queue stays there.                        *)
Keeps(s, t) == \A k \in DOMAIN s.tokens : k \in DOMAIN t.tokens /\ t.tokens[k] = s.tokens[k]

LEMMA KeepsMore ==
    ASSUME NEW V, NEW q \in Seq(V), NEW ends \in Seq(V)
    PROVE  \A k \in DOMAIN q : k \in DOMAIN (q \o ends) /\ (q \o ends)[k] = q[k]
<1> DEFINE r == q \o ends
<1>1. /\ r \in Seq(V) /\ Len(r) = Len(q) + Len(ends)
      /\ \A k \in 1..Len(q) : r[k] = q[k]
  BY ONLY q \in Seq(V), ends \in Seq(V), Concatenation
<1>2. Len(q) \in Nat /\ Len(ends) \in Nat /\ DOMAIN q = 1..Len(q)
  OBVIOUS
<1> HIDE DEF r
<1>3. DOMAIN r = 1..Len(r)
  BY <1>1
<1>4. \A k \in 1..Len(q) : k \in DOMAIN r /\ r[k] = q[k]
  BY <1>1, <1>2, <1>3
<1>5. QED
  BY <1>2, <1>4 DEF r

LEMMA KeepsOneMore ==
    ASSUME NEW V, NEW q \in Seq(V), NEW token
    PROVE  \A k \in DOMAIN q : k \in DOMAIN Append(q, token) /\ Append(q, token)[k] = q[k]
<1> DEFINE W == V \cup {token}
<1>1. q \in Seq(W) /\ token \in W
  OBVIOUS
<1> HIDE DEF W
<1>2. /\ Append(q, token) \in Seq(W) /\ Len(Append(q, token)) = Len(q) + 1 /\ Len(q) \in Nat
      /\ \A k \in 1..Len(q) : Append(q, token)[k] = q[k]
  BY <1>1, Appended
<1>3. QED
  BY <1>1, <1>2

(* A token is read and queued.                                             *)
Emits(g, s, t, x) ==
    /\ \E W : Sound(W, g, t, x, 0)
    /\ t.flowLevel = s.flowLevel /\ t.tokensParsed = s.tokensParsed
    /\ s.error => t.error
    /\ ~t.error => Len(t.rest) < Len(s.rest) /\ Keeps(s, t)

LEMMA SoundToken ==
    ASSUME NEW V, NEW g, NEW s, NEW e, NEW m, Sound(V, g, s, e, m), NEW u, Consumes(V, s, u),
           NEW token, token.type \in TokenTypes,
           token.type \notin {"STREAM-END", "BLOCK-MAPPING-START", "BLOCK-SEQUENCE-START",
                              "BLOCK-END"},
           ~s.error => /\ Allowed(e, token.type)
                       /\ token.type \in DocumentTypes => e.flows > 0 \/ NoKeys(s)
                       /\ m = 0 \/ token.type \in KeyStarts,
           NEW t, t = [u EXCEPT !.tokens = Append(@, token)]
    PROVE  Emits(g, s, t, GivenAfter(e, token.type))
<1> DEFINE W == V \cup {token}
           q == Append(u.tokens, token)
<1>1. /\ s \in ScannersOver(V) /\ Vocabulary(V) /\ u \in ScannersOver(V)
      /\ SameStructure(s, u) /\ (s.error => u.error)
      /\ u.error \/ (Len(u.rest) < Len(s.rest) /\ Behind(s, u))
  BY DEF Sound, Consumes, Reads
<1>2. Sound(V, g, u, e, m)
  BY SoundReads DEF Consumes
<1>3. V \subseteq W /\ token \in W /\ Vocabulary(W)
  BY <1>1 DEF Vocabulary
<1>4. u \in ScannersOver(W) /\ s \in ScannersOver(W)
  BY <1>1, <1>3, ScannersGrow
<1> HIDE DEF W
<1>5. u.tokens \in Seq(W) /\ q \in Seq(W)
  <2>1. u.tokens \in Seq(W)
    BY <1>4, Fields
  <2>2. QED
    BY <1>3, <2>1, Appended
<1>6. Requeued(W, u, q, t)
  <2>1. t = [u EXCEPT !.tokens = q]
    BY <1>4 DEF ScannersOver
  <2> HIDE DEF q
  <2>2. QED
    BY <1>4, <1>5, <2>1, QueueFields
<1>7. ~u.error => Follows(u, e, m, token.type)
  <2>1. ASSUME ~u.error PROVE m = 0 \/ (token.type \in KeyStarts /\ KeysBehind(u))
    BY <1>1, <2>1, KeysAreBehind
  <2>2. ASSUME ~u.error PROVE Allowed(e, token.type)
    BY <1>1, <2>2
  <2>3. ASSUME ~u.error, token.type \in DocumentTypes PROVE e.flows > 0 \/ NoKeys(u)
    BY <1>1, <2>3 DEF NoKeys, SameStructure
  <2>4. QED
    BY <2>1, <2>2, <2>3 DEF Follows
<1>8. Sound(W, g, t, GivenAfter(e, token.type), 0)
  BY <1>2, <1>3, <1>6, <1>7, SoundEnqueued
<1>9. /\ t.error = u.error /\ t.rest = u.rest /\ t.flowLevel = s.flowLevel /\ t.tokens = q
      /\ u.tokens = s.tokens /\ t.tokensParsed = s.tokensParsed
  BY <1>1, <1>6 DEF Requeued, SamePlace, SameStructure
<1>10. Keeps(s, t)
  <2>1. s.tokens \in Seq(V) /\ t.tokens = Append(s.tokens, token)
    BY <1>1, <1>9, Fields
  <2>2. QED
    BY <2>1, KeepsOneMore DEF Keeps
<1>11. QED
  BY <1>1, <1>8, <1>9, <1>10 DEF Emits

(* The key of the innermost level is forgotten.                            *)
Removed(s, t) ==
    /\ SamePlace(s, t) /\ t.flowLevel = s.flowLevel /\ t.tokens = s.tokens
    /\ s.error => t.error
    /\ ~t.error => t.simpleKeys[Len(t.simpleKeys)] = {}
    /\ t.indents = s.indents

LEMMA SoundRemoved ==
    ASSUME NEW V, NEW g, NEW s, NEW e, NEW m, Sound(V, g, s, e, m)
    PROVE  Sound(V, g, RemoveSimpleKey(s), e, m) /\ Removed(s, RemoveSimpleKey(s))
<1> DEFINE t == RemoveSimpleKey(s)
           ks == s.simpleKeys
           n == Len(ks)
<1>1. s \in ScannersOver(V) /\ Rooted(s)
  BY DEF Sound
<1>2. /\ s.flowLevel \in Nat /\ ks \in Seq(KeySets) /\ n = s.flowLevel + 1 /\ n \in Nat
      /\ ks # <<>> /\ DOMAIN ks = 1..n
  BY <1>1, Fields DEF Rooted
<1>3. Rekeyed(V, s, t) /\ (~t.error => WithKey(ks, {}, t.simpleKeys))
  BY <1>1, <1>2, RemoveFields
<1> HIDE DEF t
<1>4. ASSUME ~t.error, NEW i \in 1..n PROVE t.simpleKeys[i] \subseteq ks[i]
  <2>1. /\ t.simpleKeys[n] = {}
        /\ \A j \in 1..(n - 1) : t.simpleKeys[j] = ks[j]
    BY <1>3, <1>4 DEF WithKey
  <2>2. CASE i = n
    BY <2>1, <2>2
  <2>3. CASE i # n
    <3>1. i \in 1..(n - 1)
      BY <1>2, <2>3
    <3>2. QED
      BY <2>1, <3>1
  <2>4. QED
    BY <2>2, <2>3
<1>5. Sound(V, g, t, e, m)
  BY <1>2, <1>3, <1>4, SoundRekeyed
<1>6. Removed(s, t)
  BY <1>3 DEF Removed, Rekeyed, WithKey
<1>7. QED
  BY <1>5, <1>6 DEF t

(* One turn of the loop, from a scanner in front of a token.               *)
Fetches(g, s, t) ==
    /\ t.tokensParsed = s.tokensParsed
    /\ \E W, x : /\ Sound(W, g, t, x, 0)
                 /\ ~t.error => /\ Ready(t, x)
                                /\ Len(t.rest) < Len(s.rest) /\ Keeps(s, t)

PlainTypes == {"SCALAR", "ALIAS", "ANCHOR", "TAG", "DOCUMENT-START", "DOCUMENT-END",
               "VERSION-DIRECTIVE", "TAG-DIRECTIVE", "BLOCK-ENTRY", "FLOW-ENTRY", "KEY",
               "VALUE"}

LEMMA ReadyAfter ==
    ASSUME NEW e \in Givens, NEW type \in PlainTypes, Allowed(e, type), NEW t,
           e.flows = t.flowLevel
    PROVE  Ready(t, GivenAfter(e, type))
<1> DEFINE n == GivenAfter(e, type)
           f == CASE type \in {"FLOW-SEQUENCE-START", "FLOW-MAPPING-START"} -> e.flows + 1
                  [] type \in {"FLOW-SEQUENCE-END", "FLOW-MAPPING-END"} ->
                        IF e.flows > 0 THEN e.flows - 1 ELSE 0
                  [] OTHER -> e.flows
<1>1. type \in TokenTypes
  BY DEF PlainTypes, TokenTypes, KeyStarts
<1>2. n.token = type /\ n.started = TRUE /\ n.flows = f
  BY <1>1, GivenAfterIs
<1>3. f = e.flows
  BY DEF PlainTypes
<1> HIDE DEF n, f
<1>4. n.token \notin {"BLOCK-MAPPING-START", "BLOCK-SEQUENCE-START", "STREAM-END"}
  BY <1>2 DEF PlainTypes
<1>5. QED
  BY <1>2, <1>3, <1>4 DEF Ready, n

(* What may follow between two tokens, apart from what the scanner knows.  *)
Fits(s, e, m, type) ==
    /\ e.flows = s.flowLevel /\ Allowed(e, type)
    /\ type \in DocumentTypes => e.flows > 0 \/ NoKeys(s)
    /\ m = 0 \/ type \in KeyStarts

LEMMA FetchesPlain ==
    ASSUME NEW V, NEW g, NEW v, NEW e, NEW m, Sound(V, g, v, e, m), NEW u, Consumes(V, v, u),
           NEW token, token.type \in PlainTypes, ~v.error => Fits(v, e, m, token.type),
           NEW t, t = [u EXCEPT !.tokens = Append(@, token)],
           NEW s, s.rest = v.rest, s.tokensParsed = v.tokensParsed,
           ~v.error => Keeps(s, v)
    PROVE  Fetches(g, s, t)
<1> DEFINE x == GivenAfter(e, token.type)
<1>1. /\ token.type \in TokenTypes
      /\ token.type \notin {"STREAM-END", "BLOCK-MAPPING-START", "BLOCK-SEQUENCE-START",
                            "BLOCK-END"}
  BY DEF PlainTypes, TokenTypes, KeyStarts
<1>2. Emits(g, v, t, x)
  BY <1>1, SoundToken DEF Fits
<1>3. ~t.error => Ready(t, x)
  <2>1. ASSUME ~t.error PROVE Ready(t, x)
    <3>1. ~v.error /\ t.flowLevel = v.flowLevel
      BY <1>2, <2>1 DEF Emits
    <3>2. e \in Givens /\ Fits(v, e, m, token.type)
      BY <3>1 DEF Sound, Queued
    <3>3. QED
      BY <3>1, <3>2, ReadyAfter DEF Fits
  <2>2. QED
    BY <2>1
<1>4. ~t.error => Len(t.rest) < Len(s.rest) /\ Keeps(s, t)
  BY <1>2 DEF Emits, Keeps
<1>5. QED
  BY <1>2, <1>3, <1>4 DEF Emits, Fetches

LEMMA FetchesScanned ==
    ASSUME NEW V, NEW g, NEW v, NEW e, NEW m, Sound(V, g, v, e, m), NEW r, NEW types,
           types \subseteq PlainTypes, Scans(V, v, r, types),
           ~v.error => \A type \in types : Fits(v, e, m, type),
           NEW s, s.rest = v.rest, s.tokensParsed = v.tokensParsed,
           ~v.error => Keeps(s, v)
    PROVE  Fetches(g, s, Enqueued(r))
<1>1. Consumes(V, v, r.s) /\ (r.s.error \/ r.token.type \in types)
  BY DEF Scans
<1>2. CASE r.s.error
  <2>1. Enqueued(r) = r.s
    BY <1>2 DEF Enqueued
  <2>2. Sound(V, g, r.s, e, m)
    BY <1>1, SoundReads DEF Consumes
  <2>3. Sound(V, g, r.s, e, 0)
    BY <1>2, <2>2 DEF Sound
  <2>4. r.s.tokensParsed = s.tokensParsed
    BY <1>1 DEF Consumes, Reads, SameStructure
  <2>5. QED
    BY <1>2, <2>1, <2>3, <2>4 DEF Fetches
<1>3. CASE ~r.s.error
  <2> DEFINE u == r.s
             token == r.token
             t == [u EXCEPT !.tokens = Append(@, token)]
  <2>1. Enqueued(r) = t
    BY <1>3 DEF Enqueued
  <2>2. /\ Consumes(V, v, u) /\ token.type \in PlainTypes
        /\ (~v.error => Fits(v, e, m, token.type))
    BY <1>1, <1>3
  <2> HIDE DEF u, token
  <2>3. Fetches(g, s, t)
    BY <2>2, FetchesPlain
  <2>4. QED
    BY <2>1, <2>3
<1>4. QED
  BY <1>2, <1>3

(* SKIP, and the token.                                                    *)
LEMMA FetchesSkipped ==
    ASSUME NEW V, NEW g, NEW v, NEW e, Sound(V, g, v, e, 0), v.rest # <<>>,
           NEW n \in Nat, n > 0, NEW type \in PlainTypes, ~v.error => Fits(v, e, 0, type),
           NEW s, s.rest = v.rest, s.tokensParsed = v.tokensParsed,
           ~v.error => Keeps(s, v)
    PROVE  Fetches(g, s, Enqueue(Forward(v, n), type))
<1> DEFINE u == Forward(v, n)
           token == Token(type, "", <<>>)
<1>1. v \in ScannersOver(V)
  BY DEF Sound
<1>2. Consumes(V, v, u)
  BY <1>1, ForwardReads
<1>3. token.type = type
  BY DEF Token
<1>4. Enqueue(u, type) = [u EXCEPT !.tokens = Append(@, token)]
  BY DEF Enqueue
<1> DEFINE t == Enqueue(u, type)
           z == 0
<1>5. /\ Sound(V, g, v, e, z) /\ token.type \in PlainTypes
      /\ (~v.error => Fits(v, e, z, token.type))
  BY <1>3
<1>6. t = [u EXCEPT !.tokens = Append(@, token)]
  BY <1>4
<1> HIDE DEF u, token, t, z
<1>7. Fetches(g, s, t)
  BY <1>2, <1>5, <1>6, FetchesPlain
<1>8. QED
  BY <1>7 DEF u, t

LEMMA FitsReady ==
    ASSUME NEW s, NEW e, Ready(s, e), NEW type \in PlainTypes, type \notin DocumentTypes
    PROVE  Fits(s, e, 0, type) /\ (type \in KeyStarts => Fits(s, e, 1, type))
<1>1. Allowed(e, type)
  BY DEF Allowed, Ready, PlainTypes
<1>2. QED
  BY <1>1 DEF Fits, Ready

LEMMA SoundForgotten ==
    ASSUME NEW V, NEW g, NEW s, NEW e, NEW m, Sound(V, g, s, e, m), NEW a \in BOOLEAN
    PROVE  LET v == Allow(RemoveSimpleKey(s), a) IN Sound(V, g, v, e, m) /\ Removed(s, v)
<1> DEFINE u == RemoveSimpleKey(s)
           v == Allow(u, a)
<1>1. Sound(V, g, u, e, m) /\ Removed(s, u)
  BY SoundRemoved
<1> HIDE DEF u
<1>2. Sound(V, g, v, e, m)
  BY <1>1, SoundAllowed
<1>3. SamePlace(u, v) /\ SameStructure(u, v) /\ v.error = u.error
  BY <1>1, AllowFields DEF Sound
<1> HIDE DEF v
<1>4. Removed(s, v)
  BY <1>1, <1>3 DEF Removed, SamePlace, SameStructure
<1>5. QED
  BY <1>2, <1>4 DEF u, v

(* A token that may be a simple key comes.                                 *)
LEMMA SoundKept ==
    ASSUME NEW V, NEW g, NEW s, NEW e, Sound(V, g, s, e, 0), ~s.error, Ready(s, e)
    PROVE  LET v == Saved(s) IN
           /\ Sound(V, g, v, e, 1) /\ SamePlace(s, v) /\ v.flowLevel = s.flowLevel
           /\ Keeps(s, v) /\ v.indent = s.indent
<1> DEFINE u == SaveSimpleKey(s)
           no == FALSE
           v == Allow(u, no)
<1>1. s \in ScannersOver(V) /\ s.simpleKeys # <<>>
  <2>1. s \in ScannersOver(V) /\ Len(s.simpleKeys) = s.flowLevel + 1
    BY DEF Sound, Rooted
  <2>2. QED
    BY <2>1, Fields
<1>2. Rekeyed(V, s, u)
  BY <1>1, SaveFields
<1>3. Sound(V, g, u, e, 1)
  BY SoundSaved DEF Ready
<1>4. no \in BOOLEAN
  OBVIOUS
<1> HIDE DEF u, no
<1>5. Sound(V, g, v, e, 1)
  <2> DEFINE i == 1
  <2>1. Sound(V, g, u, e, i)
    BY <1>3
  <2> HIDE DEF i
  <2>2. Sound(V, g, v, e, i)
    BY <1>4, <2>1, SoundAllowed
  <2>3. QED
    BY <2>2 DEF i
<1>6. SamePlace(u, v) /\ SameStructure(u, v) /\ v.error = u.error
  BY <1>3, <1>4, AllowFields DEF Sound
<1> HIDE DEF v
<1>7. SamePlace(s, v) /\ v.flowLevel = s.flowLevel /\ Keeps(s, v) /\ v.indent = s.indent
  BY <1>2, <1>6 DEF Rekeyed, SamePlace, SameStructure, Keeps
<1>8. QED
  BY <1>5, <1>7 DEF v, u, no, Saved

(* A scanner between two tokens, in front of some text.                    *)
Waiting(V, g, s, e) ==
    Sound(V, g, s, e, 0) /\ ~s.error /\ Ready(s, e) /\ s.rest # <<>>

LEMMA KeyStartFetches ==
    ASSUME NEW V, NEW g, NEW s, NEW e, Waiting(V, g, s, e), NEW r, NEW types,
           types \subseteq {"SCALAR", "ALIAS", "ANCHOR", "TAG"}, Scans(V, Saved(s), r, types)
    PROVE  Fetches(g, s, Enqueued(r))
<1> DEFINE v == Saved(s)
           m == 1
<1>1. /\ Sound(V, g, v, e, m) /\ SamePlace(s, v) /\ v.flowLevel = s.flowLevel
      /\ Keeps(s, v)
  BY SoundKept DEF Waiting
<1>2. types \subseteq PlainTypes
  BY DEF PlainTypes
<1>3. Ready(v, e)
  BY <1>1 DEF Waiting, Ready
<1>4. \A type \in types : Fits(v, e, m, type)
  BY <1>2, <1>3, FitsReady DEF DocumentTypes, KeyStarts
<1>5. s.rest = v.rest /\ s.tokensParsed = v.tokensParsed
  BY <1>1 DEF SamePlace
<1>6. Scans(V, v, r, types)
  OBVIOUS
<1> HIDE DEF v, m
<1>7. QED
  BY <1>1, <1>2, <1>4, <1>5, <1>6, FetchesScanned

LEMMA SavedIsThere ==
    ASSUME NEW V, NEW g, NEW s, NEW e, Waiting(V, g, s, e)
    PROVE  Saved(s) \in ScannersOver(V) /\ Saved(s).rest = s.rest
BY SoundKept DEF Waiting, Sound, SamePlace

LEMMA FetchAnchorFetches ==
    ASSUME NEW V, NEW g, NEW s, NEW e, Waiting(V, g, s, e), NEW type \in {"ALIAS", "ANCHOR"}
    PROVE  Fetches(g, s, FetchAnchor(s, type))
<1>1. Scans(V, Saved(s), ScanAnchor(Saved(s), type), {type})
  BY SavedIsThere, AnchorScans DEF Waiting
<1>2. {type} \subseteq {"SCALAR", "ALIAS", "ANCHOR", "TAG"}
  OBVIOUS
<1>3. QED
  BY <1>1, <1>2, KeyStartFetches DEF FetchAnchor

LEMMA FetchTagFetches ==
    ASSUME NEW V, NEW g, NEW s, NEW e, Waiting(V, g, s, e)
    PROVE  Fetches(g, s, FetchTag(s))
<1>1. Scans(V, Saved(s), ScanTag(Saved(s)), {"TAG"})
  BY SavedIsThere, TagScans DEF Waiting
<1>2. {"TAG"} \subseteq {"SCALAR", "ALIAS", "ANCHOR", "TAG"}
  OBVIOUS
<1>3. QED
  BY <1>1, <1>2, KeyStartFetches DEF FetchTag

LEMMA FetchFlowScalarFetches ==
    ASSUME NEW V, NEW g, NEW s, NEW e, Waiting(V, g, s, e)
    PROVE  Fetches(g, s, FetchFlowScalar(s))
<1>1. Scans(V, Saved(s), ScanFlowScalar(Saved(s)), {"SCALAR"})
  BY SavedIsThere, FlowScalarScans DEF Waiting
<1>2. {"SCALAR"} \subseteq {"SCALAR", "ALIAS", "ANCHOR", "TAG"}
  OBVIOUS
<1>3. QED
  BY <1>1, <1>2, KeyStartFetches DEF FetchFlowScalar

LEMMA FetchPlainScalarFetches ==
    ASSUME NEW V, NEW g, NEW s, NEW e, Waiting(V, g, s, e), ~IsZ(Here(s)), ~EndsPlain(s)
    PROVE  Fetches(g, s, FetchPlainScalar(s))
<1> DEFINE v == Saved(s)
<1>1. /\ v \in ScannersOver(V) /\ v.rest = s.rest /\ v.flowLevel = s.flowLevel
      /\ v.column = s.column
  BY SoundKept DEF Waiting, Sound, SamePlace
<1> HIDE DEF v
<1>2. ~IsZ(Here(v)) /\ ~EndsPlain(v)
  BY <1>1 DEF Here, Ahead, EndsPlain, Indicated, DocumentIndicator
<1>3. Scans(V, v, ScanPlainScalar(v), {"SCALAR"})
  BY <1>1, <1>2, PlainScalarScans
<1>4. {"SCALAR"} \subseteq {"SCALAR", "ALIAS", "ANCHOR", "TAG"}
  OBVIOUS
<1>5. QED
  BY <1>3, <1>4, KeyStartFetches DEF FetchPlainScalar, v

LEMMA FetchBlockScalarFetches ==
    ASSUME NEW V, NEW g, NEW s, NEW e, Waiting(V, g, s, e)
    PROVE  Fetches(g, s, FetchBlockScalar(s))
<1> DEFINE yes == TRUE
           v == Allow(RemoveSimpleKey(s), yes)
           m == 0
           types == {"SCALAR"}
           r == ScanBlockScalar(v)
<1>1. yes \in BOOLEAN
  OBVIOUS
<1>2. FetchBlockScalar(s) = Enqueued(r)
  BY DEF FetchBlockScalar
<1> HIDE DEF yes
<1>3. Sound(V, g, v, e, m) /\ Removed(s, v)
  BY <1>1, SoundForgotten DEF Waiting
<1> HIDE DEF v
<1>4. v.rest = s.rest /\ v.tokensParsed = s.tokensParsed
      /\ Keeps(s, v) /\ v.flowLevel = s.flowLevel
  BY <1>3 DEF Removed, SamePlace, Keeps
<1>5. Scans(V, v, r, types)
  BY <1>3, <1>4, BlockScalarScans DEF Sound, Waiting
<1>6. types \subseteq PlainTypes
  BY DEF PlainTypes
<1>7. \A type \in types : Fits(v, e, m, type)
  <2>1. Ready(v, e)
    BY <1>4 DEF Waiting, Ready
  <2>2. QED
    BY <1>6, <2>1, FitsReady DEF DocumentTypes
<1> HIDE DEF m, types, r
<1>8. QED
  BY <1>2, <1>3, <1>4, <1>5, <1>6, <1>7, FetchesScanned

LEMMA FetchFlowEntryFetches ==
    ASSUME NEW V, NEW g, NEW s, NEW e, Waiting(V, g, s, e)
    PROVE  Fetches(g, s, FetchFlowEntry(s))
<1> DEFINE yes == TRUE
           v == Allow(RemoveSimpleKey(s), yes)
           one == 1
           type == "FLOW-ENTRY"
<1>1. yes \in BOOLEAN /\ one \in Nat /\ one > 0
  OBVIOUS
<1>2. FetchFlowEntry(s) = Enqueue(Forward(v, one), type)
  BY DEF FetchFlowEntry
<1> HIDE DEF yes
<1>3. Sound(V, g, v, e, 0) /\ Removed(s, v)
  BY <1>1, SoundForgotten DEF Waiting
<1> HIDE DEF v
<1>4. v.rest = s.rest /\ v.tokensParsed = s.tokensParsed
      /\ Keeps(s, v) /\ v.flowLevel = s.flowLevel
  BY <1>3 DEF Removed, SamePlace, Keeps
<1>5. type \in PlainTypes /\ Fits(v, e, 0, type)
  <2>1. Ready(v, e)
    BY <1>4 DEF Waiting, Ready
  <2>2. type \in PlainTypes /\ type \notin DocumentTypes
    BY DEF PlainTypes, DocumentTypes
  <2> HIDE DEF type
  <2>3. QED
    BY <2>1, <2>2, FitsReady
<1> HIDE DEF one, type
<1>6. Fetches(g, s, Enqueue(Forward(v, one), type))
  BY <1>1, <1>3, <1>4, <1>5, FetchesSkipped DEF Waiting
<1>7. QED
  BY <1>2, <1>6

(* A token of the flow context, and the level that the caller is on.       *)
LEMMA SkippedEmits ==
    ASSUME NEW V, NEW g, NEW v, NEW e, NEW m, Sound(V, g, v, e, m), v.rest # <<>>,
           NEW type \in {"FLOW-SEQUENCE-START", "FLOW-MAPPING-START", "FLOW-SEQUENCE-END",
                         "FLOW-MAPPING-END"},
           ~v.error => Allowed(e, type) /\ (m = 0 \/ type \in KeyStarts)
    PROVE  Emits(g, v, Enqueue(Forward(v, 1), type), GivenAfter(e, type))
<1> DEFINE u == Forward(v, 1)
           token == Token(type, "", <<>>)
           t == Enqueue(u, type)
<1>1. v \in ScannersOver(V)
  BY DEF Sound
<1>2. Consumes(V, v, u)
  BY <1>1, ForwardReads
<1>3. token.type = type
  BY DEF Token
<1>4. t = [u EXCEPT !.tokens = Append(@, token)]
  BY DEF Enqueue
<1>5. /\ token.type \in TokenTypes
      /\ token.type \notin {"STREAM-END", "BLOCK-MAPPING-START", "BLOCK-SEQUENCE-START",
                            "BLOCK-END"}
      /\ token.type \notin DocumentTypes
  BY <1>3 DEF TokenTypes, KeyStarts, DocumentTypes
<1>6. ~v.error => Allowed(e, token.type) /\ (m = 0 \/ token.type \in KeyStarts)
  BY <1>3
<1> HIDE DEF u, token, t
<1>7. Emits(g, v, t, GivenAfter(e, token.type))
  BY <1>2, <1>4, <1>5, <1>6, SoundToken
<1>8. QED
  BY <1>3, <1>7 DEF t, u

LEMMA FetchFlowStartFetches ==
    ASSUME NEW V, NEW g, NEW s, NEW e, Waiting(V, g, s, e),
           NEW type \in {"FLOW-SEQUENCE-START", "FLOW-MAPPING-START"}
    PROVE  Fetches(g, s, FetchFlowCollectionStart(s, type))
<1> DEFINE yes == TRUE
           one == 1
           k == SaveSimpleKey(s)
           i == IncreaseFlowLevel(k)
           v == Allow(i, yes)
           t == Enqueue(Forward(v, 1), type)
           x == GivenAfter(e, type)
<1>1. yes \in BOOLEAN /\ FetchFlowCollectionStart(s, type) = t
  BY DEF FetchFlowCollectionStart
<1>2. s \in ScannersOver(V) /\ s.simpleKeys # <<>>
  <2>1. s \in ScannersOver(V) /\ Len(s.simpleKeys) = s.flowLevel + 1
    BY DEF Waiting, Sound, Rooted
  <2>2. QED
    BY <2>1, Fields
<1>3. Rekeyed(V, s, k)
  BY <1>2, SaveFields
<1>4. Sound(V, g, k, e, one)
  BY SoundSaved DEF Waiting, Ready
<1> HIDE DEF yes, one, k
<1>5. /\ i \in ScannersOver(V) /\ SamePlace(k, i) /\ i.error = k.error
      /\ i.tokens = k.tokens /\ i.flowLevel = k.flowLevel + 1
  BY <1>3, IncreaseFields DEF Rekeyed
<1>6. Sound(V, g, i, e, one)
  BY <1>4, SoundIncreased
<1> HIDE DEF i
<1>7. Sound(V, g, v, e, one)
  BY <1>1, <1>6, SoundAllowed
<1>8. SamePlace(i, v) /\ SameStructure(i, v) /\ v.error = i.error
  BY <1>1, <1>5, AllowFields
<1> HIDE DEF v
<1>9. /\ v.rest = s.rest /\ v.tokensParsed = s.tokensParsed
      /\ v.tokens = s.tokens /\ v.flowLevel = s.flowLevel + 1
  BY <1>3, <1>5, <1>8 DEF Rekeyed, SamePlace, SameStructure
<1>10. Allowed(e, type) /\ type \in KeyStarts
  BY DEF Allowed, Waiting, Ready, DocumentTypes, KeyStarts
<1>11. Emits(g, v, t, x)
  BY <1>7, <1>9, <1>10, SkippedEmits DEF Waiting
<1>12. e \in Givens /\ type \in TokenTypes
  BY DEF Waiting, Sound, Queued, TokenTypes, KeyStarts
<1>13. x.token = type /\ x.started = TRUE /\ x.flows = e.flows + 1
  <2> HIDE DEF x
  <2>1. QED
    BY <1>10, <1>12, GivenAfterIs DEF x
<1> HIDE DEF t, x
<1>14. ~t.error => Ready(t, x)
  BY <1>9, <1>11, <1>13 DEF Emits, Ready, Waiting
<1>15. ~t.error => Len(t.rest) < Len(s.rest) /\ Keeps(s, t)
  BY <1>9, <1>11 DEF Emits, Keeps
<1>16. Fetches(g, s, t)
  BY <1>9, <1>11, <1>14, <1>15 DEF Emits, Fetches
<1>17. QED
  BY <1>1, <1>16

LEMMA FetchFlowEndFetches ==
    ASSUME NEW V, NEW g, NEW s, NEW e, Waiting(V, g, s, e),
           NEW type \in {"FLOW-SEQUENCE-END", "FLOW-MAPPING-END"}
    PROVE  Fetches(g, s, FetchFlowCollectionEnd(s, type))
<1> DEFINE no == FALSE
           z == 0
           k == RemoveSimpleKey(s)
           i == DecreaseFlowLevel(k)
           v == Allow(i, no)
           t == Enqueue(Forward(v, 1), type)
           x == GivenAfter(e, type)
<1>1. no \in BOOLEAN /\ FetchFlowCollectionEnd(s, type) = t
  BY DEF FetchFlowCollectionEnd
<1>2. Sound(V, g, k, e, z) /\ Removed(s, k)
  BY SoundRemoved DEF Waiting
<1> HIDE DEF no, k
<1>3. k \in ScannersOver(V) /\ k.simpleKeys # <<>>
  <2>1. k \in ScannersOver(V) /\ Len(k.simpleKeys) = k.flowLevel + 1
    BY <1>2 DEF Sound, Rooted
  <2>2. QED
    BY <2>1, Fields
<1>4. /\ SamePlace(k, i) /\ i.error = k.error /\ i.tokens = k.tokens
      /\ i.flowLevel = IF k.flowLevel > 0 THEN k.flowLevel - 1 ELSE 0
  BY <1>3, Fields, DecreaseFields
<1> HIDE DEF z
<1>5. Sound(V, g, i, e, z)
  BY <1>2, SoundDecreased
<1> HIDE DEF i
<1>6. Sound(V, g, v, e, z)
  BY <1>1, <1>5, SoundAllowed
<1>7. SamePlace(i, v) /\ SameStructure(i, v) /\ v.error = i.error
  BY <1>1, <1>5, AllowFields DEF Sound
<1> HIDE DEF v
<1>8. /\ v.rest = s.rest /\ v.tokensParsed = s.tokensParsed
      /\ v.tokens = s.tokens
      /\ v.flowLevel = IF s.flowLevel > 0 THEN s.flowLevel - 1 ELSE 0
  BY <1>2, <1>4, <1>7 DEF Removed, SamePlace, SameStructure
<1>9. Allowed(e, type)
  BY DEF Allowed, Waiting, Ready, DocumentTypes
<1>10. Emits(g, v, t, x)
  BY <1>6, <1>8, <1>9, SkippedEmits DEF Waiting, z
<1>11. e \in Givens /\ type \in TokenTypes
  BY DEF Waiting, Sound, Queued, TokenTypes
<1>12. x.token = type /\ x.started = TRUE /\ x.flows = IF e.flows > 0 THEN e.flows - 1 ELSE 0
  <2> HIDE DEF x
  <2>1. QED
    BY <1>9, <1>11, GivenAfterIs DEF x
<1> HIDE DEF t, x
<1>13. ~t.error => Ready(t, x)
  BY <1>8, <1>10, <1>12 DEF Emits, Ready, Waiting
<1>14. ~t.error => Len(t.rest) < Len(s.rest) /\ Keeps(s, t)
  BY <1>8, <1>10 DEF Emits, Keeps
<1>15. Fetches(g, s, t)
  BY <1>8, <1>10, <1>13, <1>14 DEF Emits, Fetches
<1>16. QED
  BY <1>1, <1>15

(* Levels that end or begin leave the queue as it is in front of them.     *)
LEMMA UnrollKeeps ==
    ASSUME NEW V, Vocabulary(V), NEW s \in ScannersOver(V), NEW column \in Nat \cup {-1},
           Rooted(s)
    PROVE  Keeps(s, UnrollIndent(s, column))
<1> DEFINE t == UnrollIndent(s, column)
<1>1. \/ s.flowLevel > 0 /\ t = s
      \/ s.flowLevel = 0 /\ Unrolls(V, s, column, t)
  BY UnrollFields
<1> HIDE DEF t
<1>2. CASE t = s
  BY <1>2 DEF Keeps, t
<1>3. CASE Unrolls(V, s, column, t)
  <2>1. PICK ends \in Seq(V) : t.tokens = s.tokens \o ends
    BY <1>3 DEF Unrolls, Indented
  <2>2. s.tokens \in Seq(V)
    BY Fields
  <2>3. QED
    BY <2>1, <2>2, KeepsMore DEF Keeps, t
<1>4. QED
  BY <1>1, <1>2, <1>3

(* All levels end, and the key is forgotten.                               *)
BetweenDocuments(g, s, v) ==
    /\ SamePlace(s, v) /\ v.flowLevel = s.flowLevel
    /\ \E V, x : /\ Sound(V, g, v, x, 0)
                 /\ ~v.error => /\ Ready(v, x) /\ Keeps(s, v)
                                /\ x.flows > 0 \/ (NoKeys(v) /\ x.blocks = 0)

LEMMA SoundReset ==
    ASSUME NEW V, NEW g, NEW s, NEW e, Sound(V, g, s, e, 0), ~s.error, Ready(s, e)
    PROVE  BetweenDocuments(g, s, Reset(s))
<1> DEFINE no == FALSE
           low == -1
           u == UnrollIndent(s, low)
           v == Allow(RemoveSimpleKey(u), no)
<1>1. no \in BOOLEAN /\ low \in Nat \cup {-1} /\ Reset(s) = v /\ low = -1
  BY DEF Reset
<1> HIDE DEF no, low
<1>2. PICK x : Unrolled(V, g, s, low, u, x)
  BY <1>1, SoundUnrolled
<1>3. Keeps(s, u)
  BY <1>1, UnrollKeeps DEF Sound
<1> HIDE DEF u
<1>4. /\ Sound(V, g, u, x, 0) /\ (~u.error => Ready(u, x)) /\ SamePlace(s, u)
      /\ u.flowLevel = s.flowLevel
      /\ (s.flowLevel = 0 => Len(u.indents) = 0)
  BY <1>1, <1>2 DEF Unrolled
<1>5. Sound(V, g, v, x, 0) /\ Removed(u, v)
  BY <1>1, <1>4, SoundForgotten
<1> HIDE DEF v
<1>6. SamePlace(s, v) /\ v.flowLevel = s.flowLevel
  BY <1>4, <1>5 DEF Removed, SamePlace
<1>7. ASSUME ~v.error
      PROVE  /\ Ready(v, x) /\ Keeps(s, v)
             /\ x.flows > 0 \/ (NoKeys(v) /\ x.blocks = 0)
  <2>1. ~u.error /\ v.flowLevel = u.flowLevel /\ v.tokens = u.tokens /\ v.indents = u.indents
        /\ v.simpleKeys[Len(v.simpleKeys)] = {}
    BY <1>5, <1>7 DEF Removed
  <2>2. Ready(v, x)
    BY <1>4, <2>1 DEF Ready
  <2>3. Keeps(s, v)
    BY <1>3, <2>1 DEF Keeps
  <2>4. v.flowLevel \in Nat /\ Len(v.simpleKeys) = v.flowLevel + 1
        /\ DOMAIN v.simpleKeys = 1..Len(v.simpleKeys)
    BY <1>5, Fields DEF Sound, Rooted
  <2>5. CASE v.flowLevel > 0
    BY <2>2, <2>3, <2>5 DEF Ready
  <2>6. CASE v.flowLevel = 0
    <3>1. NoKeys(v)
      BY <2>1, <2>4, <2>6 DEF NoKeys
    <3>2. x.blocks = 0
      <4>1. Queued(g, v, x, 0)
        BY <1>5, <1>7 DEF Sound
      <4>2. QED
        BY <1>4, <1>6, <2>1, <2>6, <4>1 DEF Queued
    <3>3. QED
      BY <2>2, <2>3, <3>1, <3>2
  <2>7. QED
    BY <2>4, <2>5, <2>6
<1>8. BetweenDocuments(g, s, v)
  BY <1>5, <1>6, <1>7 DEF BetweenDocuments
<1>9. QED
  BY <1>1, <1>8

LEMMA FitsBetween ==
    ASSUME NEW v, NEW x, Ready(v, x), x.flows > 0 \/ (NoKeys(v) /\ x.blocks = 0),
           NEW type \in PlainTypes
    PROVE  Fits(v, x, 0, type)
<1>1. Allowed(x, type)
  BY DEF Allowed, Ready, PlainTypes
<1>2. QED
  BY <1>1 DEF Fits, Ready

LEMMA FetchDocumentFetches ==
    ASSUME NEW V, NEW g, NEW s, NEW e, Waiting(V, g, s, e),
           NEW type \in {"DOCUMENT-START", "DOCUMENT-END"}
    PROVE  Fetches(g, s, FetchDocumentIndicator(s, type))
<1> DEFINE v == Reset(s)
           n == 3
<1>1. BetweenDocuments(g, s, v)
  BY SoundReset DEF Waiting
<1>2. n \in Nat /\ n > 0
  OBVIOUS
<1>3. FetchDocumentIndicator(s, type) = Enqueue(Forward(v, n), type)
  BY DEF FetchDocumentIndicator
<1> HIDE DEF v, n
<1>4. PICK W, x : /\ Sound(W, g, v, x, 0)
                  /\ ~v.error => /\ Ready(v, x) /\ Keeps(s, v)
                                 /\ x.flows > 0 \/ (NoKeys(v) /\ x.blocks = 0)
  BY <1>1 DEF BetweenDocuments
<1>5. v.rest = s.rest /\ v.tokensParsed = s.tokensParsed
      /\ v.rest # <<>>
  BY <1>1 DEF BetweenDocuments, SamePlace, Waiting
<1>6. type \in PlainTypes /\ (~v.error => Fits(v, x, 0, type) /\ Keeps(s, v))
  <2>1. type \in PlainTypes
    BY DEF PlainTypes
  <2>2. QED
    BY <1>4, <2>1, FitsBetween
<1>7. Fetches(g, s, Enqueue(Forward(v, n), type))
  BY <1>2, <1>4, <1>5, <1>6, FetchesSkipped
<1>8. QED
  BY <1>3, <1>7

LEMMA FetchDirectiveFetches ==
    ASSUME NEW V, NEW g, NEW s, NEW e, Waiting(V, g, s, e)
    PROVE  Fetches(g, s, FetchDirective(s))
<1> DEFINE v == Reset(s)
           z == 0
           types == {"VERSION-DIRECTIVE", "TAG-DIRECTIVE"}
           r == ScanDirective(v)
<1>1. BetweenDocuments(g, s, v)
  BY SoundReset DEF Waiting
<1>2. FetchDirective(s) = Enqueued(r)
  BY DEF FetchDirective
<1> HIDE DEF v
<1>3. PICK W, x : /\ Sound(W, g, v, x, z)
                  /\ ~v.error => /\ Ready(v, x) /\ Keeps(s, v)
                                 /\ x.flows > 0 \/ (NoKeys(v) /\ x.blocks = 0)
  BY <1>1 DEF BetweenDocuments
<1>4. v.rest = s.rest /\ v.tokensParsed = s.tokensParsed
      /\ v.rest # <<>>
  BY <1>1 DEF BetweenDocuments, SamePlace, Waiting
<1>5. types \subseteq PlainTypes
  BY DEF PlainTypes
<1>6. ~v.error => (\A type \in types : Fits(v, x, z, type)) /\ Keeps(s, v)
  BY <1>3, <1>5, FitsBetween
<1>7. Scans(W, v, r, types)
  BY <1>3, <1>4, DirectiveScans DEF Sound
<1> HIDE DEF r, types, z
<1>8. QED
  BY <1>2, <1>3, <1>4, <1>5, <1>6, <1>7, FetchesScanned

(* A block collection begins here, unless there is one.                    *)
LEMMA RollKeeps ==
    ASSUME NEW V, Vocabulary(V), NEW s \in ScannersOver(V), NEW column \in Nat,
           NEW type \in TokenTypes
    PROVE  Keeps(s, RollIndent(s, column, {}, type))
<1> DEFINE t == RollIndent(s, column, {}, type)
<1>1. \/ t = s
      \/ \E e \in V : Indented(V, s, column, IndentLevels(s), Append(s.tokens, e), t)
  BY RollFields
<1> HIDE DEF t
<1>2. CASE t = s
  BY <1>2 DEF Keeps, t
<1>3. CASE \E e \in V : Indented(V, s, column, IndentLevels(s), Append(s.tokens, e), t)
  <2>1. PICK token \in V : t.tokens = Append(s.tokens, token)
    BY <1>3 DEF Indented
  <2>2. s.tokens \in Seq(V)
    BY Fields
  <2>3. QED
    BY <2>1, <2>2, KeepsOneMore DEF Keeps, t
<1>4. QED
  BY <1>1, <1>2, <1>3

Begun(V, g, s, type, b) ==
    /\ SamePlace(s, b) /\ b.flowLevel = s.flowLevel
    /\ \E x : /\ Sound(V, g, b, x, 0)
              /\ ~b.error => /\ x.started = TRUE /\ x.flows = b.flowLevel
                             /\ x.token # "STREAM-END"
                             /\ x.token \in BlockStarts => x.token = type
    /\ ~b.error => Keeps(s, b)

LEMMA SoundBegun ==
    ASSUME NEW V, NEW g, NEW s, NEW e, Sound(V, g, s, e, 0), ~s.error, Ready(s, e),
           NEW type \in BlockStarts
    PROVE  Begun(V, g, s, type, BeginBlock(s, type))
<1> DEFINE b == BeginBlock(s, type)
           u == Unless(s, ~s.simpleKeyAllowed)
           t == RollIndent(u, s.column, {}, type)
<1>1. b = IF s.flowLevel > 0 THEN s ELSE t
  BY DEF BeginBlock
<1>2. s \in ScannersOver(V) /\ s.column \in Nat /\ Vocabulary(V) /\ type \in TokenTypes
  BY Fields DEF Sound, BlockStarts, TokenTypes
<1>3. Begun(V, g, s, type, s)
  BY DEF Begun, SamePlace, Keeps, Ready, BlockStarts
<1>4. Begun(V, g, s, type, t)
  <2>1. /\ Sound(V, g, u, e, 0) /\ SamePlace(s, u) /\ u.flowLevel = s.flowLevel
        /\ u.tokens = s.tokens /\ (~u.error => Ready(u, e))
    <3>1. CASE u = s
      BY <3>1 DEF SamePlace
    <3>2. CASE u = Failed(s)
      <4>1. Rekeyed(V, s, u) /\ u.error
        BY <1>2, <3>2, FailedFields
      <4> HIDE DEF u
      <4>2. Sound(V, g, u, e, 0)
        BY <4>1, SoundRekeyed
      <4>3. QED
        BY <4>1, <4>2 DEF Rekeyed
    <3>3. QED
      BY <3>1, <3>2 DEF Unless
  <2> HIDE DEF u
  <2>2. /\ t.error = u.error /\ SamePlace(u, t) /\ t.flowLevel = u.flowLevel
        /\ \/ Sound(V, g, t, e, 0)
           \/ Sound(V, g, t, GivenAfter(e, type), 0) /\ (~t.error => Allowed(e, type))
    BY <1>2, <2>1, SoundRolled
  <2>3. Keeps(u, t)
    BY <1>2, <2>1, RollKeeps DEF Sound
  <2> HIDE DEF t
  <2>4. SamePlace(s, t) /\ t.flowLevel = s.flowLevel /\ Keeps(s, t)
    BY <2>1, <2>2, <2>3 DEF SamePlace, Keeps
  <2> DEFINE x == GivenAfter(e, type)
  <2>5. CASE Sound(V, g, t, e, 0)
    BY <2>1, <2>2, <2>4, <2>5 DEF Begun, Ready, BlockStarts
  <2>6. CASE Sound(V, g, t, x, 0) /\ (~t.error => Allowed(e, type))
    <3>1. ASSUME ~t.error
          PROVE  /\ x.started = TRUE /\ x.flows = t.flowLevel /\ x.token # "STREAM-END"
                 /\ x.token = type
      <4>1. e \in Givens /\ e.flows = s.flowLevel
        BY DEF Sound, Queued, Ready
      <4>2. x.token = type /\ x.started = TRUE /\ x.flows = e.flows
        <5>1. Allowed(e, type)
          BY <2>6, <3>1
        <5> HIDE DEF x
        <5>2. QED
          BY <1>2, <4>1, <5>1, GivenAfterIs DEF x, BlockStarts
      <4> HIDE DEF x
      <4>3. QED
        BY <2>4, <4>1, <4>2 DEF BlockStarts
    <3> HIDE DEF x
    <3>2. QED
      BY <2>4, <2>6, <3>1 DEF Begun
  <2>7. QED
    BY <2>2, <2>5, <2>6
<1> HIDE DEF b, t
<1>5. Begun(V, g, s, type, b)
  BY <1>1, <1>3, <1>4
<1>6. QED
  BY <1>5 DEF b

LEMMA FitsBegun ==
    ASSUME NEW v, NEW x, x.started = TRUE, x.flows = v.flowLevel, x.token # "STREAM-END",
           NEW type, x.token \in BlockStarts => x.token = type,
           NEW item, \/ type = "BLOCK-SEQUENCE-START" /\ item = "BLOCK-ENTRY"
                     \/ type = "BLOCK-MAPPING-START" /\ item \in {"KEY", "VALUE"}
    PROVE  Fits(v, x, 0, item) /\ item \in PlainTypes
<1>1. Allowed(x, item)
  BY DEF Allowed, BlockStarts, DocumentTypes
<1>2. QED
  BY <1>1 DEF Fits, DocumentTypes, PlainTypes

(* BLOCK-ENTRY or KEY: what begins, and the item.                          *)
LEMMA BegunFetches ==
    ASSUME NEW V, NEW g, NEW s, NEW e, Waiting(V, g, s, e), NEW type \in BlockStarts,
           NEW item, \/ type = "BLOCK-SEQUENCE-START" /\ item = "BLOCK-ENTRY"
                     \/ type = "BLOCK-MAPPING-START" /\ item \in {"KEY", "VALUE"},
           NEW a \in BOOLEAN
    PROVE  Fetches(g, s, Enqueue(Forward(Allow(RemoveSimpleKey(BeginBlock(s, type)), a), 1), item))
<1> DEFINE b == BeginBlock(s, type)
           v == Allow(RemoveSimpleKey(b), a)
           one == 1
<1>1. Begun(V, g, s, type, b)
  BY SoundBegun DEF Waiting
<1> HIDE DEF b
<1>2. PICK x : /\ Sound(V, g, b, x, 0)
               /\ ~b.error => /\ x.started = TRUE /\ x.flows = b.flowLevel
                              /\ x.token # "STREAM-END"
                              /\ x.token \in BlockStarts => x.token = type
  BY <1>1 DEF Begun
<1>3. Sound(V, g, v, x, 0) /\ Removed(b, v)
  BY <1>2, SoundForgotten
<1>4. one \in Nat /\ one > 0
  OBVIOUS
<1> HIDE DEF v, one
<1>5. v.rest = s.rest /\ v.tokensParsed = s.tokensParsed
      /\ v.rest # <<>>
  BY <1>1, <1>3 DEF Begun, Removed, SamePlace, Waiting
<1>6. item \in PlainTypes
  BY DEF PlainTypes
<1>7. ~v.error => Fits(v, x, 0, item) /\ Keeps(s, v)
  <2>1. ASSUME ~v.error PROVE Fits(v, x, 0, item) /\ Keeps(s, v)
    <3>1. ~b.error /\ v.flowLevel = b.flowLevel /\ v.tokens = b.tokens
      BY <1>3, <2>1 DEF Removed
    <3>2. Fits(v, x, 0, item)
      BY <1>2, <3>1, FitsBegun
    <3>3. Keeps(s, v)
      BY <1>1, <3>1 DEF Begun, Keeps
    <3>4. QED
      BY <3>2, <3>3
  <2>2. QED
    BY <2>1
<1>8. Fetches(g, s, Enqueue(Forward(v, one), item))
  BY <1>3, <1>4, <1>5, <1>6, <1>7, FetchesSkipped
<1>9. QED
  BY <1>8 DEF v, one, b

LEMMA FetchBlockEntryFetches ==
    ASSUME NEW V, NEW g, NEW s, NEW e, Waiting(V, g, s, e)
    PROVE  Fetches(g, s, FetchBlockEntry(s))
<1> DEFINE yes == TRUE
           type == "BLOCK-SEQUENCE-START"
           item == "BLOCK-ENTRY"
<1>1. yes \in BOOLEAN /\ type \in BlockStarts
  BY DEF BlockStarts
<1>2. FetchBlockEntry(s)
          = Enqueue(Forward(Allow(RemoveSimpleKey(BeginBlock(s, type)), yes), 1), item)
  BY DEF FetchBlockEntry
<1>3. \/ type = "BLOCK-SEQUENCE-START" /\ item = "BLOCK-ENTRY"
      \/ type = "BLOCK-MAPPING-START" /\ item \in {"KEY", "VALUE"}
  OBVIOUS
<1> HIDE DEF yes, type, item
<1>4. QED
  BY <1>1, <1>2, <1>3, BegunFetches

LEMMA FetchKeyFetches ==
    ASSUME NEW V, NEW g, NEW s, NEW e, Waiting(V, g, s, e)
    PROVE  Fetches(g, s, FetchKey(s))
<1> DEFINE a == s.flowLevel = 0
           type == "BLOCK-MAPPING-START"
           item == "KEY"
<1>1. a \in BOOLEAN /\ type \in BlockStarts
  BY DEF BlockStarts
<1>2. FetchKey(s)
          = Enqueue(Forward(Allow(RemoveSimpleKey(BeginBlock(s, type)), a), 1), item)
  BY DEF FetchKey
<1>3. \/ type = "BLOCK-SEQUENCE-START" /\ item = "BLOCK-ENTRY"
      \/ type = "BLOCK-MAPPING-START" /\ item \in {"KEY", "VALUE"}
  OBVIOUS
<1> HIDE DEF a, type, item
<1>4. QED
  BY <1>1, <1>2, <1>3, BegunFetches

LEMMA FetchValueFetches ==
    ASSUME NEW V, NEW g, NEW s, NEW e, Waiting(V, g, s, e), CurrentKey(s) = {}
    PROVE  Fetches(g, s, FetchValue(s))
<1> DEFINE a == s.flowLevel = 0
           type == "BLOCK-MAPPING-START"
           item == "VALUE"
           b == BeginBlock(s, type)
           v == Allow(b, a)
           one == 1
<1>1. a \in BOOLEAN /\ type \in BlockStarts /\ one \in Nat /\ one > 0
  BY DEF BlockStarts
<1>2. FetchValue(s) = Enqueue(Forward(v, one), item)
  BY DEF FetchValue
<1>3. \/ type = "BLOCK-SEQUENCE-START" /\ item = "BLOCK-ENTRY"
      \/ type = "BLOCK-MAPPING-START" /\ item \in {"KEY", "VALUE"}
  OBVIOUS
<1>4. item \in PlainTypes
  BY DEF PlainTypes
<1> HIDE DEF a, type, item, one
<1>5. Begun(V, g, s, type, b)
  BY <1>1, SoundBegun DEF Waiting
<1> HIDE DEF b
<1>6. PICK x : /\ Sound(V, g, b, x, 0)
               /\ ~b.error => /\ x.started = TRUE /\ x.flows = b.flowLevel
                              /\ x.token # "STREAM-END"
                              /\ x.token \in BlockStarts => x.token = type
  BY <1>5 DEF Begun
<1>7. /\ Sound(V, g, v, x, 0)
      /\ SamePlace(b, v) /\ SameStructure(b, v) /\ v.error = b.error
  BY <1>1, <1>6, SoundAllowed, AllowFields DEF Sound
<1> HIDE DEF v
<1>8. v.rest = s.rest /\ v.tokensParsed = s.tokensParsed
      /\ v.rest # <<>>
  BY <1>5, <1>7 DEF Begun, SamePlace, Waiting
<1>9. ~v.error => Fits(v, x, 0, item) /\ Keeps(s, v)
  <2>1. ASSUME ~v.error PROVE Fits(v, x, 0, item) /\ Keeps(s, v)
    <3>1. ~b.error /\ v.flowLevel = b.flowLevel /\ v.tokens = b.tokens
      BY <1>7, <2>1 DEF SameStructure
    <3>2. Fits(v, x, 0, item)
      BY <1>3, <1>6, <3>1, FitsBegun
    <3>3. Keeps(s, v)
      BY <1>5, <3>1 DEF Begun, Keeps
    <3>4. QED
      BY <3>2, <3>3
  <2>2. QED
    BY <2>1
<1>10. Fetches(g, s, Enqueue(Forward(v, one), item))
  BY <1>1, <1>4, <1>7, <1>8, <1>9, FetchesSkipped
<1>11. QED
  BY <1>2, <1>10

(* With a key, the queue in front of it is what stays.                     *)
FetchesBehind(g, s, t) ==
    /\ \E v : /\ v.rest = s.rest /\ v.tokensParsed = s.tokensParsed
             /\ Fetches(g, v, t)
    /\ t.line = s.line /\ t.index = s.index + 1

LEMMA FetchKeyedFetches ==
    ASSUME NEW V, NEW g, NEW s, NEW e, Waiting(V, g, s, e), CurrentKey(s) # {}
    PROVE  FetchesBehind(g, s, FetchValue(s))
<1> DEFINE key == CHOOSE key \in CurrentKey(s) : TRUE
           v == InsertKey(s, key)
           item == "VALUE"
           one == 1
           u == Forward(v, one)
           t == Enqueue(u, item)
<1>1. key \in CurrentKey(s) /\ one \in Nat /\ one > 0 /\ one = 1
  OBVIOUS
<1>2. FetchValue(s) = t
  BY DEF FetchValue
<1>3. item \in PlainTypes /\ item \notin DocumentTypes
  BY DEF PlainTypes, DocumentTypes
<1> HIDE DEF key, item, one
<1>4. /\ \E x : Sound(V, g, v, x, 0) /\ Ready(v, x)
      /\ SamePlace(s, v) /\ ~v.error
  BY <1>1, SoundKeyInserted DEF Waiting
<1> HIDE DEF v
<1>5. PICK x : Sound(V, g, v, x, 0) /\ Ready(v, x)
  BY <1>4
<1>6. v.rest = s.rest /\ v.tokensParsed = s.tokensParsed
      /\ v.rest # <<>> /\ v.line = s.line /\ v.index = s.index
  BY <1>4 DEF SamePlace, Waiting
<1>7. Fits(v, x, 0, item)
  BY <1>3, <1>5, FitsReady
<1>8. Keeps(v, v)
  BY DEF Keeps
<1>9. Fetches(g, v, t)
  BY <1>1, <1>3, <1>5, <1>6, <1>7, <1>8, FetchesSkipped
<1>10. v \in ScannersOver(V) /\ Vocabulary(V)
  BY <1>5 DEF Sound
<1>11. Consumes(V, v, u) /\ u.line = v.line /\ u.index = v.index + 1 /\ u \in ScannersOver(V)
  BY <1>1, <1>6, <1>10, ForwardReads DEF Consumes, Reads
<1>12. t.line = u.line /\ t.index = u.index
  BY <1>11 DEF Enqueue, ScannersOver
<1>13. QED
  BY <1>2, <1>6, <1>9, <1>11, <1>12 DEF FetchesBehind

-----------------------------------------------------------------------------
(* Between two turns of the loop: the end of the stream is last, and       *)
(* behind it no key is possible on the line that is reached.               *)
EndIsLast(s) == \A i \in DOMAIN s.tokens : s.tokens[i].type = "STREAM-END" => i = Len(s.tokens)

Closing(s) == Open(s) \/ \A i \in DOMAIN s.simpleKeys : \A key \in s.simpleKeys[i] : key.line < s.line

After(V, g, s, e) ==
    /\ Vocabulary(V) /\ s \in ScannersOver(V)
    /\ Rooted(s) /\ EndIsLast(s)
    /\ ~s.error => /\ Queued(g, s, e, 0)
                   /\ Settled(e) /\ e.started = TRUE /\ e.flows = s.flowLevel
                   /\ Closing(s)

LEMMA FetchesAfter ==
    ASSUME NEW g, NEW s, NEW t, Fetches(g, s, t)
    PROVE  \E W, x : After(W, g, t, x)
<1>1. PICK W, x : Sound(W, g, t, x, 0) /\ (~t.error => Ready(t, x))
  BY DEF Fetches
<1>2. EndIsLast(t) /\ Closing(t)
  BY <1>1 DEF Sound, Open, EndIsLast, Closing
<1>3. After(W, g, t, x)
  BY <1>1, <1>2 DEF Sound, After, Ready, Settled
<1>4. QED
  BY <1>3

LEMMA SoundNextLine ==
    ASSUME NEW V, NEW g, NEW s, NEW e, Sound(V, g, s, e, 0)
    PROVE  LET t == IF s.column = 0 THEN s ELSE [s EXCEPT !.column = 0, !.line = @ + 1]
           IN  /\ Sound(V, g, t, e, 0) /\ t.column = 0 /\ t.error = s.error
               /\ t.flowLevel = s.flowLevel
<1> DEFINE z == 0
           l == s.line + 1
           u == [s EXCEPT !.column = z, !.line = l]
           t == IF s.column = 0 THEN s ELSE u
<1>1. s \in ScannersOver(V)
  BY DEF Sound
<1>2. z \in Nat /\ l \in Nat
  BY <1>1, Fields
<1>3. Moved(s, s.rest, s.index, l, z, s.simpleKeyAllowed, s.error, u)
  BY <1>1 DEF Moved, ScannersOver
<1> HIDE DEF u, z
<1>4. Became(V, s, s.rest, s.index, l, z, s.simpleKeyAllowed, s.error, u)
  <2> HIDE DEF l
  <2> QED BY <1>1, <1>2, <1>3, Fields, FieldsRead
<1>5. Reads(V, s, u)
  BY <1>1, <1>4, Fields DEF Became, Reads, NotBefore
<1>6. Sound(V, g, u, e, 0)
  BY <1>5, SoundReads
<1>7. u.column = z /\ u.error = s.error /\ u.flowLevel = s.flowLevel
  BY <1>4 DEF Became, SameStructure
<1>8. [s EXCEPT !.column = 0, !.line = @ + 1] = u
  BY <1>1 DEF u, z, ScannersOver
<1>9. QED
  BY <1>6, <1>7, <1>8 DEF z

(* The last token.                                                         *)
LEMMA GivenAfterEnd ==
    ASSUME NEW e \in Givens, NEW type, type = "STREAM-END", Allowed(e, type)
    PROVE  LET n == GivenAfter(e, type) IN
           n.token = type /\ n.started = TRUE /\ n.flows = e.flows /\ n.blocks = e.blocks
<1>1. type \in TokenTypes
  BY DEF TokenTypes
<1> DEFINE n == GivenAfter(e, type)
           b == CASE type \in {"BLOCK-SEQUENCE-START", "BLOCK-MAPPING-START"} -> e.blocks + 1
                  [] type = "BLOCK-END" -> e.blocks - 1
                  [] OTHER -> e.blocks
           f == CASE type \in {"FLOW-SEQUENCE-START", "FLOW-MAPPING-START"} -> e.flows + 1
                  [] type \in {"FLOW-SEQUENCE-END", "FLOW-MAPPING-END"} ->
                        IF e.flows > 0 THEN e.flows - 1 ELSE 0
                  [] OTHER -> e.flows
<1>2. n.token = type /\ n.started = TRUE /\ n.blocks = b /\ n.flows = f
  BY <1>1, GivenAfterIs
<1> HIDE DEF n
<1>3. f = e.flows /\ b = e.blocks
  OBVIOUS
<1>4. QED
  BY <1>2, <1>3 DEF n

LEMMA FetchStreamEndEnds ==
    ASSUME NEW V, NEW g, NEW s, NEW e, Sound(V, g, s, e, 0), ~s.error, Ready(s, e)
    PROVE  LET t == FetchStreamEnd(s) IN
           /\ \E W, x : After(W, g, t, x)
           /\ Last(t.tokens).type = "STREAM-END" /\ t.tokensParsed = s.tokensParsed
           /\ ~t.error => Keeps(s, t)
<1> DEFINE last == "STREAM-END"
           u == IF s.column = 0 THEN s ELSE [s EXCEPT !.column = 0, !.line = @ + 1]
           v == Reset(u)
           t == Enqueue(v, last)
           token == Token(last, "", <<>>)
           q == Append(v.tokens, token)
<1>1. FetchStreamEnd(s) = t
  BY DEF FetchStreamEnd
<1>2. /\ Sound(V, g, u, e, 0) /\ u.column = 0 /\ u.error = s.error
      /\ u.flowLevel = s.flowLevel
  BY SoundNextLine
<1>3. u.tokens = s.tokens /\ u.tokensParsed = s.tokensParsed
  BY DEF Sound, ScannersOver
<1> HIDE DEF u
<1>4. BetweenDocuments(g, u, v)
  BY <1>2, SoundReset DEF Ready
<1> HIDE DEF v
<1>5. PICK W, x : /\ Sound(W, g, v, x, 0)
                  /\ ~v.error => /\ Ready(v, x) /\ Keeps(u, v)
                                 /\ x.flows > 0 \/ (NoKeys(v) /\ x.blocks = 0)
  BY <1>4 DEF BetweenDocuments
<1>6. v \in ScannersOver(W) /\ Vocabulary(W) /\ Rooted(v) /\ Open(v)
      /\ v.flowLevel = s.flowLevel /\ v.column = 0
  BY <1>2, <1>4, <1>5 DEF Sound, BetweenDocuments, SamePlace
<1>7. last \in TokenTypes /\ last = "STREAM-END" /\ last \in DocumentTypes
  BY DEF TokenTypes, DocumentTypes
<1> HIDE DEF last
<1>8. token \in W /\ token.type = last /\ Requeued(W, v, q, t)
  BY <1>6, <1>7, EnqueueFields
<1> HIDE DEF t, token
<1>9. /\ t \in ScannersOver(W) /\ SamePlace(v, t) /\ t.error = v.error
      /\ t.flowLevel = v.flowLevel /\ t.indent = v.indent /\ t.indents = v.indents
      /\ t.simpleKeys = v.simpleKeys /\ t.tokens = q
  BY <1>8 DEF Requeued
<1>10. /\ v.tokens \in Seq(W) /\ Len(v.tokens) \in Nat /\ DOMAIN v.tokens = 1..Len(v.tokens)
       /\ DOMAIN q = 1..(Len(v.tokens) + 1) /\ q[Len(v.tokens) + 1] = token
       /\ \A k \in 1..Len(v.tokens) : q[k] = v.tokens[k]
       /\ Len(q) = Len(v.tokens) + 1 /\ q \in Seq(W)
  <2>1. v.tokens \in Seq(W)
    BY <1>6, Fields
  <2> DEFINE p == v.tokens
  <2>2. p \in Seq(W) /\ token \in W
    BY <1>8, <2>1
  <2> HIDE DEF p
  <2>3. /\ Append(p, token) \in Seq(W) /\ Len(Append(p, token)) = Len(p) + 1
        /\ Append(p, token)[Len(p) + 1] = token
        /\ \A k \in 1..Len(p) : Append(p, token)[k] = p[k]
    BY <2>2, Appended
  <2>4. DOMAIN Append(p, token) = 1..(Len(p) + 1) /\ Len(p) \in Nat /\ DOMAIN p = 1..Len(p)
    BY <2>2, <2>3
  <2>5. QED
    BY <2>2, <2>3, <2>4 DEF p
<1> HIDE DEF q
<1>11. EndIsLast(t)
  <2>1. ASSUME NEW i \in DOMAIN q, q[i].type = "STREAM-END" PROVE i = Len(q)
    <3>1. i \in 1..Len(v.tokens) => FALSE
      BY <1>6, <1>10, <2>1 DEF Open
    <3>2. QED
      BY <1>10, <3>1
  <2>2. QED
    BY <1>9, <2>1 DEF EndIsLast
<1>12. Last(t.tokens).type = "STREAM-END" /\ t.tokensParsed = s.tokensParsed
  BY <1>3, <1>4, <1>7, <1>8, <1>9, <1>10 DEF Last, BetweenDocuments, SamePlace
<1>13. Rooted(t)
  BY <1>6, <1>9 DEF Rooted, SamePlace, IndentLevels
<1> DEFINE y == GivenAfter(x, last)
<1>14. ASSUME ~t.error
       PROVE  /\ Queued(g, t, y, 0)
              /\ Settled(y) /\ y.started = TRUE /\ y.flows = t.flowLevel
              /\ Closing(t) /\ Keeps(s, t)
  <2>1. /\ ~v.error /\ Queued(g, v, x, 0) /\ Ready(v, x) /\ Keeps(u, v)
        /\ x.flows > 0 \/ (NoKeys(v) /\ x.blocks = 0)
    BY <1>5, <1>9, <1>14 DEF Sound
  <2>2. x \in Givens /\ x.blocks = Len(v.indents)
    BY <2>1 DEF Queued
  <2>3. Allowed(x, last)
    BY <1>7, <2>1 DEF Allowed, Ready
  <2>4. y.token = last /\ y.started = TRUE /\ y.flows = x.flows /\ y.blocks = x.blocks
    BY <1>7, <2>2, <2>3, GivenAfterEnd
  <2>5. Follows(v, x, 0, last)
    BY <1>7, <2>1, <2>3 DEF Follows
  <2>6. Adds(v, token, t)
    BY <1>9 DEF Adds, q
  <2>7. Queued(g, t, y, 0)
    BY <1>6, <1>8, <1>9, <2>1, <2>2, <2>4, <2>5, <2>6, QueuedAdds
  <2> HIDE DEF y
  <2>8. Settled(y) /\ y.flows = t.flowLevel
    BY <1>7, <1>9, <2>1, <2>4 DEF Settled, Ready
  <2>9. Closing(t)
    <3>1. ASSUME NEW i \in DOMAIN t.simpleKeys, NEW key \in t.simpleKeys[i]
          PROVE  key.line < t.line
      <4>1. Waits(t, key, 0)
        BY <2>7 DEF Queued, KeysWait
      <4>2. Behind(key, t)
        BY <4>1 DEF Waits
      <4>3. key.column \in Nat /\ t.column = 0
        BY <1>6, <1>9, KeysAreKeys DEF Keys, SamePlace
      <4>4. QED
        BY <4>2, <4>3 DEF Behind
    <3>2. QED
      BY <3>1 DEF Closing
  <2>10. Keeps(s, t)
    <3>1. \A k \in DOMAIN s.tokens : k \in DOMAIN v.tokens /\ v.tokens[k] = s.tokens[k]
      BY <1>3, <2>1 DEF Keeps
    <3>2. \A k \in DOMAIN v.tokens : k \in DOMAIN q /\ q[k] = v.tokens[k]
      BY <1>10
    <3>3. QED
      BY <1>9, <3>1, <3>2 DEF Keeps
  <2>11. QED
    BY <2>4, <2>7, <2>8, <2>9, <2>10
<1>15. After(W, g, t, y)
  BY <1>6, <1>9, <1>11, <1>13, <1>14 DEF After
<1>16. QED
  BY <1>1, <1>12, <1>14, <1>15

(* A scanner that has not begun.                                           *)
Idle(V, s, g) ==
    /\ Vocabulary(V) /\ s \in ScannersOver(V)
    /\ ~s.started /\ ~s.ended /\ ~s.error
    /\ s.simpleKeys = <<>> /\ s.tokens = <<>> /\ s.indents = <<>> /\ s.flowLevel = 0
    /\ g = NothingGiven

LEMMA FetchStreamStartStarts ==
    ASSUME NEW V, NEW g, NEW s, Idle(V, s, g)
    PROVE  /\ \E x : After(V, g, FetchStreamStart(s), x)
           /\ FetchStreamStart(s).tokensParsed = s.tokensParsed
<1> DEFINE type == "STREAM-START"
           t == FetchStreamStart(s)
           none == {}
           yes == TRUE
           d == -1
           token == Token(type, "", <<>>)
           q == <<token>>
           ks == <<none>>
           x == GivenAfter(g, type)
<1>1. s \in ScannersOver(V) /\ Vocabulary(V)
  BY DEF Idle
<1>2. type \in TokenTypes
  BY DEF TokenTypes
<1>3. token \in V /\ token.type = type
  BY <1>1, <1>2 DEF Vocabulary, Token
<1>4. none \in KeySets /\ yes \in BOOLEAN /\ yes = TRUE /\ d \in Nat \cup {-1} /\ d = -1
  BY DEF KeySets
<1>5. t = [s EXCEPT !.indent = d, !.simpleKeys = Append(@, none), !.simpleKeyAllowed = yes,
                    !.started = yes, !.tokens = Append(@, token)]
  BY <1>1 DEF FetchStreamStart, Enqueue, ScannersOver
<1>6. Append(s.simpleKeys, none) = ks /\ Append(s.tokens, token) = q
  BY DEF Idle
<1>8. /\ Len(ks) = 1 /\ ks[1] = none /\ DOMAIN ks = 1..1
      /\ Len(q) = 1 /\ q[1] = token /\ DOMAIN q = 1..1
  OBVIOUS
<1> HIDE DEF none, token, yes, d
<1>7. ks \in Seq(KeySets) /\ q \in Seq(V)
  BY <1>3, <1>4
<1> HIDE DEF t, ks, q
<1>9. t = [s EXCEPT !.indent = d, !.simpleKeys = ks, !.simpleKeyAllowed = yes,
                    !.started = yes, !.tokens = q]
  BY <1>1, <1>5, <1>6 DEF ScannersOver
<1>10. t \in ScannersOver(V)
  BY <1>1, <1>4, <1>7, <1>9 DEF ScannersOver
<1>11. /\ t.indent = d /\ t.simpleKeys = ks /\ t.started = yes /\ t.tokens = q
       /\ t.indents = s.indents /\ t.flowLevel = s.flowLevel /\ t.error = s.error
  BY <1>1, <1>9 DEF ScannersOver
<1>12. Rooted(t)
  <2>1. t.indents = <<>> /\ t.indent = -1 /\ t.flowLevel = 0
    BY <1>4, <1>11 DEF Idle
  <2>2. IndentLevels(t) = <<-1>>
    BY <2>1 DEF IndentLevels
  <2>3. Len(<<-1>>) = 1 /\ <<-1>>[1] = -1 /\ 2..1 = {}
    OBVIOUS
  <2>4. QED
    BY <1>4, <1>8, <1>11, <2>1, <2>2, <2>3 DEF Rooted
<1>13. EndIsLast(t)
  BY <1>8, <1>11 DEF EndIsLast
<1>14. \A i \in DOMAIN t.simpleKeys : t.simpleKeys[i] = {}
  <2>1. none = {}
    BY DEF none
  <2>2. \A i \in DOMAIN t.simpleKeys : i = 1
    BY <1>8, <1>11
  <2>3. QED
    BY <1>8, <1>11, <2>1, <2>2
<1>15. /\ g \in Givens /\ g.started = FALSE /\ g.blocks = 0 /\ g.flows = 0
       /\ g.token = "NO-TOKEN"
  <2> DEFINE no == FALSE
             z == 0
             nothing == "NO-TOKEN"
  <2>1. g = [token |-> nothing, blocks |-> z, flows |-> z, started |-> no]
    BY DEF Idle, NothingGiven
  <2>2. no \in BOOLEAN /\ z \in Nat /\ nothing \in TokenTypes \cup {"NO-TOKEN"} /\ no = FALSE
        /\ z = 0 /\ nothing = "NO-TOKEN"
    OBVIOUS
  <2> HIDE DEF no, z, nothing
  <2>3. QED
    BY <2>1, <2>2 DEF Givens
<1>16. Allowed(g, type)
  BY <1>15 DEF Allowed, DocumentTypes
<1> DEFINE b == CASE type \in {"BLOCK-SEQUENCE-START", "BLOCK-MAPPING-START"} -> g.blocks + 1
                  [] type = "BLOCK-END" -> g.blocks - 1
                  [] OTHER -> g.blocks
           f == CASE type \in {"FLOW-SEQUENCE-START", "FLOW-MAPPING-START"} -> g.flows + 1
                  [] type \in {"FLOW-SEQUENCE-END", "FLOW-MAPPING-END"} ->
                        IF g.flows > 0 THEN g.flows - 1 ELSE 0
                  [] OTHER -> g.flows
<1>17. x \in Givens /\ x.token = type /\ x.started = TRUE /\ x.blocks = b /\ x.flows = f
  BY <1>2, <1>15, <1>16, GivenAfterIs
<1>18. b = 0 /\ f = 0 /\ type \notin {"BLOCK-MAPPING-START", "BLOCK-SEQUENCE-START"}
  BY <1>15
<1> HIDE DEF x, b, f, type
<1>19. \E h : Walk(g, t.tokens, h, x)
  <2> DEFINE h == [k \in 0..1 |-> IF k = 0 THEN g ELSE x]
  <2>1. h \in [0..1 -> Givens] /\ h[0] = g /\ h[1] = x
    BY <1>15, <1>17
  <2> HIDE DEF h
  <2>2. \A k \in 1..1 : /\ Allowed(h[k - 1], q[k].type)
                        /\ h[k] = GivenAfter(h[k - 1], q[k].type)
    <3>1. ASSUME NEW k \in 1..1 PROVE Allowed(h[k - 1], q[k].type)
                                      /\ h[k] = GivenAfter(h[k - 1], q[k].type)
      <4>1. k = 1 /\ k - 1 = 0
        OBVIOUS
      <4>2. QED
        BY <1>3, <1>8, <1>16, <2>1, <4>1 DEF x
    <3>2. QED
      BY <3>1
  <2>3. Walk(g, q, h, x)
    BY <1>8, <2>1, <2>2 DEF Walk
  <2>4. QED
    BY <1>11, <2>3
<1>20. Queued(g, t, x, 0)
  <2>1. x.blocks = Len(t.indents)
    BY <1>11, <1>17, <1>18 DEF Idle
  <2>2. KeysWait(t, 0) /\ Nested(t.simpleKeys)
    BY <1>14 DEF KeysWait, Nested
  <2>3. \A h : KeysEnclose(t, h)
    BY <1>14 DEF KeysEnclose
  <2>4. QED
    BY <1>17, <1>19, <2>1, <2>2, <2>3 DEF Queued
<1>21. Closing(t)
  BY <1>14 DEF Closing
<1>22. x.flows = t.flowLevel
  BY <1>11, <1>17, <1>18 DEF Idle
<1>23. After(V, g, t, x)
  BY <1>1, <1>10, <1>12, <1>13, <1>17, <1>18, <1>20, <1>21, <1>22 DEF After, Settled
<1>24. t.tokensParsed = s.tokensParsed
  BY <1>1, <1>9 DEF ScannersOver
<1>25. QED
  BY <1>23, <1>24 DEF t

-----------------------------------------------------------------------------
(* What comes in front of a turn of the loop.                              *)
LEMMA AfterRekeyed ==
    ASSUME NEW V, NEW g, NEW s, NEW e, After(V, g, s, e), NEW t, Rekeyed(V, s, t),
           ~t.error => \A i \in DOMAIN s.simpleKeys : t.simpleKeys[i] \subseteq s.simpleKeys[i]
    PROVE  After(V, g, t, e)
<1>1. /\ s \in ScannersOver(V) /\ t \in ScannersOver(V) /\ SamePlace(s, t)
      /\ t.tokens = s.tokens /\ t.indents = s.indents /\ t.indent = s.indent
      /\ Len(t.simpleKeys) = Len(s.simpleKeys) /\ t.flowLevel = s.flowLevel
      /\ (~t.error => ~s.error)
  BY DEF After, Rekeyed
<1>2. Rooted(t) /\ EndIsLast(t)
  BY <1>1 DEF After, Rooted, EndIsLast, SamePlace, IndentLevels
<1>3. ASSUME ~t.error PROVE Queued(g, t, e, 0) /\ Closing(t)
  <2>1. Queued(g, s, e, 0) /\ Closing(s)
    BY <1>1, <1>3 DEF After
  <2>2. \A i \in DOMAIN s.simpleKeys : t.simpleKeys[i] \subseteq s.simpleKeys[i]
    BY <1>3
  <2>3. DOMAIN t.simpleKeys = DOMAIN s.simpleKeys
    BY <1>1, Fields
  <2>4. Closing(t)
    BY <1>1, <2>1, <2>2, <2>3 DEF Closing, Open, SamePlace
  <2> DEFINE m == 0
  <2>5. Queued(g, s, e, m)
    BY <2>1
  <2> HIDE DEF m
  <2>6. Queued(g, t, e, m)
    BY <1>1, <2>2, <2>5, QueuedRekeyed
  <2>7. QED
    BY <2>4, <2>6 DEF m
<1>4. QED
  BY <1>1, <1>2, <1>3 DEF After

(* The keys of t are keys of s, and none of them is stale.                 *)
FreshKeys(s, t) ==
    /\ DOMAIN t.simpleKeys = DOMAIN s.simpleKeys
    /\ \A i \in DOMAIN s.simpleKeys :
          t.simpleKeys[i] = {key \in s.simpleKeys[i] : ~Stale(t, key)}

LEMMA StaleKeys ==
    ASSUME NEW V, NEW s \in ScannersOver(V)
    PROVE  LET t == StaleSimpleKeys(s) IN
           /\ Rekeyed(V, s, t)
           /\ ~t.error => FreshKeys(s, t)
<1> DEFINE t == StaleSimpleKeys(s)
<1>1. Rekeyed(V, s, t) /\ (~t.error => Fresh(s, s.simpleKeys, t.simpleKeys))
  BY StaleFields
<1> HIDE DEF t
<1>2. ASSUME ~t.error PROVE FreshKeys(s, t)
  <2>1. Fresh(s, s.simpleKeys, t.simpleKeys)
    BY <1>1, <1>2
  <2>2. t \in ScannersOver(V) /\ t.line = s.line /\ t.index = s.index
    BY <1>1 DEF Rekeyed, SamePlace
  <2>3. /\ DOMAIN t.simpleKeys = 1..Len(t.simpleKeys)
        /\ DOMAIN s.simpleKeys = 1..Len(s.simpleKeys)
    BY <2>2, Fields
  <2>4. \A key : Stale(t, key) <=> Stale(s, key)
    BY <2>2 DEF Stale
  <2>5. QED
    BY <2>1, <2>3, <2>4 DEF Fresh, FreshKeys
<1>3. QED
  BY <1>1, <1>2 DEF t

LEMMA CheckedAfter ==
    ASSUME NEW V, NEW g, NEW s, NEW e, After(V, g, s, e), ~s.error
    PROVE  LET t == Checked(s) IN
           /\ After(V, g, t, e) /\ SamePlace(s, t) /\ t.tokens = s.tokens
           /\ DOMAIN t.simpleKeys = DOMAIN s.simpleKeys
           /\ ~t.error => /\ \A i \in DOMAIN s.simpleKeys :
                                t.simpleKeys[i] \subseteq s.simpleKeys[i]
                          /\ t.tokens = <<>> \/ FreshKeys(s, t)
<1> DEFINE u == StaleSimpleKeys(s)
           t == Checked(s)
<1>1. t = IF s.tokens = <<>> THEN s ELSE u
  BY DEF Checked
<1>2. s \in ScannersOver(V)
  BY DEF After
<1>3. Rekeyed(V, s, u) /\ (~u.error => FreshKeys(s, u))
  BY <1>2, StaleKeys
<1> HIDE DEF u, t
<1>4. After(V, g, u, e)
  BY <1>3, AfterRekeyed DEF FreshKeys
<1>5. DOMAIN u.simpleKeys = DOMAIN s.simpleKeys
  BY <1>2, <1>3, Fields DEF Rekeyed
<1>6. SamePlace(s, u) /\ u.tokens = s.tokens /\ SamePlace(s, s)
  BY <1>3 DEF Rekeyed, SamePlace
<1>7. ~u.error => \A i \in DOMAIN s.simpleKeys : u.simpleKeys[i] \subseteq s.simpleKeys[i]
  BY <1>3 DEF FreshKeys
<1>8. CASE s.tokens = <<>>
  BY <1>1, <1>6, <1>8 DEF t
<1>9. CASE s.tokens # <<>>
  BY <1>1, <1>3, <1>4, <1>5, <1>6, <1>7, <1>9 DEF t
<1>10. QED
  BY <1>8, <1>9

(* When there is more to fetch, the end of the stream was not.             *)
LEMMA MoreIsOpen ==
    ASSUME NEW V, NEW g, NEW s, NEW e, After(V, g, s, e), ~s.error,
           NeedsMoreTokens(s),
           s.tokens = <<>> \/ \A i \in DOMAIN s.simpleKeys : \A key \in s.simpleKeys[i] :
                                 ~Stale(s, key)
    PROVE  Open(s)
<1>1. CASE s.tokens = <<>>
  BY <1>1 DEF Open
<1>2. CASE s.tokens # <<>>
  <2>1. PICK key \in PossibleKeys(s) : key.number = s.tokensParsed
    BY <1>2 DEF NeedsMoreTokens, HeadMayBeKey
  <2>2. \E i \in DOMAIN s.simpleKeys : key \in s.simpleKeys[i]
    BY <2>1 DEF PossibleKeys, ToSet
  <2>3. ~(key.line < s.line)
    BY <1>2, <2>2 DEF Stale
  <2>4. Closing(s)
    BY DEF After
  <2>5. QED
    BY <2>2, <2>3, <2>4 DEF Closing
<1>3. QED
  BY <1>1, <1>2

LEMMA OpenIsReady ==
    ASSUME NEW V, NEW g, NEW s, NEW e, After(V, g, s, e), ~s.error, Open(s),
           g.token # "STREAM-END"
    PROVE  Sound(V, g, s, e, 0) /\ Ready(s, e)
<1>1. s \in ScannersOver(V) /\ s.tokens \in Seq(V) /\ Vocabulary(V) /\ e \in Givens
  BY Fields DEF After, Queued
<1>2. Sound(V, g, s, e, 0)
  BY DEF After, Sound
<1>3. PICK h : Walk(g, s.tokens, h, e)
  BY DEF After, Queued
<1> DEFINE q == s.tokens
           n == Len(q)
<1>4. n \in Nat /\ DOMAIN q = 1..n
  BY <1>1
<1>5. e.token # "STREAM-END"
  <2>1. CASE n = 0
    BY <1>3, <2>1 DEF Walk
  <2>2. CASE n # 0
    <3>1. n \in 1..n
      BY <1>4, <2>2
    <3>2. e = GivenAfter(h[n - 1], q[n].type) /\ q[n].type # "STREAM-END"
      BY <1>3, <1>4, <3>1 DEF Walk, Open
    <3> HIDE DEF n, q
    <3>3. QED
      BY <3>2 DEF GivenAfter
  <2>3. QED
    BY <2>1, <2>2
<1>6. Ready(s, e)
  BY <1>5 DEF After, Ready, Settled
<1>7. QED
  BY <1>2, <1>6

(* White space is skipped, stale keys are removed and levels end.          *)
Prepares(g, s, p) ==
    /\ p.tokensParsed = s.tokensParsed
    /\ \E V, x : Sound(V, g, p, x, 0) /\ (~p.error => Ready(p, x))
    /\ ~p.error => /\ Keeps(s, p) /\ FreshKeys(s, p) /\ Len(p.rest) <= Len(s.rest)

LEMMA PreparedIsSound ==
    ASSUME NEW V, NEW g, NEW s, NEW e, Sound(V, g, s, e, 0), ~s.error, Ready(s, e)
    PROVE  Prepares(g, s, Prepared(s))
<1> DEFINE u == ScanToNextToken(s)
           v == StaleSimpleKeys(u)
           column == v.column
           t == UnrollIndent(v, column)
           z == 0
<1>1. s \in ScannersOver(V) /\ Vocabulary(V) /\ s.started
  BY DEF Sound, Rooted
<1>2. Prepared(s) = IF v.error THEN v ELSE t
  BY <1>1 DEF Prepared
<1>3. Reads(V, s, u)
  BY <1>1, ScanToNextTokenReads
<1> HIDE DEF u, z
<1>4. u \in ScannersOver(V) /\ SameStructure(s, u) /\ Len(u.rest) <= Len(s.rest)
  BY <1>3 DEF Reads
<1>5. Sound(V, g, u, e, z)
  BY <1>3, SoundReads DEF z
<1>6. Rekeyed(V, u, v) /\ (~v.error => FreshKeys(u, v))
  BY <1>4, StaleKeys
<1> HIDE DEF v
<1>7. Sound(V, g, v, e, z)
  BY <1>5, <1>6, SoundRekeyed DEF FreshKeys
<1>8. v \in ScannersOver(V) /\ v.tokens = s.tokens /\ v.flowLevel = s.flowLevel
      /\ v.rest = u.rest /\ Rooted(v) /\ v.tokensParsed = s.tokensParsed
  BY <1>4, <1>6, <1>7 DEF Rekeyed, SameStructure, SamePlace, Sound
<1>9. Ready(v, e)
  BY <1>8 DEF Ready
<1>10. ~v.error => FreshKeys(s, v)
  BY <1>4, <1>6 DEF FreshKeys, SameStructure
<1>11. CASE v.error
  BY <1>2, <1>7, <1>8, <1>9, <1>11 DEF Prepares, z
<1>12. CASE ~v.error
  <2>1. column \in Nat \cup {-1}
    BY <1>8, Fields
  <2> HIDE DEF column
  <2>2. PICK x : Unrolled(V, g, v, column, t, x)
    BY <1>7, <1>9, <2>1, SoundUnrolled DEF z
  <2>3. Keeps(v, t)
    BY <1>1, <1>8, <2>1, UnrollKeeps
  <2> HIDE DEF t
  <2>4. t.simpleKeys = v.simpleKeys /\ t.line = v.line /\ t.index = v.index
        /\ t.rest = v.rest /\ t.tokensParsed = v.tokensParsed
    BY <2>2 DEF Unrolled, SamePlace
  <2>5. Sound(V, g, t, x, 0) /\ (~t.error => Ready(t, x))
    BY <2>2 DEF Unrolled
  <2>6. Keeps(s, t)
    BY <1>8, <2>3 DEF Keeps
  <2>7. \A key : Stale(t, key) <=> Stale(v, key)
    BY <2>4 DEF Stale
  <2>8. FreshKeys(s, t)
    BY <1>10, <1>12, <2>4, <2>7 DEF FreshKeys
  <2>9. Prepares(g, s, t)
    BY <1>4, <1>8, <2>4, <2>5, <2>6, <2>8 DEF Prepares
  <2>10. QED
    BY <1>2, <1>12, <2>9
<1>13. QED
  BY <1>11, <1>12

-----------------------------------------------------------------------------
(* A whole turn, from a scanner that is prepared: what was in the queue    *)
(* stays there, or a simple key was found.                                 *)
Turned(g, p, t) ==
    /\ t.tokensParsed = p.tokensParsed
    /\ \E W, y : After(W, g, t, y)
    /\ ~t.error => /\ \/ Len(t.rest) < Len(p.rest)
                      \/ Last(t.tokens).type = "STREAM-END"
                   /\ \/ Keeps(p, t)
                      \/ CurrentKey(p) # {} /\ t.line = p.line /\ t.index = p.index + 1

LEMMA FetchesTurned ==
    ASSUME NEW g, NEW p, NEW t, Fetches(g, p, t)
    PROVE  Turned(g, p, t)
<1>1. \E W, y : After(W, g, t, y)
  BY FetchesAfter
<1>2. QED
  BY <1>1 DEF Fetches, Turned

LEMMA StreamEndTurned ==
    ASSUME NEW V, NEW g, NEW s, NEW e, Sound(V, g, s, e, 0), ~s.error, Ready(s, e)
    PROVE  Turned(g, s, FetchStreamEnd(s))
BY FetchStreamEndEnds DEF Turned

LEMMA KeyedTurned ==
    ASSUME NEW V, NEW g, NEW s, NEW e, Waiting(V, g, s, e)
    PROVE  Turned(g, s, FetchValue(s))
<1>1. CASE CurrentKey(s) = {}
  <2>1. Fetches(g, s, FetchValue(s))
    BY <1>1, FetchValueFetches
  <2>2. QED
    BY <2>1, FetchesTurned
<1>2. CASE CurrentKey(s) # {}
  <2> DEFINE t == FetchValue(s)
  <2>1. FetchesBehind(g, s, t)
    BY <1>2, FetchKeyedFetches
  <2> HIDE DEF t
  <2>2. PICK v : /\ v.rest = s.rest /\ v.tokensParsed = s.tokensParsed
                 /\ Fetches(g, v, t)
    BY <2>1 DEF FetchesBehind
  <2>3. \E W, y : After(W, g, t, y)
    BY <2>2, FetchesAfter
  <2>4. ~t.error => Len(t.rest) < Len(s.rest)
    BY <2>2 DEF Fetches
  <2>5. t.line = s.line /\ t.index = s.index + 1 /\ t.tokensParsed = s.tokensParsed
    BY <2>1, <2>2 DEF FetchesBehind, Fetches
  <2>6. QED
    BY <1>2, <2>3, <2>4, <2>5 DEF Turned, t
<1>3. QED
  BY <1>1, <1>2

LEMMA FailedTurned ==
    ASSUME NEW V, NEW g, NEW s, NEW e, Sound(V, g, s, e, 0)
    PROVE  Turned(g, s, Failed(s))
<1> DEFINE t == Failed(s)
<1>1. s \in ScannersOver(V)
  BY DEF Sound
<1>2. Rekeyed(V, s, t) /\ t.error
  BY <1>1, FailedFields
<1> HIDE DEF t
<1>3. EndIsLast(s)
  BY DEF Sound, Open, EndIsLast
<1>4. t \in ScannersOver(V) /\ SamePlace(s, t) /\ t.tokens = s.tokens
      /\ t.indents = s.indents /\ t.indent = s.indent /\ t.flowLevel = s.flowLevel
      /\ Len(t.simpleKeys) = Len(s.simpleKeys)
  BY <1>2 DEF Rekeyed
<1>5. Rooted(t) /\ EndIsLast(t)
  BY <1>3, <1>4 DEF Sound, Rooted, EndIsLast, SamePlace, IndentLevels
<1>6. After(V, g, t, e)
  BY <1>2, <1>4, <1>5 DEF After, Sound
<1>7. QED
  BY <1>2, <1>4, <1>6 DEF Turned, SamePlace, t

(* What the fetcher says about the character here.                         *)
LEMMA FetcherSays ==
    ASSUME NEW s, s.started
    PROVE  /\ IsZ(Here(s)) => Fetcher(s) = "stream-end"
           /\ Fetcher(s) = "plain scalar" => ~EndsPlain(s)
           /\ Fetcher(s) \in Fetchers \ {"stream-start"}
<1> DEFINE c == Here(s)
           spaced == IsBlankZ(Ahead(s, 1))
           start == Indicated(s, "-")
           end == Indicated(s, ".")
           plain == StartsPlain(s)
           f == Fetcher(s)
<1>1. f = IF IsZ(c) THEN "stream-end"
          ELSE IF s.column = 0 /\ c = "%" THEN "directive"
          ELSE IF start THEN "document-start"
          ELSE IF end THEN "document-end"
          ELSE IF c \in FlowIndicators THEN c
          ELSE IF c = "-" /\ spaced THEN c
          ELSE IF c \in {"?", ":"} /\ (s.flowLevel > 0 \/ spaced) THEN c
          ELSE IF c \in {"*", "&", "!"} THEN c
          ELSE IF c \in {"|", ">"} /\ s.flowLevel = 0 THEN "block scalar"
          ELSE IF c \in {"'", "\""} THEN "flow scalar"
          ELSE IF plain THEN "plain scalar"
          ELSE "unknown"
  BY DEF Fetcher
<1>2. EndsPlain(s) <=> \/ c = ":" /\ spaced
                       \/ s.flowLevel > 0 /\ c \in FlowIndicators
  BY DEF EndsPlain
<1> HIDE DEF f, c, spaced, start, end, plain
<1>3. IsZ(c) => f = "stream-end"
  BY <1>1
<1>4. f = "plain scalar" => ~EndsPlain(s)
  BY <1>1, <1>2 DEF FlowIndicators
<1>5. f \in Fetchers \ {"stream-start"}
  BY <1>1 DEF FlowIndicators, Fetchers
<1>6. QED
  BY <1>3, <1>4, <1>5 DEF f, c

(* yaml_parser_fetch_next_token, behind the preparations.                  *)
LEMMA FetchedTurned ==
    ASSUME NEW V, NEW g, NEW s, NEW e, Sound(V, g, s, e, 0), ~s.error, Ready(s, e)
    PROVE  Turned(g, s, Fetched(s, Fetcher(s)))
<1> DEFINE f == Fetcher(s)
           t == Fetched(s, f)
<1>1. s \in ScannersOver(V) /\ s.started
  BY DEF Sound, Rooted
<1>2. /\ IsZ(Here(s)) => f = "stream-end"
      /\ f = "plain scalar" => ~EndsPlain(s)
      /\ f \in Fetchers \ {"stream-start"}
  BY <1>1, FetcherSays
<1>3. f # "stream-end" => ~IsZ(Here(s)) /\ Waiting(V, g, s, e)
  BY <1>1, <1>2, HereIsChar DEF Waiting
<1> HIDE DEF f
<1>4. CASE f = "stream-end"
  <2>1. t = FetchStreamEnd(s)
    BY <1>4 DEF Fetched
  <2>2. QED
    BY <2>1, StreamEndTurned DEF f
<1>5. CASE f = "unknown"
  <2>1. t = Failed(s)
    BY <1>5 DEF Fetched
  <2>2. QED
    BY <2>1, FailedTurned DEF f
<1>6. CASE f = ":"
  <2>1. t = FetchValue(s)
    BY <1>6 DEF Fetched
  <2>2. QED
    BY <1>3, <1>6, <2>1, KeyedTurned DEF f
<1>7. CASE f \in {"directive", "document-start", "document-end", "-", "?", ",", "!"}
  <2>1. \/ t = FetchDirective(s) \/ t = FetchDocumentIndicator(s, "DOCUMENT-START")
        \/ t = FetchDocumentIndicator(s, "DOCUMENT-END") \/ t = FetchBlockEntry(s)
        \/ t = FetchKey(s) \/ t = FetchFlowEntry(s) \/ t = FetchTag(s)
    BY <1>7 DEF Fetched
  <2>2. Waiting(V, g, s, e)
    BY <1>3, <1>7
  <2> HIDE DEF t
  <2>3. Fetches(g, s, t)
    BY <2>1, <2>2, FetchDirectiveFetches, FetchDocumentFetches, FetchBlockEntryFetches,
       FetchKeyFetches, FetchFlowEntryFetches, FetchTagFetches
  <2>4. QED
    BY <2>3, FetchesTurned DEF t, f
<1>8. CASE f \in {"[", "{", "]", "}", "*", "&"}
  <2>1. \/ t = FetchFlowCollectionStart(s, "FLOW-SEQUENCE-START")
        \/ t = FetchFlowCollectionStart(s, "FLOW-MAPPING-START")
        \/ t = FetchFlowCollectionEnd(s, "FLOW-SEQUENCE-END")
        \/ t = FetchFlowCollectionEnd(s, "FLOW-MAPPING-END")
        \/ t = FetchAnchor(s, "ALIAS") \/ t = FetchAnchor(s, "ANCHOR")
    BY <1>8 DEF Fetched
  <2>2. Waiting(V, g, s, e)
    BY <1>3, <1>8
  <2> HIDE DEF t
  <2>3. Fetches(g, s, t)
    BY <2>1, <2>2, FetchFlowStartFetches, FetchFlowEndFetches, FetchAnchorFetches
  <2>4. QED
    BY <2>3, FetchesTurned DEF t, f
<1>9. CASE f \in {"block scalar", "flow scalar", "plain scalar"}
  <2>1. \/ t = FetchBlockScalar(s) \/ t = FetchFlowScalar(s)
        \/ f = "plain scalar" /\ t = FetchPlainScalar(s)
    BY <1>9 DEF Fetched
  <2>2. Waiting(V, g, s, e) /\ ~IsZ(Here(s))
    BY <1>3, <1>9
  <2> HIDE DEF t
  <2>3. Fetches(g, s, t)
    BY <1>2, <2>1, <2>2, FetchBlockScalarFetches, FetchFlowScalarFetches,
       FetchPlainScalarFetches
  <2>4. QED
    BY <2>3, FetchesTurned DEF t, f
<1>10. QED
  BY <1>2, <1>4, <1>5, <1>6, <1>7, <1>8, <1>9 DEF Fetchers

-----------------------------------------------------------------------------
(* The caller gets the head of the queue.                                  *)
Delivered(g, s, t) ==
    LET n == GivenAfter(g, Head(s.tokens).type)
    IN  /\ Head(s.tokens).type \in TokenTypes
        /\ g \in Givens /\ Allowed(g, Head(s.tokens).type)
        /\ n \in Givens /\ n.token = Head(s.tokens).type
        /\ t.ended <=> Head(s.tokens).type = "STREAM-END"
        /\ \E W, y : After(W, n, t, y)

LEMMA DequeuedFields ==
    ASSUME NEW V, NEW s \in ScannersOver(V), s.tokens # <<>>
    PROVE  LET t == Dequeued(s) IN
           /\ t \in ScannersOver(V)
           /\ t.tokens = Tail(s.tokens) /\ t.tokensParsed = s.tokensParsed + 1
           /\ t.ended = (Head(s.tokens).type = "STREAM-END")
           /\ t.flowLevel = s.flowLevel /\ t.indent = s.indent /\ t.indents = s.indents
           /\ t.simpleKeys = s.simpleKeys /\ t.started = s.started /\ t.error = s.error
           /\ t.line = s.line /\ t.column = s.column
<1> DEFINE q == Tail(s.tokens)
           b == Head(s.tokens).type = "STREAM-END"
           n == s.tokensParsed + 1
           t == Dequeued(s)
<1>1. t = [s EXCEPT !.tokens = q, !.tokensParsed = n, !.ended = b]
  BY DEF Dequeued, ScannersOver
<1>2. q \in Seq(V) /\ n \in Nat /\ b \in BOOLEAN
  BY Fields
<1> HIDE DEF q, b, n, t
<1>3. t \in ScannersOver(V)
  BY <1>1, <1>2 DEF ScannersOver
<1>4. /\ t.tokens = q /\ t.tokensParsed = n /\ t.ended = b
      /\ t.flowLevel = s.flowLevel /\ t.indent = s.indent /\ t.indents = s.indents
      /\ t.simpleKeys = s.simpleKeys /\ t.started = s.started /\ t.error = s.error
      /\ t.line = s.line /\ t.column = s.column
  BY <1>1 DEF ScannersOver
<1>5. QED
  BY <1>3, <1>4 DEF t, q, n, b

LEMMA GivenAfterToken ==
    ASSUME NEW e \in Givens, NEW type \in TokenTypes, Allowed(e, type)
    PROVE  GivenAfter(e, type) \in Givens /\ GivenAfter(e, type).token = type
<1> DEFINE n == GivenAfter(e, type)
           b == CASE type \in {"BLOCK-SEQUENCE-START", "BLOCK-MAPPING-START"} -> e.blocks + 1
                  [] type = "BLOCK-END" -> e.blocks - 1
                  [] OTHER -> e.blocks
           f == CASE type \in {"FLOW-SEQUENCE-START", "FLOW-MAPPING-START"} -> e.flows + 1
                  [] type \in {"FLOW-SEQUENCE-END", "FLOW-MAPPING-END"} ->
                        IF e.flows > 0 THEN e.flows - 1 ELSE 0
                  [] OTHER -> e.flows
<1>1. n \in Givens /\ n.token = type /\ n.started = TRUE /\ n.blocks = b /\ n.flows = f
  BY GivenAfterIs
<1> HIDE DEF n, b, f
<1>2. QED
  BY <1>1 DEF n

(* A walk without its first step.                                          *)
LEMMA WalkTail ==
    ASSUME NEW V, NEW q \in Seq(V), q # <<>>, NEW g, NEW h, NEW e, Walk(g, q, h, e)
    PROVE  LET f == [k \in 0..Len(Tail(q)) |-> h[k + 1]]
           IN  Walk(GivenAfter(g, q[1].type), Tail(q), f, e) /\ Allowed(g, q[1].type)
<1> DEFINE r == Tail(q)
           f == [k \in 0..Len(r) |-> h[k + 1]]
           n == GivenAfter(g, q[1].type)
<1>1. /\ r \in Seq(V) /\ Len(r) \in Nat /\ Len(q) = Len(r) + 1
      /\ \A k \in 1..Len(r) : r[k] = q[k + 1]
  OBVIOUS
<1> HIDE DEF r
<1>2. /\ h \in [0..(Len(r) + 1) -> Givens] /\ h[0] = g /\ h[Len(r) + 1] = e
      /\ \A k \in 1..(Len(r) + 1) : /\ Allowed(h[k - 1], q[k].type)
                                    /\ h[k] = GivenAfter(h[k - 1], q[k].type)
  BY <1>1 DEF Walk
<1>3. f \in [0..Len(r) -> Givens] /\ f[Len(r)] = e
  BY <1>1, <1>2
<1>4. f[0] = n /\ Allowed(g, q[1].type)
  <2>1. 1 \in 1..(Len(r) + 1) /\ 0 \in 0..Len(r)
    BY <1>1
  <2> HIDE DEF n
  <2>2. Allowed(h[1 - 1], q[1].type) /\ h[1] = GivenAfter(h[1 - 1], q[1].type)
    BY <1>2, <2>1
  <2>3. f[0] = h[1] /\ h[1 - 1] = g
    BY <1>2, <2>1
  <2>4. QED
    BY <2>2, <2>3 DEF n
<1>5. ASSUME NEW k \in 1..Len(r)
      PROVE  Allowed(f[k - 1], r[k].type) /\ f[k] = GivenAfter(f[k - 1], r[k].type)
  <2>1. /\ k + 1 \in 1..(Len(r) + 1) /\ (k + 1) - 1 = k /\ k - 1 \in 0..Len(r)
        /\ k \in 0..Len(r) /\ (k - 1) + 1 = k
    BY <1>1
  <2>2. f[k - 1] = h[k] /\ f[k] = h[k + 1] /\ r[k] = q[k + 1]
    BY <1>1, <2>1
  <2>3. Allowed(h[k], q[k + 1].type) /\ h[k + 1] = GivenAfter(h[k], q[k + 1].type)
    BY <1>2, <2>1
  <2> HIDE DEF f
  <2>4. QED
    BY <2>2, <2>3
<1> HIDE DEF f, n
<1>6. Walk(n, r, f, e)
  BY <1>3, <1>4, <1>5 DEF Walk
<1>7. QED
  BY <1>4, <1>6 DEF n, f, r

LEMMA DeliverDelivers ==
    ASSUME NEW V, NEW g, NEW s, NEW e, After(V, g, s, e), ~s.error, ~NeedsMoreTokens(s)
    PROVE  Delivered(g, s, Dequeued(s))
<1> DEFINE q == s.tokens
           t == Dequeued(s)
           n == GivenAfter(g, q[1].type)
<1>1. s \in ScannersOver(V) /\ q \in Seq(V) /\ Vocabulary(V) /\ q # <<>>
  BY Fields DEF After, NeedsMoreTokens
<1>2. /\ t \in ScannersOver(V)
      /\ t.tokens = Tail(q) /\ t.tokensParsed = s.tokensParsed + 1
      /\ t.ended = (Head(q).type = "STREAM-END")
      /\ t.flowLevel = s.flowLevel /\ t.indent = s.indent /\ t.indents = s.indents
      /\ t.simpleKeys = s.simpleKeys /\ t.started = s.started /\ t.error = s.error
      /\ t.line = s.line /\ t.column = s.column
  BY <1>1, DequeuedFields
<1> HIDE DEF t
<1>3. Head(q) = q[1] /\ q[1] \in V /\ q[1].type \in TokenTypes
  <2>1. Head(q) = q[1] /\ q[1] \in V
    BY <1>1
  <2>2. QED
    BY <1>1, <2>1 DEF Vocabulary
<1>4. /\ Len(Tail(q)) \in Nat /\ Len(q) = Len(Tail(q)) + 1
      /\ DOMAIN q = 1..Len(q) /\ DOMAIN Tail(q) = 1..Len(Tail(q))
      /\ \A k \in 1..Len(Tail(q)) : Tail(q)[k] = q[k + 1]
  BY <1>1
<1>5. Queued(g, s, e, 0) /\ Closing(s) /\ EndIsLast(s) /\ Rooted(s)
  BY DEF After
<1>6. PICK h : Walk(g, q, h, e) /\ KeysEnclose(s, h)
  BY <1>5 DEF Queued
<1> DEFINE f == [k \in 0..Len(Tail(q)) |-> h[k + 1]]
<1>7. Walk(n, Tail(q), f, e) /\ Allowed(g, q[1].type)
  BY <1>1, <1>6, WalkTail
<1>8. h[0] = g /\ h[0] \in Givens /\ f[0] = n /\ f[0] \in Givens
  <2>1. 0 \in 0..Len(q) /\ 0 \in 0..Len(Tail(q))
    BY <1>4
  <2> HIDE DEF f, n, q
  <2>2. QED
    BY <1>6, <1>7, <2>1 DEF Walk
<1> HIDE DEF f
<1>9. n \in Givens /\ n.token = q[1].type
  <2> DEFINE type == q[1].type
  <2>1. g \in Givens /\ type \in TokenTypes /\ Allowed(g, type)
    BY <1>3, <1>7, <1>8
  <2> HIDE DEF type
  <2>2. GivenAfter(g, type) \in Givens /\ GivenAfter(g, type).token = type
    BY <2>1, GivenAfterToken
  <2>3. QED
    BY <2>2 DEF type
<1> HIDE DEF n
<1>10. Rooted(t)
  BY <1>2, <1>5 DEF Rooted, IndentLevels
<1>11. EndIsLast(t)
  <2>1. ASSUME NEW k \in DOMAIN t.tokens, t.tokens[k].type = "STREAM-END"
        PROVE  k = Len(t.tokens)
    <3>1. k + 1 \in DOMAIN q /\ q[k + 1] = t.tokens[k] /\ k \in 1..Len(Tail(q))
      BY <1>2, <1>4
    <3>2. k + 1 = Len(q)
      BY <1>5, <2>1, <3>1 DEF EndIsLast
    <3>3. QED
      BY <1>2, <1>4, <3>1, <3>2
  <2>2. QED
    BY <2>1 DEF EndIsLast
<1>12. Closing(t)
  <2>1. Open(s) => Open(t)
    <3>1. ASSUME NEW k \in DOMAIN t.tokens PROVE k + 1 \in DOMAIN q /\ q[k + 1] = t.tokens[k]
      BY <1>2, <1>4
    <3>2. QED
      BY <3>1 DEF Open
  <2>2. QED
    BY <1>2, <1>5, <2>1 DEF Closing
<1>13. ASSUME NEW i \in DOMAIN s.simpleKeys, NEW key \in s.simpleKeys[i]
       PROVE  /\ Place(t, key) = Place(s, key) - 1
              /\ Place(t, key) \in 1..Len(Tail(q)) /\ Place(s, key) \in DOMAIN q
              /\ q[Place(s, key)].type \in KeyStarts /\ Behind(key, s)
  <2>1. key \in Keys /\ key.number \in Nat /\ s.tokensParsed \in Nat
    BY <1>1, KeysAreKeys, Fields
  <2>2. /\ Place(s, key) \in DOMAIN q /\ q[Place(s, key)].type \in KeyStarts
        /\ Behind(key, s)
    BY <1>5, <1>13 DEF Queued, KeysWait, Waits
  <2>3. key \in PossibleKeys(s)
    BY <1>13 DEF PossibleKeys, ToSet
  <2>4. key.number # s.tokensParsed
    BY <2>3 DEF NeedsMoreTokens, HeadMayBeKey
  <2>5. Place(t, key) = Place(s, key) - 1 /\ Place(s, key) # 1
    <3> DEFINE a == key.number
               b == s.tokensParsed
    <3>1. /\ Place(t, key) = a - (b + 1) + 1 /\ Place(s, key) = a - b + 1
          /\ a \in Nat /\ b \in Nat /\ a # b
      BY <1>2, <2>1, <2>4 DEF Place
    <3> HIDE DEF a, b
    <3>2. QED
      BY <3>1
  <2>6. QED
    BY <1>4, <2>2, <2>5
<1>14. KeysWait(t, 0)
  <2>1. ASSUME NEW i \in DOMAIN s.simpleKeys, NEW key \in s.simpleKeys[i]
        PROVE  Waits(t, key, 0)
    <3> DEFINE p == Place(s, key)
               r == Place(t, key)
    <3>1. r = p - 1 /\ r \in 1..Len(Tail(q)) /\ p \in DOMAIN q
          /\ q[p].type \in KeyStarts /\ Behind(key, s)
      BY <1>13
    <3> HIDE DEF p, r
    <3>2. Tail(q)[r] = q[p]
      <4>1. r + 1 = p
        BY <1>4, <3>1
      <4>2. QED
        BY <1>4, <3>1, <4>1
    <3>3. Behind(key, t)
      BY <1>2, <3>1 DEF Behind
    <3>4. QED
      BY <1>2, <1>4, <3>1, <3>2, <3>3 DEF Waits, r
  <2>2. QED
    BY <1>2, <2>1 DEF KeysWait
<1>15. KeysEnclose(t, f)
  <2>1. ASSUME NEW i \in DOMAIN s.simpleKeys, NEW key \in s.simpleKeys[i], NEW flows,
               Encloses(s, h, key, flows)
        PROVE  Encloses(t, f, key, flows)
    <3> DEFINE p == Place(s, key)
               r == Place(t, key)
    <3>1. r = p - 1 /\ r \in 1..Len(Tail(q)) /\ p \in DOMAIN q
      BY <1>13
    <3>2. /\ h[p - 1].flows = flows
          /\ \A k \in p..Len(q) : q[k].type \in DocumentTypes => h[k - 1].flows > 0
      BY <2>1 DEF Encloses
    <3> HIDE DEF p, r
    <3>3. p \in Nat /\ r \in Nat
      BY <1>4, <3>1
    <3>4. \A k \in 0..Len(Tail(q)) : f[k] = h[k + 1]
      BY DEF f
    <3>5. f[r - 1].flows = flows
      <4>1. r - 1 \in 0..Len(Tail(q)) /\ (r - 1) + 1 = p - 1
        BY <1>4, <3>1, <3>3
      <4>2. QED
        BY <3>2, <3>4, <4>1
    <3>6. ASSUME NEW k \in r..Len(Tail(q)), Tail(q)[k].type \in DocumentTypes
          PROVE  f[k - 1].flows > 0
      <4>1. /\ k + 1 \in p..Len(q) /\ (k + 1) - 1 = k /\ (k - 1) + 1 = k
            /\ k - 1 \in 0..Len(Tail(q)) /\ k \in 1..Len(Tail(q))
        BY <1>4, <3>1, <3>3
      <4>2. q[k + 1].type \in DocumentTypes
        BY <1>4, <3>6, <4>1
      <4>3. h[k].flows > 0
        BY <3>2, <4>1, <4>2
      <4>4. f[k - 1] = h[k]
        BY <3>4, <4>1
      <4>5. QED
        BY <4>3, <4>4
    <3>7. QED
      BY <1>2, <3>5, <3>6 DEF Encloses, r
  <2>2. QED
    BY <1>2, <1>6, <2>1 DEF KeysEnclose
<1>16. Queued(n, t, e, 0)
  BY <1>2, <1>5, <1>7, <1>14, <1>15 DEF Queued
<1>17. After(V, n, t, e)
  BY <1>1, <1>2, <1>10, <1>11, <1>12, <1>16 DEF After
<1>18. QED
  BY <1>2, <1>3, <1>7, <1>8, <1>9, <1>17 DEF Delivered, n, t

-----------------------------------------------------------------------------
(* The steps of the state machine.                                         *)
InTheMiddle(g, s) == \E V, e : After(V, g, s, e)

IInv ==
    /\ given \in Givens /\ (given.token = "STREAM-END" => Over(scanner))
    /\ \/ \E V : Idle(V, scanner, given)
       \/ InTheMiddle(given, scanner)

(* p is what a turn finds: the queue is that of s and the keys are keys of *)
(* s that are not stale, or it has failed.                                 *)
Found(g, s, p) ==
    /\ p.tokensParsed = s.tokensParsed
    /\ p.error => InTheMiddle(g, p)
    /\ ~p.error => /\ Keeps(s, p) /\ Len(p.rest) <= Len(s.rest)
                   /\ DOMAIN p.simpleKeys = DOMAIN s.simpleKeys
                   /\ \A i \in DOMAIN s.simpleKeys :
                         /\ p.simpleKeys[i] \subseteq s.simpleKeys[i]
                         /\ \A key \in p.simpleKeys[i] : ~Stale(p, key)
                   /\ \E V, x : Sound(V, g, p, x, 0) /\ Ready(p, x)

LEMMA SoundIsInTheMiddle ==
    ASSUME NEW V, NEW g, NEW s, NEW e, Sound(V, g, s, e, 0), s.error
    PROVE  InTheMiddle(g, s)
<1>1. EndIsLast(s)
  BY DEF Sound, Open, EndIsLast
<1>2. After(V, g, s, e)
  BY <1>1 DEF Sound, After
<1>3. QED
  BY <1>2 DEF InTheMiddle

LEMMA TurnFinds ==
    ASSUME NEW g, g.token # "STREAM-END", NEW s, InTheMiddle(g, s), ~s.error,
           NEW now, now = Checked(s), ~now.error, NeedsMoreTokens(now)
    PROVE  Found(g, s, Prepared(now))
<1>1. PICK V, e : After(V, g, s, e)
  BY DEF InTheMiddle
<1>2. /\ After(V, g, now, e) /\ SamePlace(s, now) /\ now.tokens = s.tokens
      /\ DOMAIN now.simpleKeys = DOMAIN s.simpleKeys
      /\ \A i \in DOMAIN s.simpleKeys : now.simpleKeys[i] \subseteq s.simpleKeys[i]
      /\ now.tokens = <<>> \/ FreshKeys(s, now)
  BY <1>1, CheckedAfter
<1>3. Open(now)
  <2>1. now.tokens = <<>> \/ \A i \in DOMAIN now.simpleKeys :
                                \A key \in now.simpleKeys[i] : ~Stale(now, key)
    BY <1>2 DEF FreshKeys
  <2>2. QED
    BY <1>2, <2>1, MoreIsOpen
<1>4. Sound(V, g, now, e, 0) /\ Ready(now, e)
  BY <1>2, <1>3, OpenIsReady
<1> DEFINE p == Prepared(now)
<1>5. Prepares(g, now, p)
  BY <1>4, PreparedIsSound
<1> HIDE DEF p
<1>6. PICK W, x : Sound(W, g, p, x, 0) /\ (~p.error => Ready(p, x))
  BY <1>5 DEF Prepares
<1>7. p.tokensParsed = s.tokensParsed /\ (p.error => InTheMiddle(g, p))
  BY <1>2, <1>5, <1>6, SoundIsInTheMiddle DEF Prepares, SamePlace
<1>8. ~p.error => Keeps(s, p) /\ Len(p.rest) <= Len(s.rest)
  BY <1>2, <1>5 DEF Prepares, Keeps, SamePlace
<1>9. ~p.error => /\ DOMAIN p.simpleKeys = DOMAIN s.simpleKeys
                  /\ \A i \in DOMAIN s.simpleKeys :
                        /\ p.simpleKeys[i] \subseteq s.simpleKeys[i]
                        /\ \A key \in p.simpleKeys[i] : ~Stale(p, key)
  BY <1>2, <1>5 DEF Prepares, FreshKeys
<1>10. QED
  BY <1>6, <1>7, <1>8, <1>9 DEF Found, p

LEMMA TurnTurns ==
    ASSUME NEW g, NEW s, NEW p, Found(g, s, p), ~p.error
    PROVE  Turned(g, p, Fetched(p, Fetcher(p)))
BY FetchedTurned DEF Found

(* Before the first turn there is nothing to check or to prepare.          *)
LEMMA FirstTurn ==
    ASSUME NEW V, NEW s, NEW g, Idle(V, s, g)
    PROVE  /\ Checked(s) = s /\ Prepared(s) = s /\ NeedsMoreTokens(s)
           /\ Fetcher(s) = "stream-start"
           /\ InTheMiddle(g, Fetched(s, "stream-start"))
           /\ Fetched(s, "stream-start").tokensParsed = s.tokensParsed
<1>1. Checked(s) = s /\ Prepared(s) = s /\ NeedsMoreTokens(s)
      /\ Fetcher(s) = "stream-start"
  BY DEF Idle, Checked, Prepared, NeedsMoreTokens, Fetcher
<1>2. Fetched(s, "stream-start") = FetchStreamStart(s)
  BY DEF Fetched
<1>3. QED
  BY <1>1, <1>2, FetchStreamStartStarts DEF InTheMiddle

LEMMA CheckedInTheMiddle ==
    ASSUME NEW g, NEW s, InTheMiddle(g, s), ~s.error
    PROVE  InTheMiddle(g, Checked(s)) /\ Checked(s).tokensParsed = s.tokensParsed
BY CheckedAfter DEF InTheMiddle, SamePlace

LEMMA DeliverInTheMiddle ==
    ASSUME NEW g, NEW s, InTheMiddle(g, s), ~s.error, ~NeedsMoreTokens(s)
    PROVE  Delivered(g, s, Dequeued(s))
BY DeliverDelivers DEF InTheMiddle

(* The walk over the queue and the places of the keys stay in step with    *)
(* what the scanner reads, for every text and every limit on a key.        *)
THEOREM ScannerInvariant == Spec => []IInv
<1>1. Init => IInv
  <2> SUFFICES ASSUME Init PROVE IInv
    OBVIOUS
  <2> DEFINE V == {Token(type, "", <<>>) : type \in TokenTypes}
  <2>1. Vocabulary(V)
    <3>1. \A type \in TokenTypes : Token(type, "", <<>>).type = type
      BY DEF Token
    <3>2. QED
      BY <3>1 DEF Vocabulary
  <2>2. PICK text \in Texts : scanner = Start(text)
    BY DEF Init
  <2>3. text \in Seq(Symbols)
    <3>1. text \in Seq(ToSet(text)) /\ ToSet(text) \subseteq Symbols
      BY TextsAssumption DEF Symbols
    <3>2. QED
      BY <3>1
  <2> HIDE DEF V
  <2>4. Idle(V, scanner, given)
    <3>1. scanner \in ScannersOver(V)
      BY <2>2, <2>3 DEF Start, ScannersOver
    <3>2. QED
      BY <2>1, <2>2, <3>1 DEF Idle, Start, Init
  <2>5. given \in Givens /\ given.token # "STREAM-END"
    BY DEF Init, NothingGiven, Givens
  <2>6. QED
    BY <2>4, <2>5 DEF IInv
<1>2. IInv /\ [Next]_vars => IInv'
  <2> SUFFICES ASSUME IInv, [Next]_vars PROVE IInv'
    OBVIOUS
  <2>1. CASE KeyExpected
    <3>1. ~Over(scanner) /\ given' = given /\ given.token # "STREAM-END" /\ ~scanner.error
      BY <2>1 DEF KeyExpected, Over, IInv
    <3>2. CASE \E V : Idle(V, scanner, given)
      BY <2>1, <3>2, FirstTurn DEF KeyExpected, Idle
    <3>3. CASE InTheMiddle(given, scanner)
      <4>1. InTheMiddle(given, scanner')
        BY <2>1, <3>1, <3>3, CheckedInTheMiddle, TurnFinds DEF KeyExpected, Found
      <4>2. QED
        BY <3>1, <4>1 DEF IInv
    <3>4. QED
      BY <3>2, <3>3 DEF IInv
  <2>2. CASE Deliver
    <3>1. ~Over(scanner) /\ ~scanner.error
      BY <2>2 DEF Deliver, Over
    <3>2. CASE \E V : Idle(V, scanner, given)
      BY <2>2, <3>2, FirstTurn DEF Deliver
    <3>3. CASE InTheMiddle(given, scanner)
      <4> DEFINE now == Checked(scanner)
      <4>1. /\ ~now.error /\ ~NeedsMoreTokens(now) /\ scanner' = Dequeued(now)
            /\ given' = GivenAfter(given, Head(now.tokens).type)
        BY <2>2 DEF Deliver
      <4>2. InTheMiddle(given, now)
        BY <3>1, <3>3, CheckedInTheMiddle
      <4> HIDE DEF now
      <4>3. Delivered(given, now, scanner')
        BY <4>1, <4>2, DeliverInTheMiddle
      <4>4. QED
        BY <4>1, <4>3 DEF Delivered, IInv, Over, InTheMiddle
    <3>4. QED
      BY <3>2, <3>3 DEF IInv
  <2>3. ASSUME NEW fetcher \in Fetchers, Fetch(fetcher) PROVE IInv'
    <3> DEFINE now == Checked(scanner)
               p == Prepared(now)
    <3>1. /\ ~Over(scanner) /\ ~now.error /\ NeedsMoreTokens(now) /\ ~p.error
          /\ Fetcher(p) = fetcher /\ scanner' = Fetched(p, fetcher) /\ given' = given
      BY <2>3 DEF Fetch
    <3>2. given.token # "STREAM-END" /\ ~scanner.error
      BY <3>1 DEF Over, IInv
    <3>3. CASE \E V : Idle(V, scanner, given)
      <4>1. InTheMiddle(given, scanner')
        BY <3>1, <3>3, FirstTurn
      <4>2. QED
        BY <3>1, <3>2, <4>1 DEF IInv
    <3>4. CASE InTheMiddle(given, scanner)
      <4> HIDE DEF now
      <4>1. Found(given, scanner, p)
        BY <3>1, <3>2, <3>4, TurnFinds DEF now
      <4> HIDE DEF p
      <4>2. Turned(given, p, scanner')
        BY <3>1, <4>1, TurnTurns
      <4>3. QED
        BY <3>1, <3>2, <4>2 DEF Turned, IInv, InTheMiddle
    <3>5. QED
      BY <3>3, <3>4 DEF IInv
  <2>4. CASE NoToken \/ UNCHANGED vars
    BY <2>4 DEF NoToken, vars, IInv, InTheMiddle
  <2>5. QED
    BY <2>1, <2>2, <2>3, <2>4 DEF Next
<1>3. QED
  BY <1>1, <1>2, PTL DEF Spec

-----------------------------------------------------------------------------
(* What the runs check.                                                    *)
LEMMA InvariantScanners ==
    ASSUME IInv
    PROVE  \E V : Vocabulary(V) /\ scanner \in ScannersOver(V)
BY DEF IInv, Idle, InTheMiddle, After

(* The fields of the scanner and its tokens keep their types, whatever is  *)
(* read: no level becomes negative and no other token is queued.           *)
THEOREM TypeCorrect == Spec => []TypeOK
<1>1. ASSUME IInv PROVE TypeOK
  <2>1. PICK V : Vocabulary(V) /\ scanner \in ScannersOver(V)
    BY <1>1, InvariantScanners
  <2>2. /\ scanner.index \in Nat /\ scanner.line \in Nat /\ scanner.column \in Nat
        /\ scanner.flowLevel \in Nat /\ scanner.tokensParsed \in Nat
    BY <2>1, Fields
  <2>3. /\ scanner.simpleKeyAllowed \in BOOLEAN /\ scanner.started \in BOOLEAN
        /\ scanner.ended \in BOOLEAN /\ scanner.error \in BOOLEAN
    BY <2>1, Fields
  <2>4. scanner.indent \in Nat \cup {-1} /\ scanner.tokens \in Seq(V)
    BY <2>1, Fields
  <2>5. \A i \in DOMAIN scanner.tokens : scanner.tokens[i].type \in TokenTypes
    <3>1. \A v \in V : v.type \in TokenTypes
      BY <2>1 DEF Vocabulary
    <3>2. QED
      BY <2>4, <3>1
  <2>6. given.token \in TokenTypes \cup {"NO-TOKEN"}
    BY <1>1 DEF IInv, Givens
  <2>7. \A field \in {"index", "line", "column", "flowLevel", "tokensParsed"} :
           scanner[field] \in Nat
    BY <2>2
  <2>8. \A field \in {"simpleKeyAllowed", "started", "ended", "error"} :
           scanner[field] \in BOOLEAN
    BY <2>3
  <2>9. QED
    BY <2>4, <2>5, <2>6, <2>7, <2>8 DEF TypeOK
<1>2. QED
  BY <1>1, ScannerInvariant, PTL

(* QUEUE_INSERT never reaches in front of what the parser already has, and *)
(* moves no key of another flow level (scanner.c:1098-1131, 1242, 1699).    *)
THEOREM KeysStayQueued == Spec => []KeysAreQueued
<1>1. ASSUME IInv PROVE KeysAreQueued
  <2> SUFFICES ASSUME scanner.started, ~scanner.error
               PROVE  /\ Len(scanner.simpleKeys) = scanner.flowLevel + 1
                      /\ \A i \in DOMAIN scanner.simpleKeys :
                           \A key \in scanner.simpleKeys[i] :
                             LET place == key.number - scanner.tokensParsed + 1
                             IN  /\ place \in DOMAIN scanner.tokens
                                 /\ scanner.tokens[place].type \in KeyStarts
                                 /\ \A inner \in UNION {scanner.simpleKeys[j] :
                                        j \in (i + 1)..Len(scanner.simpleKeys)} :
                                      key.number < inner.number
    BY DEF KeysAreQueued
  <2>1. PICK V, e : After(V, given, scanner, e)
    BY <1>1 DEF IInv, Idle, InTheMiddle
  <2>2. /\ scanner \in ScannersOver(V) /\ Rooted(scanner)
        /\ KeysWait(scanner, 0) /\ Nested(scanner.simpleKeys)
    BY <2>1 DEF After, Queued
  <2>3. Len(scanner.simpleKeys) = scanner.flowLevel + 1
    BY <2>2 DEF Rooted
  <2>4. Len(scanner.simpleKeys) \in Nat
        /\ DOMAIN scanner.simpleKeys = 1..Len(scanner.simpleKeys)
    BY <2>2, Fields
  <2>5. ASSUME NEW i \in DOMAIN scanner.simpleKeys, NEW key \in scanner.simpleKeys[i]
        PROVE  /\ Place(scanner, key) \in DOMAIN scanner.tokens
               /\ scanner.tokens[Place(scanner, key)].type \in KeyStarts
    BY <2>2 DEF KeysWait, Waits
  <2>6. ASSUME NEW i \in DOMAIN scanner.simpleKeys, NEW key \in scanner.simpleKeys[i],
               NEW inner \in UNION {scanner.simpleKeys[j] :
                                       j \in (i + 1)..Len(scanner.simpleKeys)}
        PROVE  key.number < inner.number
    <3>1. PICK j \in (i + 1)..Len(scanner.simpleKeys) : inner \in scanner.simpleKeys[j]
      OBVIOUS
    <3>2. j \in DOMAIN scanner.simpleKeys /\ i < j
      BY <2>4
    <3>3. QED
      BY <2>2, <3>1, <3>2 DEF Nested
  <2>7. QED
    BY <2>3, <2>5, <2>6 DEF Place
<1>2. QED
  BY <1>1, ScannerInvariant, PTL

(* Nothing is fetched behind the end of the stream: no key is possible     *)
(* there any more, on whatever flow level the stream ends                  *)
(* (scanner.c:801-858, 1330-1365).                                         *)
THEOREM NothingFollowsTheEnd == Spec => []StreamEndIsLast
<1>1. ASSUME IInv PROVE StreamEndIsLast
  <2>1. EndIsLast(scanner)
    BY <1>1 DEF IInv, Idle, InTheMiddle, After, EndIsLast
  <2>2. QED
    BY <2>1 DEF EndIsLast, StreamEndIsLast
<1>2. QED
  BY <1>1, ScannerInvariant, PTL

-----------------------------------------------------------------------------
(* A step fetches or delivers.                                             *)
Turns ==
    /\ given' = given /\ scanner'.tokensParsed = scanner.tokensParsed
    /\ scanner.started /\ ~scanner'.error =>
          \E p : /\ Found(given, scanner, p) /\ ~p.error
                 /\ Turned(given, p, scanner')

Hands ==
    \E now : /\ Delivered(given, now, scanner')
             /\ given' = GivenAfter(given, Head(now.tokens).type)

LEMMA KeyExpectedTurns ==
    ASSUME IInv, KeyExpected PROVE Turns
<1>1. ~Over(scanner) /\ given' = given /\ given.token # "STREAM-END" /\ ~scanner.error
  BY DEF KeyExpected, Over, IInv
<1>2. CASE \E V : Idle(V, scanner, given)
  BY <1>2, FirstTurn DEF KeyExpected, Idle
<1>3. CASE InTheMiddle(given, scanner)
  <2> DEFINE now == Checked(scanner)
             p == Prepared(now)
  <2>1. \/ now.error /\ scanner' = now
        \/ ~now.error /\ NeedsMoreTokens(now) /\ p.error /\ scanner' = p
    BY DEF KeyExpected
  <2>2. now.tokensParsed = scanner.tokensParsed
    BY <1>1, <1>3, CheckedInTheMiddle
  <2> HIDE DEF now
  <2>3. ~now.error /\ NeedsMoreTokens(now) => p.tokensParsed = scanner.tokensParsed
    BY <1>1, <1>3, TurnFinds DEF Found, now
  <2> HIDE DEF p
  <2>4. scanner'.tokensParsed = scanner.tokensParsed /\ scanner'.error
    BY <2>1, <2>2, <2>3
  <2>5. QED
    BY <1>1, <2>4 DEF Turns
<1>4. QED
  BY <1>2, <1>3 DEF IInv

LEMMA FetchTurns ==
    ASSUME IInv, NEW fetcher \in Fetchers, Fetch(fetcher) PROVE Turns
<1> DEFINE now == Checked(scanner)
           p == Prepared(now)
<1>1. /\ ~Over(scanner) /\ ~now.error /\ NeedsMoreTokens(now) /\ ~p.error
      /\ Fetcher(p) = fetcher /\ scanner' = Fetched(p, fetcher) /\ given' = given
  BY DEF Fetch
<1>2. given.token # "STREAM-END" /\ ~scanner.error
  BY <1>1 DEF Over, IInv
<1>3. CASE \E V : Idle(V, scanner, given)
  <2>1. scanner'.tokensParsed = scanner.tokensParsed /\ ~scanner.started
    BY <1>1, <1>3, FirstTurn DEF Idle
  <2>2. QED
    BY <1>1, <2>1 DEF Turns
<1>4. CASE InTheMiddle(given, scanner)
  <2> HIDE DEF now
  <2>1. Found(given, scanner, p)
    BY <1>1, <1>2, <1>4, TurnFinds DEF now
  <2> HIDE DEF p
  <2>2. Turned(given, p, scanner')
    BY <1>1, <2>1, TurnTurns
  <2>3. scanner'.tokensParsed = scanner.tokensParsed
    BY <2>1, <2>2 DEF Turned, Found
  <2>4. QED
    BY <1>1, <2>1, <2>2, <2>3 DEF Turns
<1>5. QED
  BY <1>3, <1>4 DEF IInv

LEMMA DeliverHands ==
    ASSUME IInv, Deliver PROVE Hands
<1> DEFINE now == Checked(scanner)
<1>1. /\ ~Over(scanner) /\ ~now.error /\ ~NeedsMoreTokens(now)
      /\ scanner' = Dequeued(now)
      /\ given' = GivenAfter(given, Head(now.tokens).type)
  BY DEF Deliver
<1>2. ~scanner.error
  BY <1>1 DEF Over
<1>3. CASE \E V : Idle(V, scanner, given)
  BY <1>1, <1>3, FirstTurn
<1>4. CASE InTheMiddle(given, scanner)
  <2>1. InTheMiddle(given, now)
    BY <1>2, <1>4, CheckedInTheMiddle
  <2> HIDE DEF now
  <2>2. Delivered(given, now, scanner')
    BY <1>1, <2>1, DeliverInTheMiddle
  <2>3. QED
    BY <1>1, <2>2 DEF Hands
<1>5. QED
  BY <1>3, <1>4 DEF IInv

(* A turn that delivers nothing hands nothing over, and the other way      *)
(* round.                                                                  *)
LEMMA DeliverCounts ==
    ASSUME IInv, Deliver PROVE Delivering
<1> DEFINE now == Checked(scanner)
<1>1. /\ ~Over(scanner) /\ ~now.error /\ ~NeedsMoreTokens(now)
      /\ scanner' = Dequeued(now)
  BY DEF Deliver
<1>2. ~scanner.error
  BY <1>1 DEF Over
<1>3. CASE \E V : Idle(V, scanner, given)
  BY <1>1, <1>3, FirstTurn
<1>4. CASE InTheMiddle(given, scanner)
  <2>1. InTheMiddle(given, now) /\ now.tokensParsed = scanner.tokensParsed
    BY <1>2, <1>4, CheckedInTheMiddle
  <2> HIDE DEF now
  <2>2. PICK V : now \in ScannersOver(V)
    BY <2>1 DEF InTheMiddle, After
  <2>3. now.tokensParsed \in Nat
    BY <2>2, Fields
  <2>4. Dequeued(now).tokensParsed = now.tokensParsed + 1
    BY <1>1, <2>2, DequeuedFields DEF NeedsMoreTokens
  <2>5. QED
    BY <1>1, <2>1, <2>3, <2>4 DEF Delivering
<1>5. QED
  BY <1>3, <1>4 DEF IInv

LEMMA StepTurnsOrHands ==
    ASSUME IInv, [Next]_vars
    PROVE  \/ Turns /\ ~Delivering
           \/ Hands /\ Delivering
           \/ UNCHANGED vars
<1>1. CASE KeyExpected
  BY <1>1, KeyExpectedTurns DEF Turns, Delivering
<1>2. CASE Deliver
  BY <1>2, DeliverHands, DeliverCounts
<1>3. ASSUME NEW fetcher \in Fetchers, Fetch(fetcher) PROVE Turns /\ ~Delivering
  BY <1>3, FetchTurns DEF Turns, Delivering
<1>4. CASE NoToken \/ UNCHANGED vars
  BY <1>4 DEF NoToken
<1>5. QED
  BY <1>1, <1>2, <1>3, <1>4 DEF Next

(* RollIndent puts the start of a block collection where its first entry   *)
(* or key follows, at the end of the queue or in front of a KEY            *)
(* (scanner.c:1206-1252, 1684-1725).                                       *)
THEOREM BlockStartsMeetEntries == Spec => StartsMeetEntries
<1>1. ASSUME IInv, [Next]_vars, Delivering
      PROVE  /\ given.token = "BLOCK-MAPPING-START" => given'.token \in {"KEY", "VALUE"}
             /\ given.token = "BLOCK-SEQUENCE-START" => given'.token = "BLOCK-ENTRY"
  <2>1. Hands
    BY <1>1, StepTurnsOrHands DEF vars, Delivering
  <2>2. QED
    BY <2>1 DEF Hands, Delivered, Allowed
<1>2. IInv /\ [Next]_vars =>
        [Delivering =>
          /\ given.token = "BLOCK-MAPPING-START" => given'.token \in {"KEY", "VALUE"}
          /\ given.token = "BLOCK-SEQUENCE-START" => given'.token = "BLOCK-ENTRY"]_vars
  BY <1>1
<1>3. QED
  BY <1>2, ScannerInvariant, PTL DEF Spec, StartsMeetEntries

(* The loop of yaml_parser_fetch_more_tokens always gets on with the text, *)
(* so it ends for every text (scanner.c:801-858).                          *)
THEOREM TurnsRead == Spec => FetchesRead
<1>1. ASSUME IInv, [Next]_vars, scanner.started, scanner' # scanner, ~Delivering,
             ~scanner'.error
      PROVE  \/ Len(scanner'.rest) < Len(scanner.rest)
             \/ Last(scanner'.tokens).type = "STREAM-END"
  <2>1. Turns
    BY <1>1, StepTurnsOrHands DEF vars
  <2>2. PICK p : Found(given, scanner, p) /\ ~p.error /\ Turned(given, p, scanner')
    BY <1>1, <2>1 DEF Turns
  <2>3. PICK V, W, U : /\ scanner \in ScannersOver(V) /\ p \in ScannersOver(W)
                       /\ scanner' \in ScannersOver(U)
    BY <1>1, <2>2, InvariantScanners DEF Found, Sound, Turned, After
  <2>4. Len(scanner.rest) \in Nat /\ Len(p.rest) \in Nat /\ Len(scanner'.rest) \in Nat
    BY <2>3, Fields
  <2>5. QED
    BY <1>1, <2>2, <2>4 DEF Found, Turned
<1>2. IInv /\ [Next]_vars =>
        [scanner.started /\ scanner' # scanner /\ ~Delivering /\ ~scanner'.error =>
          \/ Len(scanner'.rest) < Len(scanner.rest)
          \/ Last(scanner'.tokens).type = "STREAM-END"]_vars
  BY <1>1
<1>3. QED
  BY <1>2, ScannerInvariant, PTL DEF Spec, FetchesRead

(* The key that a ":" uses: the key of the flow level, if it is still      *)
(* possible where the ":" is.                                              *)
LEMMA KeyIsShort ==
    ASSUME NEW g, NEW s, InTheMiddle(g, s), ~s.error, s.started, NEW p, Found(g, s, p),
           ~p.error, NEW t, Turned(g, p, t), ~t.error, s.simpleKeys # <<>>,
           NEW key \in CurrentKey(s), Place(s, key) \in DOMAIN t.tokens,
           t.tokens[Place(s, key)].type \in {"KEY", "BLOCK-MAPPING-START"}
    PROVE  key.line = t.line /\ t.index - 1 - key.index <= SimpleKeyLength
<1>1. PICK V, e : After(V, g, s, e)
  BY DEF InTheMiddle
<1>2. s \in ScannersOver(V) /\ KeysWait(s, 0)
  BY <1>1 DEF After, Queued
<1> DEFINE n == Len(s.simpleKeys)
<1>3. n \in DOMAIN s.simpleKeys /\ key \in s.simpleKeys[n] /\ CurrentKey(s) = s.simpleKeys[n]
      /\ DOMAIN s.simpleKeys = 1..n
  BY <1>2, Fields DEF CurrentKey, Last
<1>4. /\ Place(s, key) \in DOMAIN s.tokens
      /\ s.tokens[Place(s, key)].type \in KeyStarts
  BY <1>2, <1>3 DEF KeysWait, Waits
<1>5. s.simpleKeys[n] = {key} /\ key \in Keys
  BY <1>2, <1>3, KeysAreKeys
<1>6. PICK W, x : Sound(W, g, p, x, 0)
  BY DEF Found
<1>7. p \in ScannersOver(W) /\ KeysWait(p, 0)
  BY <1>6 DEF Sound, Queued
<1>8. ~Keeps(p, t)
  <2>1. Keeps(s, p)
    BY DEF Found
  <2>2. Keeps(p, t) => t.tokens[Place(s, key)] = s.tokens[Place(s, key)]
    BY <1>4, <2>1 DEF Keeps
  <2>3. QED
    BY <1>4, <2>2 DEF KeyStarts
<1>9. CurrentKey(p) # {} /\ t.line = p.line /\ t.index = p.index + 1
  BY <1>8 DEF Turned
<1> HIDE DEF n
<1>10. DOMAIN p.simpleKeys = 1..n /\ p.simpleKeys[n] \subseteq {key}
       /\ \A k \in p.simpleKeys[n] : ~Stale(p, k)
  BY <1>3, <1>5 DEF Found
<1>11. CurrentKey(p) = p.simpleKeys[n]
  <2>1. Len(p.simpleKeys) = n
    BY <1>2, <1>3, <1>7, <1>10, Fields DEF n
  <2>2. QED
    BY <2>1 DEF CurrentKey, Last
<1>12. key \in p.simpleKeys[n] /\ ~Stale(p, key)
  BY <1>9, <1>10, <1>11
<1>13. Behind(key, p)
  BY <1>3, <1>7, <1>10, <1>12 DEF KeysWait, Waits
<1>14. /\ key.line \in Nat /\ key.index \in Nat /\ p.line \in Nat /\ p.index \in Nat
       /\ SimpleKeyLength \in Nat
  BY <1>5, <1>7, Fields, KeyAssumption DEF Keys
<1>15. key.line = p.line /\ p.index - key.index <= SimpleKeyLength
  BY <1>12, <1>13, <1>14 DEF Stale, Behind
<1>16. QED
  BY <1>9, <1>14, <1>15

(* A ":" makes a key only of what is on its own line and within the limit, *)
(* however far the scanner had to look ahead (scanner.c:1057-1092, 1684).  *)
THEOREM KeysStayShort == Spec => KeysAreShort
<1>1. ASSUME IInv, [Next]_vars, scanner.simpleKeys # <<>>, NEW key \in CurrentKey(scanner),
             ~scanner'.error, Place(scanner, key) \in DOMAIN scanner'.tokens,
             scanner'.tokens[Place(scanner, key)].type \in {"KEY", "BLOCK-MAPPING-START"},
             ~Delivering, scanner' # scanner
      PROVE  key.line = scanner'.line /\ scanner'.index - 1 - key.index <= SimpleKeyLength
  <2>1. InTheMiddle(given, scanner)
    BY <1>1 DEF IInv, Idle
  <2>2. scanner.started
    BY <2>1 DEF InTheMiddle, After, Rooted
  <2>3. Turns
    BY <1>1, StepTurnsOrHands DEF vars
  <2>4. PICK p : Found(given, scanner, p) /\ ~p.error /\ Turned(given, p, scanner')
    BY <1>1, <2>2, <2>3 DEF Turns
  <2>5. ~scanner.error
    BY <1>1 DEF Next, KeyExpected, Deliver, Fetch, NoToken, Over, vars
  <2>6. QED
    BY <1>1, <2>1, <2>2, <2>4, <2>5, KeyIsShort
<1> DEFINE Short(key, place) ==
              (~scanner'.error /\ place \in DOMAIN scanner'.tokens
               /\ scanner'.tokens[place].type \in {"KEY", "BLOCK-MAPPING-START"}
               /\ ~Delivering)
              => key.line = scanner'.line
                 /\ scanner'.index - 1 - key.index <= SimpleKeyLength
<1>2. IInv /\ [Next]_vars /\ scanner' # scanner =>
        \A key \in IF scanner.simpleKeys = <<>> THEN {} ELSE CurrentKey(scanner) :
           Short(key, Place(scanner, key))
  BY <1>1
<1>3. IInv /\ [Next]_vars /\ scanner' = scanner => UNCHANGED vars
  <2>1. ASSUME IInv, [Next]_vars, scanner' = scanner PROVE given' = given
    <3>1. Turns \/ UNCHANGED vars
      BY <2>1, StepTurnsOrHands DEF Delivering
    <3>2. QED
      BY <3>1 DEF Turns, vars
  <2>2. QED
    BY <2>1 DEF vars
<1>4. IInv /\ [Next]_vars =>
        [\A key \in IF scanner.simpleKeys = <<>> THEN {} ELSE CurrentKey(scanner) :
          LET place == key.number - scanner.tokensParsed + 1
          IN  (~scanner'.error /\ place \in DOMAIN scanner'.tokens
               /\ scanner'.tokens[place].type \in {"KEY", "BLOCK-MAPPING-START"}
               /\ ~Delivering)
              => key.line = scanner'.line
                 /\ scanner'.index - 1 - key.index <= SimpleKeyLength]_vars
  BY <1>2, <1>3 DEF Place
<1>5. QED
  BY <1>4, ScannerInvariant, PTL DEF Spec, KeysAreShort

-----------------------------------------------------------------------------
(* The token streams that the parser is checked with.                      *)
(* One more token is left, again.                                          *)
LEMMA LeftAgain ==
    ASSUME NEW a, NEW b, NEW c, NEW d, NEW l, NEW one, NEW src,
           src = [started |-> a, ended |-> b, left |-> l, indents |-> c, flow |-> d]
    PROVE  [src EXCEPT !.left = one]
              = [started |-> a, ended |-> b, left |-> one, indents |-> c, flow |-> d]
OBVIOUS

LEMMA StreamAllows ==
    ASSUME NEW g \in Givens, NEW type \in TokenTypes, Allowed(g, type)
    PROVE  \E next \in Stream!Deliver(Levels(g)) :
              /\ next.token.type = type
              /\ [next.source EXCEPT !.left = 1] = Levels(GivenAfter(g, type))
<1> DEFINE n == GivenAfter(g, type)
           s == Levels(g)
           b == CASE type \in {"BLOCK-SEQUENCE-START", "BLOCK-MAPPING-START"} -> g.blocks + 1
                  [] type = "BLOCK-END" -> g.blocks - 1
                  [] OTHER -> g.blocks
           f == CASE type \in {"FLOW-SEQUENCE-START", "FLOW-MAPPING-START"} -> g.flows + 1
                  [] type \in {"FLOW-SEQUENCE-END", "FLOW-MAPPING-END"} ->
                        IF g.flows > 0 THEN g.flows - 1 ELSE 0
                  [] OTHER -> g.flows
           yes == TRUE
           no == FALSE
           one == 1
           over == type = "STREAM-END"
<1>1. n.token = type /\ n.started = TRUE /\ n.blocks = b /\ n.flows = f
  BY GivenAfterIs
<1> HIDE DEF n
<1>2. Levels(n) = [started |-> yes, ended |-> over, left |-> one, indents |-> b, flow |-> f]
  BY <1>1 DEF Levels
<1>3. s = [started |-> g.started, ended |-> no, left |-> one, indents |-> g.blocks,
           flow |-> g.flows]
  BY DEF Levels, Allowed
<1>4. /\ g.started \in BOOLEAN /\ g.blocks \in Nat /\ g.flows \in Nat
  BY DEF Givens
<1> HIDE DEF s
<1>5. /\ type # "STREAM-START" => g.started = yes
      /\ type # "STREAM-END" => over = no
      /\ type = "STREAM-END" => over = yes
  BY <1>4 DEF Allowed
<1>5a. /\ s.started = g.started /\ s.ended = FALSE /\ s.left = 1 /\ s.indents = g.blocks
       /\ s.flow = g.flows
  BY <1>3
<1> HIDE DEF yes, no, one, over
<1>5b. CASE type = "STREAM-START"
  <2> DEFINE src == [s EXCEPT !.started = TRUE]
             next == Stream!Delivers(Stream!T(type), src)
  <2>1. ~g.started
    BY <1>5b DEF Allowed
  <2>2. next \in Stream!Deliver(s)
    BY <1>5a, <1>5b, <2>1 DEF Stream!Deliver
  <2>3. next.token.type = type /\ next.source = src
    BY DEF Stream!Delivers, Stream!T
  <2>4. [src EXCEPT !.left = 1] = Levels(n)
    <3>1. b = g.blocks /\ f = g.flows
      BY <1>5b
    <3> HIDE DEF b, f
    <3>2. src = [s EXCEPT !.started = yes]
      BY DEF yes
    <3> HIDE DEF src
    <3>3. over = no
      BY <1>5, <1>5b
    <3>4. src = [started |-> yes, ended |-> over, left |-> one, indents |-> b, flow |-> f]
      BY <1>3, <3>1, <3>2, <3>3
    <3>5. [src EXCEPT !.left = one] = Levels(n)
      BY <1>2, <3>4, LeftAgain
    <3>6. QED
      BY <3>5 DEF one
  <2>5. QED
    BY <2>2, <2>3, <2>4 DEF s, n
<1>6. type # "STREAM-START" => g.started /\ Stream!Deliver(s) =
         {Stream!Delivers(Stream!T("NO-TOKEN"), s)} \cup Stream!UnrollIndent(s)
         \cup Stream!FetchStreamEnd(s) \cup Stream!RollIndent(s)
         \cup Stream!FetchFlowCollectionStart(s) \cup Stream!FetchFlowCollectionEnd(s)
         \cup {Stream!Delivers(token, [s EXCEPT !.left = @ - 1])
                 : token \in Stream!ContentTokens
                      \cup IF Stream!Unrolled(s) THEN Stream!DocumentTokens ELSE {}}
  BY <1>5a DEF Stream!Deliver, Allowed
<1>7. CASE type = "BLOCK-END"
  <2> DEFINE src == [s EXCEPT !.indents = @ - 1]
             next == Stream!Delivers(Stream!T(type), src)
  <2>1. g.flows = 0 /\ g.blocks > 0
    BY <1>7 DEF Allowed
  <2>2. next \in Stream!UnrollIndent(s)
    BY <1>5a, <1>4, <1>7, <2>1 DEF Stream!UnrollIndent
  <2>3. next \in Stream!Deliver(s)
    BY <1>6, <1>7, <2>2
  <2>4. next.token.type = type /\ next.source = src
    BY DEF Stream!Delivers, Stream!T
  <2>5. [src EXCEPT !.left = 1] = Levels(n)
    <3> DEFINE less == s.left - 1
    <3>1. b = g.blocks - 1 /\ f = g.flows
      BY <1>4, <1>7
    <3> HIDE DEF b, f
    <3>2. src = [s EXCEPT !.indents = b]
      BY <1>5a, <3>1 DEF yes
    <3> HIDE DEF src, less
    <3>3. over = no /\ g.started = yes
      BY <1>5, <1>7
    <3>4. src = [started |-> yes, ended |-> over, left |-> one, indents |-> b, flow |-> f]
      BY <1>3, <3>1, <3>2, <3>3
    <3>5. [src EXCEPT !.left = one] = Levels(n)
      BY <1>2, <3>4, LeftAgain
    <3>6. QED
      BY <3>5 DEF one
  <2>6. QED
    BY <2>3, <2>4, <2>5 DEF s, n
<1>8. CASE type = "STREAM-END"
  <2> DEFINE src == [s EXCEPT !.ended = TRUE]
             next == Stream!Delivers(Stream!T(type), src)
  <2>1. g.flows > 0 \/ g.blocks = 0
    BY <1>8 DEF Allowed, DocumentTypes
  <2>2. next \in Stream!FetchStreamEnd(s)
    BY <1>5a, <1>4, <1>8, <2>1 DEF Stream!FetchStreamEnd, Stream!Unrolled
  <2>3. next \in Stream!Deliver(s)
    BY <1>6, <1>8, <2>2
  <2>4. next.token.type = type /\ next.source = src
    BY DEF Stream!Delivers, Stream!T
  <2>5. [src EXCEPT !.left = 1] = Levels(n)
    <3> DEFINE less == s.left - 1
    <3>1. b = g.blocks /\ f = g.flows
      BY <1>4, <1>8
    <3> HIDE DEF b, f
    <3>2. src = [s EXCEPT !.ended = yes]
      BY <1>5a, <3>1 DEF yes
    <3> HIDE DEF src, less
    <3>3. over = yes /\ g.started = yes
      BY <1>5, <1>8
    <3>4. src = [started |-> yes, ended |-> over, left |-> one, indents |-> b, flow |-> f]
      BY <1>3, <3>1, <3>2, <3>3
    <3>5. [src EXCEPT !.left = one] = Levels(n)
      BY <1>2, <3>4, LeftAgain
    <3>6. QED
      BY <3>5 DEF one
  <2>6. QED
    BY <2>3, <2>4, <2>5 DEF s, n
<1>9. CASE type \in {"BLOCK-SEQUENCE-START", "BLOCK-MAPPING-START"}
  <2> DEFINE src == [s EXCEPT !.left = @ - 1, !.indents = @ + 1]
             next == Stream!Delivers(Stream!T(type), src)
  <2>1. g.flows = 0
    BY <1>9 DEF Allowed
  <2>2. next \in Stream!RollIndent(s)
    BY <1>5a, <1>4, <1>9, <2>1 DEF Stream!RollIndent
  <2>3. next \in Stream!Deliver(s)
    BY <1>6, <1>9, <2>2
  <2>4. next.token.type = type /\ next.source = src
    BY DEF Stream!Delivers, Stream!T
  <2>5. [src EXCEPT !.left = 1] = Levels(n)
    <3> DEFINE less == s.left - 1
    <3>1. b = g.blocks + 1 /\ f = g.flows
      BY <1>4, <1>9
    <3> HIDE DEF b, f
    <3>2. src = [s EXCEPT !.left = less, !.indents = b]
      BY <1>5a, <3>1 DEF yes
    <3> HIDE DEF src, less
    <3>3. over = no /\ g.started = yes
      BY <1>5, <1>9
    <3>4. src = [started |-> yes, ended |-> over, left |-> less, indents |-> b, flow |-> f]
      BY <1>3, <3>1, <3>2, <3>3
    <3>5. [src EXCEPT !.left = one] = Levels(n)
      BY <1>2, <3>4, LeftAgain
    <3>6. QED
      BY <3>5 DEF one
  <2>6. QED
    BY <2>3, <2>4, <2>5 DEF s, n
<1>10. CASE type \in {"FLOW-SEQUENCE-START", "FLOW-MAPPING-START"}
  <2> DEFINE src == [s EXCEPT !.left = @ - 1, !.flow = @ + 1]
             next == Stream!Delivers(Stream!T(type), src)
  <2>2. next \in Stream!FetchFlowCollectionStart(s)
    BY <1>10 DEF Stream!FetchFlowCollectionStart
  <2>3. next \in Stream!Deliver(s)
    BY <1>6, <1>10, <2>2
  <2>4. next.token.type = type /\ next.source = src
    BY DEF Stream!Delivers, Stream!T
  <2>5. [src EXCEPT !.left = 1] = Levels(n)
    <3> DEFINE less == s.left - 1
    <3>1. b = g.blocks /\ f = g.flows + 1
      BY <1>4, <1>10
    <3> HIDE DEF b, f
    <3>2. src = [s EXCEPT !.left = less, !.flow = f]
      BY <1>5a, <3>1 DEF yes
    <3> HIDE DEF src, less
    <3>3. over = no /\ g.started = yes
      BY <1>5, <1>10
    <3>4. src = [started |-> yes, ended |-> over, left |-> less, indents |-> b, flow |-> f]
      BY <1>3, <3>1, <3>2, <3>3
    <3>5. [src EXCEPT !.left = one] = Levels(n)
      BY <1>2, <3>4, LeftAgain
    <3>6. QED
      BY <3>5 DEF one
  <2>6. QED
    BY <2>3, <2>4, <2>5 DEF s, n
<1>11. CASE type \in {"FLOW-SEQUENCE-END", "FLOW-MAPPING-END"}
  <2> DEFINE src == [s EXCEPT !.left = @ - 1, !.flow = IF @ > 0 THEN @ - 1 ELSE 0]
             next == Stream!Delivers(Stream!T(type), src)
  <2>2. next \in Stream!FetchFlowCollectionEnd(s)
    BY <1>11 DEF Stream!FetchFlowCollectionEnd
  <2>3. next \in Stream!Deliver(s)
    BY <1>6, <1>11, <2>2
  <2>4. next.token.type = type /\ next.source = src
    BY DEF Stream!Delivers, Stream!T
  <2>5. [src EXCEPT !.left = 1] = Levels(n)
    <3> DEFINE less == s.left - 1
    <3>1. b = g.blocks /\ f = IF g.flows > 0 THEN g.flows - 1 ELSE 0
      BY <1>4, <1>11
    <3> HIDE DEF b, f
    <3>2. src = [s EXCEPT !.left = less, !.flow = f]
      BY <1>5a, <3>1 DEF yes
    <3> HIDE DEF src, less
    <3>3. over = no /\ g.started = yes
      BY <1>5, <1>11
    <3>4. src = [started |-> yes, ended |-> over, left |-> less, indents |-> b, flow |-> f]
      BY <1>3, <3>1, <3>2, <3>3
    <3>5. [src EXCEPT !.left = one] = Levels(n)
      BY <1>2, <3>4, LeftAgain
    <3>6. QED
      BY <3>5 DEF one
  <2>6. QED
    BY <2>3, <2>4, <2>5 DEF s, n
<1>12. ASSUME NEW token \in Stream!ContentTokens
                  \cup IF Stream!Unrolled(s) THEN Stream!DocumentTokens ELSE {},
              token.type = type, type # "STREAM-START", type # "STREAM-END", b = g.blocks,
              f = g.flows
       PROVE  \E next \in Stream!Deliver(s) :
                 /\ next.token.type = type
                 /\ [next.source EXCEPT !.left = 1] = Levels(n)
  <2> DEFINE src == [s EXCEPT !.left = @ - 1]
             next == Stream!Delivers(token, src)
  <2>1. next \in Stream!Deliver(s)
    BY <1>6, <1>12
  <2>2. next.token.type = type /\ next.source = src
    BY <1>12 DEF Stream!Delivers
  <2> HIDE DEF b, f
  <2>3. [src EXCEPT !.left = 1] = Levels(n)
    <3> DEFINE less == s.left - 1
    <3> HIDE DEF less
    <3>1. src = [s EXCEPT !.left = less]
      BY DEF less
    <3> HIDE DEF src
    <3>2. over = no /\ g.started = yes
      BY <1>5, <1>12
    <3>3. src = [started |-> yes, ended |-> over, left |-> less, indents |-> b, flow |-> f]
      BY <1>3, <1>12, <3>1, <3>2
    <3>4. [src EXCEPT !.left = one] = Levels(n)
      BY <1>2, <3>3, LeftAgain
    <3>5. QED
      BY <3>4 DEF one
  <2>4. QED
    BY <2>1, <2>2, <2>3
<1>13. CASE type \in {"SCALAR", "ALIAS", "ANCHOR", "KEY", "VALUE", "BLOCK-ENTRY", "FLOW-ENTRY"}
  <2>1. Stream!T(type) \in Stream!ContentTokens
    BY <1>13 DEF Stream!ContentTokens
  <2>2. Stream!T(type).type = type
    BY DEF Stream!T
  <2>3. b = g.blocks /\ f = g.flows
    BY <1>13
  <2> HIDE DEF b, f
  <2>4. QED
    BY <1>12, <1>13, <2>1, <2>2, <2>3 DEF s, n
<1>14. CASE type = "TAG"
  <2> DEFINE token == [type |-> "TAG", text |-> ""]
  <2>1. token \in Stream!ContentTokens /\ token.type = type
    BY <1>14 DEF Stream!ContentTokens
  <2>2. b = g.blocks /\ f = g.flows
    BY <1>14
  <2> HIDE DEF b, f, token
  <2>3. QED
    BY <1>12, <1>14, <2>1, <2>2 DEF s, n
<1>15. CASE type \in {"DOCUMENT-START", "DOCUMENT-END", "VERSION-DIRECTIVE", "TAG-DIRECTIVE"}
  <2> DEFINE version == [type |-> "VERSION-DIRECTIVE", text |-> "compatible"]
             tag == [type |-> "TAG-DIRECTIVE", text |-> ""]
  <2>1. \E token \in Stream!DocumentTokens : token.type = type
    <3>1. version \in Stream!DocumentTokens /\ tag \in Stream!DocumentTokens
          /\ Stream!T("DOCUMENT-START") \in Stream!DocumentTokens
          /\ Stream!T("DOCUMENT-END") \in Stream!DocumentTokens
      BY DEF Stream!DocumentTokens
    <3>2. version.type = "VERSION-DIRECTIVE" /\ tag.type = "TAG-DIRECTIVE"
          /\ Stream!T("DOCUMENT-START").type = "DOCUMENT-START"
          /\ Stream!T("DOCUMENT-END").type = "DOCUMENT-END"
      BY DEF Stream!T
    <3> HIDE DEF version, tag
    <3>3. QED
      BY <1>15, <3>1, <3>2
  <2>2. Stream!Unrolled(s)
    BY <1>5a, <1>15 DEF Allowed, DocumentTypes, Stream!Unrolled
  <2>3. b = g.blocks /\ f = g.flows
    BY <1>15
  <2> HIDE DEF b, f
  <2>4. QED
    BY <1>12, <1>15, <2>1, <2>2, <2>3 DEF s, n
<1>16. QED
  BY <1>5b, <1>7, <1>8, <1>9, <1>10, <1>11, <1>13, <1>14, <1>15 DEF TokenTypes, KeyStarts

(* What holds of the parser for the streams of TokenStream.tla holds for   *)
(* every text: the scanner hands over no other.                            *)
THEOREM ScannerImplementsStream == Spec => FollowsTokenStream
<1>1. ASSUME IInv, [Next]_vars, Delivering
      PROVE  \E next \in Stream!Deliver(Levels(given)) :
                /\ next.token.type = given'.token
                /\ [next.source EXCEPT !.left = 1] = Levels(given')
  <2>1. Hands
    BY <1>1, StepTurnsOrHands DEF vars, Delivering
  <2>2. PICK now : /\ Delivered(given, now, scanner')
                   /\ given' = GivenAfter(given, Head(now.tokens).type)
    BY <2>1 DEF Hands
  <2> DEFINE type == Head(now.tokens).type
  <2>3. given \in Givens /\ type \in TokenTypes /\ Allowed(given, type)
        /\ given' = GivenAfter(given, type) /\ given'.token = type
    BY <2>2 DEF Delivered
  <2> HIDE DEF type
  <2>4. QED
    BY <2>3, StreamAllows
<1>2. IInv /\ [Next]_vars =>
        [Delivering =>
          \E next \in Stream!Deliver(Levels(given)) :
              /\ next.token.type = given'.token
              /\ [next.source EXCEPT !.left = 1] = Levels(given')]_vars
  BY <1>1
<1>3. QED
  BY <1>2, ScannerInvariant, PTL DEF Spec, FollowsTokenStream
=============================================================================
