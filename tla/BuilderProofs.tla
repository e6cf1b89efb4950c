---------------------------- MODULE BuilderProofs ----------------------------
(***************************************************************************)
(* Proofs about the event loop, for every stream of events, every set of   *)
(* handler outcomes and every bound.                                       *)
(*                                                                         *)
(*  - IInv: the stack follows the parser's nesting, if no handler returns  *)
(*    one of the marker symbols.                                           *)
(*  - ErrorsInv, QuietInv: a load fails when, and only when, a callee did. *)
(*  - ValuesInv: IInv, and what the cells, the aliases and the result      *)
(*    hold are complete objects, if handlers return such.                  *)
(***************************************************************************)
EXTENDS Builder, MapEntriesProofs

HandlersReturnNoMarker == \A o \in HandlerOutcomes : ~IsMarker(o.result)

(* EventStream's Counted as an operator on any nesting.                    *)
CountedOf(frames) ==
    IF frames = <<>> THEN frames
    ELSE [frames EXCEPT ![Len(frames)].odd =
             frames[Len(frames)].kind = "mapping" /\ ~frames[Len(frames)].odd]

AllFrames == [kind : {"sequence", "mapping"}, odd : BOOLEAN]
-----------------------------------------------------------------------------
(* The last frame counts a node that begins in it; the others do not       *)
(* change.                                                                 *)
LEMMA CountedProperties ==
    ASSUME NEW o \in Seq(AllFrames)
    PROVE  /\ CountedOf(o) \in Seq(AllFrames)
           /\ Len(CountedOf(o)) = Len(o)
           /\ DOMAIN CountedOf(o) = DOMAIN o
           /\ \A k \in DOMAIN o :
                /\ CountedOf(o)[k].kind = o[k].kind
                /\ k # Len(o) => CountedOf(o)[k] = o[k]
                /\ k = Len(o) /\ o[k].kind = "mapping"
                      => (CountedOf(o)[k].odd <=> ~o[k].odd)
<1>1. CASE o = <<>>
  <2>1. DOMAIN o = {}
    <3>1. \A s : s = <<>> => DOMAIN s = {}
      OBVIOUS
    <3>2. QED
      BY <1>1, <3>1
  <2>2. QED
    BY <1>1, <2>1 DEF CountedOf
<1>2. CASE o # <<>>
  <2> DEFINE n == Len(o)
             b == o[n].kind = "mapping" /\ ~o[n].odd
             c == CountedOf(o)
  <2>1. n \in Nat \ {0} /\ n \in DOMAIN o /\ DOMAIN o = 1..n
    BY <1>2
  <2>2. o[n] \in AllFrames /\ b \in BOOLEAN
    BY <2>1
  <2>3. c = [o EXCEPT ![n] = [o[n] EXCEPT !.odd = b]]
    BY <1>2 DEF CountedOf
  <2>4. [o[n] EXCEPT !.odd = b] \in AllFrames
    BY <2>2 DEF AllFrames
  <2>5. /\ c \in Seq(AllFrames) /\ Len(c) = n /\ DOMAIN c = DOMAIN o
        /\ \A k \in DOMAIN o : k # n => c[k] = o[k]
        /\ c[n] = [o[n] EXCEPT !.odd = b]
    BY <2>1, <2>3, <2>4
  <2>6. c[n].kind = o[n].kind /\ c[n].odd = b
    BY <2>2, <2>5 DEF AllFrames
  <2> HIDE DEF c
  <2>7. \A k \in DOMAIN o : c[k].kind = o[k].kind
    BY <2>5, <2>6
  <2>8. o[n].kind = "mapping" => (c[n].odd <=> ~o[n].odd)
    BY <2>6
  <2>9. QED
    BY <2>5, <2>7, <2>8 DEF c
<1>3. QED
  BY <1>1, <1>2

(* A scalar or an alias: one more value on top.                            *)
LEMMA PushValue ==
    ASSUME NEW o \in Seq(AllFrames), NEW S, NEW s \in Seq(S), NEW c \in S,
           ~IsMarker(c.obj),
           NEW f \in [DOMAIN o -> DOMAIN s], Mirrors(s, o, f)
    PROVE  /\ f \in [DOMAIN CountedOf(o) -> DOMAIN Append(s, c)]
           /\ Mirrors(Append(s, c), CountedOf(o), f)
<1> DEFINE t == Append(s, c)
           p == CountedOf(o)
<1>1. /\ Len(s) \in Nat /\ DOMAIN s = 1..Len(s)
      /\ Len(t) = Len(s) + 1 /\ DOMAIN t = 1..(Len(s) + 1)
      /\ \A i \in DOMAIN s : t[i] = s[i]
      /\ t[Len(s) + 1] = c
  OBVIOUS
<1>2. /\ Len(p) = Len(o) /\ DOMAIN p = DOMAIN o
      /\ \A k \in DOMAIN o :
           /\ p[k].kind = o[k].kind
           /\ k # Len(o) => p[k] = o[k]
           /\ k = Len(o) /\ o[k].kind = "mapping" => (p[k].odd <=> ~o[k].odd)
  BY CountedProperties
<1>3. DOMAIN o = 1..Len(o) /\ Len(o) \in Nat
  OBVIOUS
<1> HIDE DEF t, p
<1>4. \A k \in DOMAIN o : f[k] \in 1..Len(s)
  BY <1>1
<1>5. f \in [DOMAIN p -> DOMAIN t]
  BY <1>1, <1>2
<1>6. \A k \in DOMAIN p : t[f[k]].obj = MarkerOf(p[k].kind)
  BY <1>1, <1>2 DEF Mirrors
<1>7. \A k, l \in DOMAIN p : k < l => f[k] < f[l]
  BY <1>2 DEF Mirrors
<1>8. \A i \in DOMAIN t : IsMarker(t[i].obj) => \E k \in DOMAIN p : f[k] = i
  <2>1. ASSUME NEW i \in DOMAIN t, IsMarker(t[i].obj)
        PROVE  i \in DOMAIN s
    BY <1>1, <2>1
  <2>2. QED
    BY <1>1, <1>2, <2>1 DEF Mirrors
<1>9. ASSUME NEW k \in DOMAIN p, p[k].kind = "mapping"
      PROVE  p[k].odd <=> ((IF k = Len(p) THEN Len(t) ELSE f[k + 1]) - f[k]) % 2 = 1
  <2>1. CASE k = Len(o)
    <3>1. o[k].odd <=> (Len(s) - f[k]) % 2 = 1
      BY <1>2, <1>9, <2>1 DEF Mirrors
    <3>2. p[k].odd <=> ~o[k].odd
      BY <1>2, <1>9, <2>1
    <3>3. ((Len(s) + 1) - f[k]) % 2 = 1 <=> ~((Len(s) - f[k]) % 2 = 1)
      <4>1. Len(s) - f[k] \in Nat /\ (Len(s) + 1) - f[k] = (Len(s) - f[k]) + 1
        BY <1>1, <1>2, <1>4
      <4>2. QED
        BY <4>1, NextParity
    <3>4. QED
      BY <1>1, <1>2, <2>1, <3>1, <3>2, <3>3
  <2>2. CASE k # Len(o)
    BY <1>2, <1>9, <2>2 DEF Mirrors
  <2>3. QED
    BY <2>1, <2>2
<1>10. Mirrors(t, p, f)
  BY <1>6, <1>7, <1>8, <1>9 DEF Mirrors
<1>11. QED
  BY <1>5, <1>10 DEF t, p

(* The open collections are marked, the outermost one in cell first.       *)
MarkedFrom(cells, frames, first) ==
    \E f \in [DOMAIN frames -> DOMAIN cells] :
        Mirrors(cells, frames, f) /\ f[1] = first

(* A collection begins: one more marker, for one more frame.               *)
LEMMA PushMarker ==
    ASSUME NEW o \in Seq(AllFrames), NEW S, NEW s \in Seq(S), NEW c \in S,
           NEW e \in AllFrames, ~e.odd, c.obj = MarkerOf(e.kind),
           NEW f \in [DOMAIN o -> DOMAIN s], Mirrors(s, o, f)
    PROVE  /\ Append(CountedOf(o), e) \in Seq(AllFrames)
           /\ Len(Append(CountedOf(o), e)) = Len(o) + 1
           /\ MarkedFrom(Append(s, c), Append(CountedOf(o), e),
                         IF o = <<>> THEN Len(s) + 1 ELSE f[1])
<1> DEFINE q == CountedOf(o)
           p == Append(q, e)
           t == Append(s, c)
           g == [k \in DOMAIN p |-> IF k = Len(p) THEN Len(t) ELSE f[k]]
<1>1. /\ Len(s) \in Nat /\ DOMAIN s = 1..Len(s)
      /\ Len(t) = Len(s) + 1 /\ DOMAIN t = 1..(Len(s) + 1)
      /\ \A i \in DOMAIN s : t[i] = s[i]
      /\ t[Len(s) + 1] = c
  OBVIOUS
<1>2. e \in AllFrames /\ e.odd = FALSE
  BY DEF AllFrames
<1>3. /\ q \in Seq(AllFrames) /\ Len(q) = Len(o) /\ DOMAIN q = DOMAIN o
      /\ \A k \in DOMAIN o :
           /\ q[k].kind = o[k].kind
           /\ k # Len(o) => q[k] = o[k]
           /\ k = Len(o) /\ o[k].kind = "mapping" => (q[k].odd <=> ~o[k].odd)
  BY CountedProperties
<1>4. DOMAIN o = 1..Len(o) /\ Len(o) \in Nat
  OBVIOUS
<1> HIDE DEF q
<1>5. /\ p \in Seq(AllFrames) /\ Len(p) = Len(o) + 1 /\ DOMAIN p = 1..(Len(o) + 1)
      /\ \A k \in DOMAIN o : p[k] = q[k]
      /\ p[Len(o) + 1] = e
  BY <1>2, <1>3, <1>4
<1> HIDE DEF t, p
<1>6. \A k \in DOMAIN o : f[k] \in 1..Len(s)
  BY <1>1
<1>7. /\ g \in [DOMAIN p -> DOMAIN t]
      /\ \A k \in DOMAIN o : g[k] = f[k]
      /\ g[Len(o) + 1] = Len(s) + 1
  BY <1>1, <1>4, <1>5, <1>6
<1> HIDE DEF g
<1>8. \A k \in DOMAIN p : k \in DOMAIN o \/ k = Len(o) + 1
  BY <1>4, <1>5
<1>9. \A k \in DOMAIN p : t[g[k]].obj = MarkerOf(p[k].kind)
  <2>1. \A k \in DOMAIN o : t[g[k]].obj = MarkerOf(p[k].kind)
    BY <1>1, <1>3, <1>5, <1>6, <1>7 DEF Mirrors
  <2>2. t[g[Len(o) + 1]].obj = MarkerOf(p[Len(o) + 1].kind)
    BY <1>1, <1>2, <1>5, <1>7
  <2>3. QED
    BY <1>8, <2>1, <2>2
<1>10. ASSUME NEW k \in DOMAIN p, NEW l \in DOMAIN p, k < l
       PROVE  g[k] < g[l]
  <2>1. k \in DOMAIN o
    BY <1>4, <1>5, <1>10
  <2>2. CASE l \in DOMAIN o
    BY <1>7, <1>10, <2>1, <2>2 DEF Mirrors
  <2>3. CASE l = Len(o) + 1
    BY <1>1, <1>6, <1>7, <2>1, <2>3
  <2>4. QED
    BY <1>8, <2>2, <2>3
<1>11. ASSUME NEW i \in DOMAIN t, IsMarker(t[i].obj)
       PROVE  \E k \in DOMAIN p : g[k] = i
  <2>1. CASE i \in DOMAIN s
    <3>1. PICK k \in DOMAIN o : f[k] = i
      BY <1>1, <1>11, <2>1 DEF Mirrors
    <3>2. k \in DOMAIN p /\ g[k] = i
      BY <1>4, <1>5, <1>7, <3>1
    <3>3. QED
      BY <3>2
  <2>2. CASE i = Len(s) + 1
    <3>1. Len(o) + 1 \in DOMAIN p /\ g[Len(o) + 1] = i
      BY <1>4, <1>5, <1>7, <2>2
    <3>2. QED
      BY <3>1
  <2>3. QED
    BY <1>1, <2>1, <2>2
<1>12. ASSUME NEW k \in DOMAIN p, p[k].kind = "mapping"
       PROVE  p[k].odd <=> ((IF k = Len(p) THEN Len(t) ELSE g[k + 1]) - g[k]) % 2 = 1
  <2>1. CASE k = Len(o) + 1
    <3>1. Len(t) - g[k] = 0 /\ ~p[k].odd
      BY <1>1, <1>2, <1>5, <1>7, <2>1
    <3>2. QED
      BY <1>5, <2>1, <3>1
  <2>2. CASE k = Len(o) /\ k \in DOMAIN o
    <3>1. o[k].odd <=> (Len(s) - f[k]) % 2 = 1
      BY <1>3, <1>5, <1>12, <2>2 DEF Mirrors
    <3>2. p[k].odd <=> ~o[k].odd
      BY <1>3, <1>5, <1>12, <2>2
    <3>3. ((Len(s) + 1) - f[k]) % 2 = 1 <=> ~((Len(s) - f[k]) % 2 = 1)
      <4>1. Len(s) - f[k] \in Nat /\ (Len(s) + 1) - f[k] = (Len(s) - f[k]) + 1
        BY <1>1, <1>6, <2>2
      <4>2. QED
        BY <4>1, NextParity
    <3>4. g[k + 1] = Len(s) + 1 /\ g[k] = f[k] /\ k # Len(p)
      <4>1. g[k] = f[k]
        BY <1>7, <2>2
      <4>2. k # Len(p)
        <5>1. Len(p) = Len(o) + 1 /\ Len(o) \in Nat /\ k = Len(o)
          BY <1>4, <1>5, <2>2
        <5>2. QED
          BY <5>1
      <4>3. g[k + 1] = Len(s) + 1
        BY <1>7, <2>2
      <4>4. QED
        BY <4>1, <4>2, <4>3
    <3>5. QED
      BY <3>1, <3>2, <3>3, <3>4
  <2>3. CASE k # Len(o) /\ k \in DOMAIN o
    <3>1. k + 1 \in DOMAIN o /\ k # Len(p)
      BY <1>4, <1>5, <2>3
    <3>2. p[k] = o[k] /\ g[k + 1] = f[k + 1] /\ g[k] = f[k]
      BY <1>3, <1>5, <1>7, <2>3, <3>1
    <3>3. o[k].odd <=> (f[k + 1] - f[k]) % 2 = 1
      BY <1>12, <2>3, <3>2 DEF Mirrors
    <3>4. QED
      BY <3>1, <3>2, <3>3
  <2>4. QED
    BY <1>8, <2>1, <2>2, <2>3
<1>13. Mirrors(t, p, g)
  BY <1>9, <1>10, <1>11, <1>12 DEF Mirrors
<1>14. g[1] = IF o = <<>> THEN Len(s) + 1 ELSE f[1]
  <2>1. CASE o = <<>>
    <3>1. Len(o) + 1 = 1
      <4>1. \A r : r = <<>> => Len(r) = 0
        OBVIOUS
      <4>2. QED
        BY <2>1, <4>1
    <3>2. QED
      BY <1>1, <1>7, <2>1, <3>1
  <2>2. CASE o # <<>>
    <3>1. 1 \in DOMAIN o
      BY <2>2
    <3>2. QED
      BY <1>7, <2>2, <3>1
  <2>3. QED
    BY <2>1, <2>2
<1>15. p \in Seq(AllFrames) /\ Len(p) = Len(o) + 1 /\ g \in [DOMAIN p -> DOMAIN t]
  BY <1>5, <1>7
<1>16. QED
  BY <1>13, <1>14, <1>15 DEF MarkedFrom, t, p, q

(* A collection ends: the cells from its marker on give way to one value.  *)
LEMMA Collapse ==
    ASSUME NEW o \in Seq(AllFrames), o # <<>>, NEW S, NEW s \in Seq(S),
           NEW c \in S, ~IsMarker(c.obj),
           NEW f \in [DOMAIN o -> DOMAIN s], Mirrors(s, o, f)
    PROVE  LET p == SubSeq(o, 1, Len(o) - 1)
               t == Append(SubSeq(s, 1, f[Len(o)] - 1), c)
               g == [k \in DOMAIN p |-> f[k]]
           IN  /\ p \in Seq(AllFrames)
               /\ Len(p) = Len(o) - 1
               /\ Len(t) = f[Len(o)]
               /\ g \in [DOMAIN p -> DOMAIN t]
               /\ Mirrors(t, p, g)
<1> DEFINE n == Len(o)
           m == f[n]
           p == SubSeq(o, 1, n - 1)
           h == SubSeq(s, 1, m - 1)
           t == Append(h, c)
           g == [k \in DOMAIN p |-> f[k]]
<1>1. n \in Nat \ {0} /\ DOMAIN o = 1..n /\ n \in DOMAIN o
  OBVIOUS
<1>2. Len(s) \in Nat /\ DOMAIN s = 1..Len(s) /\ m \in 1..Len(s)
  BY <1>1
<1>3. /\ p \in Seq(AllFrames) /\ Len(p) = n - 1 /\ DOMAIN p = 1..(n - 1)
      /\ \A k \in 1..(n - 1) : p[k] = o[k]
  BY <1>1
<1>4. /\ h \in Seq(S) /\ Len(h) = m - 1
      /\ \A i \in 1..(m - 1) : h[i] = s[i]
  BY <1>2
<1>5. /\ Len(t) = m /\ DOMAIN t = 1..m
      /\ \A i \in 1..(m - 1) : t[i] = s[i]
      /\ t[m] = c
  BY <1>2, <1>4
<1>6. /\ \A k \in 1..(n - 1) : g[k] = f[k] /\ f[k] \in 1..(m - 1)
  <2>1. \A k \in 1..(n - 1) : g[k] = f[k]
    BY <1>3
  <2>2. \A k \in 1..(n - 1) : f[k] \in 1..Len(s) /\ f[k] < m
    BY <1>1, <1>2 DEF Mirrors
  <2>3. QED
    BY <1>2, <2>1, <2>2
<1>7. g \in [DOMAIN p -> DOMAIN t]
  BY <1>2, <1>3, <1>5, <1>6
<1>8. n = Len(o)
  OBVIOUS
<1> HIDE DEF p, t, g, h, m, n
<1>9. ASSUME NEW k \in DOMAIN p
      PROVE  /\ k \in DOMAIN o /\ k # n /\ p[k] = o[k]
             /\ g[k] = f[k] /\ f[k] \in 1..(m - 1)
  BY <1>1, <1>3, <1>6, <1>9
<1>10. \A k \in DOMAIN p : t[g[k]].obj = MarkerOf(p[k].kind)
  BY <1>5, <1>9 DEF Mirrors
<1>11. \A k, l \in DOMAIN p : k < l => g[k] < g[l]
  BY <1>9 DEF Mirrors
<1>12. ASSUME NEW i \in DOMAIN t, IsMarker(t[i].obj)
       PROVE  \E k \in DOMAIN p : g[k] = i
  <2>1. i \in 1..(m - 1) /\ t[i] = s[i]
    BY <1>2, <1>5, <1>12
  <2>2. i \in DOMAIN s
    BY <1>2, <2>1
  <2>3. PICK k \in DOMAIN o : f[k] = i
    BY <1>12, <2>1, <2>2 DEF Mirrors
  <2>4. k # n
    BY <1>2, <2>1, <2>3 DEF m
  <2>5. k \in DOMAIN p
    BY <1>1, <1>3, <2>4
  <2>6. QED
    BY <1>9, <2>3, <2>5
<1>13. ASSUME NEW k \in DOMAIN p, p[k].kind = "mapping"
       PROVE  p[k].odd <=> ((IF k = Len(p) THEN Len(t) ELSE g[k + 1]) - g[k]) % 2 = 1
  <2>1. k \in DOMAIN o /\ k # n /\ p[k] = o[k] /\ g[k] = f[k]
    BY <1>9
  <2>2. o[k].odd <=> (f[k + 1] - f[k]) % 2 = 1
    BY <1>8, <1>13, <2>1 DEF Mirrors
  <2>3. (IF k = Len(p) THEN Len(t) ELSE g[k + 1]) = f[k + 1]
    <3>1. CASE k = n - 1
      <4>1. k + 1 = n /\ k = Len(p)
        BY <1>1, <1>3, <3>1
      <4>2. QED
        BY <1>5, <4>1 DEF m
    <3>2. CASE k # n - 1
      <4>1. k + 1 \in DOMAIN p /\ k # Len(p)
        BY <1>1, <1>3, <3>2
      <4>2. QED
        BY <1>9, <4>1
    <3>3. QED
      BY <3>1, <3>2
  <2>4. QED
    BY <2>1, <2>2, <2>3
<1>14. Mirrors(t, p, g)
  BY <1>10, <1>11, <1>12, <1>13 DEF Mirrors
<1>15. QED
  BY <1>3, <1>5, <1>7, <1>14 DEF p, t, g, h, m, n

(* The search for the last marker of the kind that ends finds the cell of  *)
(* the innermost open collection.                                          *)
LEMMA LastMarkerIsInnermost ==
    ASSUME open \in Seq(AllFrames), open # <<>>, stack \in Seq(ToSet(stack)),
           NEW f \in [DOMAIN open -> DOMAIN stack], Mirrors(stack, open, f)
    PROVE  LastMarker(MarkerOf(open[Len(open)].kind)) = f[Len(open)]
<1> DEFINE n == Len(open)
           marker == MarkerOf(open[n].kind)
           found == {i \in DOMAIN stack : stack[i].obj = marker}
<1>1. n \in Nat \ {0} /\ DOMAIN open = 1..n /\ n \in DOMAIN open
  OBVIOUS
<1>2. DOMAIN stack \subseteq Nat
  OBVIOUS
<1>3. f[n] \in found
  BY <1>1 DEF Mirrors
<1>4. ASSUME NEW j \in found PROVE j <= f[n]
  <2>1. IsMarker(stack[j].obj)
    BY DEF MarkerOf, IsMarker
  <2>2. PICK k \in DOMAIN open : f[k] = j
    BY <2>1 DEF Mirrors
  <2>3. CASE k = n
    BY <1>2, <2>2, <2>3
  <2>4. CASE k < n
    BY <1>1, <1>2, <2>2, <2>4 DEF Mirrors
  <2>5. QED
    BY <1>1, <2>3, <2>4
<1> HIDE DEF found
<1>5. found # {} /\ found \subseteq Nat
  BY <1>2, <1>3 DEF found
<1>6. \A i \in found : (\A j \in found : j <= i) => i = f[n]
  BY <1>3, <1>4, <1>5
<1>7. (CHOOSE i \in found : \A j \in found : j <= i) = f[n]
  BY <1>3, <1>4, <1>6
<1>8. QED
  BY <1>5, <1>7 DEF LastMarker, found
-----------------------------------------------------------------------------
(* A conversion that does not fail yields no marker.                       *)
Sound(c) == c.fails \in BOOLEAN /\ (~c.fails => ~IsMarker(c.obj))

(* No value but the two symbols is a marker.                               *)
LEMMA NotMarker ==
    /\ \A v : v.type # "sym" => ~IsMarker(v)
    /\ \A a : ~IsMarker(ChrOf(a)) /\ ~IsMarker(IntOf(a)) /\ ~IsMarker(List(a))
    /\ \A a, b : ~IsMarker(MapOf(a, b))
    /\ ~IsMarker(Null) /\ ~IsMarker(MergeKey) /\ ~IsMarker(BadAnchor)
    /\ \A a : ~IsMarker(Coerced(a))
<1>1. \A v : v.type # "sym" => ~IsMarker(v)
  BY DEF IsMarker, SequenceStart, MappingStart, Sym, RObject
<1>2. \A a : /\ ChrOf(a).type = "chr" /\ IntOf(a).type = "int"
             /\ List(a).type = "list"
  BY DEF ChrOf, IntOf, List, RObject
<1>3. \A a, b : MapOf(a, b).type = "map"
  BY DEF MapOf, RObject
<1>4. Null.type = "null" /\ MergeKey.type = "chr" /\ BadAnchor.type = "chr"
  BY DEF Null, MergeKey, BadAnchor, RObject
<1>5. \A a : Coerced(a).type \in AtomicTypes \cup {"list"}
  BY <1>2 DEF Coerced, RObject
<1>6. QED
  BY <1>1, <1>2, <1>3, <1>4, <1>5 DEF AtomicTypes

(* Yields and Fails make sound conversions.                                *)
LEMMA SoundValues ==
    /\ \A v, m : ~IsMarker(v) => Sound(Yields(v, m))
    /\ \A m : Sound(Fails(m)) /\ Sound(InvalidTag(m))
BY DEF Sound, Yields, Fails, InvalidTag

(* So do handlers.                                                         *)
LEMMA SoundHandlers ==
    ASSUME HandlersReturnNoMarker, NEW tag
    PROVE  \A c \in HandlerResults(tag) : Sound(c)
BY SoundValues DEF HandlersReturnNoMarker, HandlerResults

(* The default conversions, and the two ways a collection is converted.    *)
LEMMA SoundScalars ==
    ASSUME HandlersReturnNoMarker, NEW s
    PROVE  \A c \in ScalarConversions(s) : Sound(c)
<1>1. ASSUME NEW message PROVE \A c \in Evaluations(s.text, message) : Sound(c)
  BY NotMarker, SoundValues DEF Evaluations, HandlersReturnNoMarker
<1>2. ASSUME NEW message PROVE \A c \in ScalarDefaults(s, message) : Sound(c)
  BY <1>1, NotMarker, SoundValues DEF ScalarDefaults
<1>3. QED
  BY <1>2, SoundHandlers DEF ScalarConversions

(* Collections are converted soundly: the markers among the cells stay on  *)
(* the stack.                                                              *)
LEMMA SoundCollections ==
    ASSUME HandlersReturnNoMarker, NEW kind, NEW m
    PROVE  \A c \in CollectionConversions(kind, m) : Sound(c)
<1>1. ASSUME NEW tag, NEW items, NEW message
      PROVE  \A c \in SequenceDefaults(tag, items, message) : Sound(c)
  BY NotMarker, SoundValues DEF SequenceDefaults, OrderedMap
<1>2. ASSUME NEW tag, NEW map, ~IsMarker(map), NEW message
      PROVE  \A c \in MappingDefaults(tag, map, message) : Sound(c)
  BY <1>2, NotMarker, SoundValues DEF MappingDefaults
<1>3. \A c \in SequenceConversions(m) : Sound(c)
  BY <1>1, SoundHandlers DEF SequenceConversions
<1>4. \A c \in MappingConversions(m) : Sound(c)
  <2> DEFINE assembled == AssembleMap(PairsOf(Children(m)))
             map == MapValue(assembled)
  <2>1. ~IsMarker(map)
    BY NotMarker DEF MapValue
  <2>2. ASSUME NEW message
        PROVE  \A c \in MappingDefaults(stack[m].tag, map, message) : Sound(c)
    <3> HIDE DEF map
    <3> QED BY <1>2, <2>1
  <2>3. QED
    BY <2>2, SoundHandlers, SoundValues DEF MappingConversions
<1>5. QED
  BY <1>3, <1>4, SoundValues DEF CollectionConversions

(* handle_alias pushes no marker.                                          *)
LEMMA AliasTargetIsNoMarker ==
    ASSUME aliases \in Seq(ToSet(aliases)),
           \A i \in DOMAIN aliases : ~IsMarker(aliases[i].obj), NEW name
    PROVE  ~IsMarker(AliasTarget(name))
<1>1. CASE Bindings(name) = {}
  BY <1>1, NotMarker DEF AliasTarget
<1>2. CASE Bindings(name) # {}
  <2>1. Bindings(name) \subseteq DOMAIN aliases /\ DOMAIN aliases \subseteq Nat
    BY DEF Bindings
  <2>2. \E i \in Bindings(name) : \A j \in Bindings(name) : i <= j
    BY <1>2, <2>1, LeastExists
  <2>3. QED
    BY <1>2, <2>1, <2>2 DEF AliasTarget
<1>3. QED
  BY <1>1, <1>2
-----------------------------------------------------------------------------
(* The inductive invariant.  StackMirrorsParser alone is not inductive: it *)
(* does not say where the first open collection starts, which is what the  *)
(* number of cells between documents rests on, nor that the aliases hold   *)
(* no marker, which is what a pushed alias rests on.                       *)
Shapes == /\ Parser!StreamTypeOK
          /\ stack \in Seq(ToSet(stack))
          /\ aliases \in Seq(ToSet(aliases))
          /\ \A i \in DOMAIN aliases : ~IsMarker(aliases[i].obj)

Control == /\ failed \in BOOLEAN
           /\ failed => done
           /\ ~failed => phase # "failed"
           /\ ~failed /\ open # <<>> => phase = "document"

Finished(ph, docs) == IF ph = "document" THEN docs - 1 ELSE docs

(* f places the open collections on the stack, and the cells below them    *)
(* are one for each finished document.                                     *)
Placed(cells, frames, ph, docs, f) ==
    /\ f \in [DOMAIN frames -> DOMAIN cells]
    /\ Mirrors(cells, frames, f)
    /\ frames = <<>> => Len(cells) = Finished(ph, docs)
    /\ frames # <<>> => f[1] = docs

Nesting == ~failed => \E f : Placed(stack, open, phase, documents, f)

IInv == Shapes /\ Control /\ Nesting

(* The empty sequence.                                                     *)
LEMMA Empty == /\ DOMAIN <<>> = {}
               /\ \A s : s = <<>> => DOMAIN s = {} /\ Len(s) = 0
               /\ \A S : <<>> \in Seq(S)
OBVIOUS

(* The invariant holds before the first event.                             *)
LEMMA InitIInv == Init => IInv
<1> SUFFICES ASSUME Init PROVE IInv
  OBVIOUS
<1> USE DEF Init, Parser!StreamInit, Parser!GrammarInit
<1>1. Shapes
  <2>1. stack \in Seq(ToSet(stack)) /\ aliases \in Seq(ToSet(aliases))
    BY Empty
  <2>2. \A i \in DOMAIN aliases : ~IsMarker(aliases[i].obj)
    BY Empty
  <2>3. Parser!StreamTypeOK
    BY Empty DEF Parser!StreamTypeOK, Parser!GrammarTypeOK, Parser!Phases
  <2>4. QED
    BY <2>1, <2>2, <2>3 DEF Shapes
<1>2. Control
  BY DEF Control
<1>3. Nesting
  <2> DEFINE f == [k \in {} |-> 0]
  <2>1. f \in [DOMAIN open -> DOMAIN stack]
    BY Empty
  <2>2. Mirrors(stack, open, f)
    BY Empty DEF Mirrors
  <2>3. Len(stack) = Finished(phase, documents)
    BY Empty DEF Finished
  <2>4. Placed(stack, open, phase, documents, f)
    BY <2>1, <2>2, <2>3 DEF Placed
  <2>5. QED
    BY <2>4 DEF Nesting
<1>4. QED
  BY <1>1, <1>2, <1>3 DEF IInv

(* Pushing or popping keeps a sequence a sequence of its own elements.     *)
LEMMA AppendOwn ==
    ASSUME NEW s, s \in Seq(ToSet(s)), NEW c
    PROVE  /\ Append(s, c) \in Seq(ToSet(Append(s, c)))
           /\ \A i \in DOMAIN Append(s, c) :
                 (i \in DOMAIN s /\ Append(s, c)[i] = s[i]) \/ Append(s, c)[i] = c
<1> DEFINE S == ToSet(s) \cup {c}
           t == Append(s, c)
<1>1. s \in Seq(S)
  OBVIOUS
<1>2. t \in Seq(S)
  BY <1>1
<1>3. t \in Seq({t[i] : i \in DOMAIN t})
  <2> HIDE DEF t, S
  <2> QED BY <1>2, OwnElements
<1>4. \A i \in DOMAIN t : (i \in DOMAIN s /\ t[i] = s[i]) \/ t[i] = c
  BY <1>1
<1>5. QED
  BY <1>3, <1>4 DEF ToSet

(* The cells below the m-th are a sequence of cells.                       *)
LEMMA PrefixOwn ==
    ASSUME NEW s, s \in Seq(ToSet(s)), NEW m \in DOMAIN s
    PROVE  SubSeq(s, 1, m - 1) \in Seq(ToSet(SubSeq(s, 1, m - 1)))
<1> DEFINE S == ToSet(s)
           t == SubSeq(s, 1, m - 1)
<1>1. t \in Seq(S)
  OBVIOUS
<1>2. t \in Seq({t[i] : i \in DOMAIN t})
  <2> HIDE DEF t, S
  <2> QED BY <1>1, OwnElements
<1>3. QED
  BY <1>2 DEF ToSet

(* The frames of EventStream and those of these proofs are the same.       *)
LEMMA FramesAgree ==
    /\ Parser!Frames = AllFrames
    /\ Parser!Counted = CountedOf(open)
BY DEF Parser!Frames, Parser!Kinds, AllFrames, Parser!Counted, CountedOf

(* An alias or a scalar that is no marker.                                 *)
LEMMA PushIsPlaced ==
    ASSUME Shapes, Control, Nesting, ~failed, Parser!Leaf,
           NEW c, ~IsMarker(c.obj), stack' = Append(stack, c)
    PROVE  /\ Parser!StreamTypeOK'
           /\ phase' # "failed" /\ (open' # <<>> => phase' = "document")
           /\ \E f : Placed(stack', open', phase', documents', f)
<1>1. open \in Seq(AllFrames) /\ documents \in Nat /\ nodes \in Nat
  BY FramesAgree DEF Shapes, Parser!StreamTypeOK, Parser!GrammarTypeOK
<1>2. /\ CountedOf(open) \in Seq(AllFrames)
      /\ Len(CountedOf(open)) = Len(open)
  BY <1>1, CountedProperties
<1>3. /\ open' = CountedOf(open) /\ documents' = documents
      /\ phase = "document" /\ phase' = (IF open = <<>> THEN "root" ELSE phase)
      /\ nodes' = nodes + 1
  BY FramesAgree DEF Parser!Leaf, Parser!LeafEvent, Parser!OneNode
<1>4. open' = <<>> <=> open = <<>>
  BY <1>1, <1>2, <1>3
<1>5. Parser!StreamTypeOK'
  BY <1>1, <1>2, <1>3, FramesAgree DEF Parser!StreamTypeOK, Parser!GrammarTypeOK, Parser!Phases, Parser!Frames, Parser!Kinds, AllFrames
<1>6. PICK f : Placed(stack, open, phase, documents, f)
  BY DEF Nesting
<1>7. /\ f \in [DOMAIN open' -> DOMAIN stack']
      /\ Mirrors(stack', open', f)
  <2> DEFINE S == ToSet(stack) \cup {c}
  <2>1. stack \in Seq(S) /\ c \in S
    BY DEF Shapes
  <2> HIDE DEF S
  <2>2. f \in [DOMAIN open -> DOMAIN stack] /\ Mirrors(stack, open, f)
    BY <1>6 DEF Placed
  <2>3. QED
    BY <1>1, <1>3, <2>1, <2>2, PushValue
<1>8. open' = <<>> => Len(stack') = Finished(phase', documents')
  <2>1. Len(stack) \in Nat /\ Len(stack') = Len(stack) + 1
    BY DEF Shapes
  <2>2. QED
    BY <1>1, <1>3, <1>4, <1>6, <2>1 DEF Placed, Finished
<1>9. open' # <<>> => f[1] = documents'
  BY <1>3, <1>4, <1>6 DEF Placed
<1>10. Placed(stack', open', phase', documents', f)
  BY <1>7, <1>8, <1>9 DEF Placed
<1>11. QED
  BY <1>3, <1>4, <1>5, <1>10

(* The start of a collection.                                              *)
LEMMA MarkIsPlaced ==
    ASSUME Shapes, Control, Nesting, ~failed,
           NEW kind \in {"sequence", "mapping"}, Parser!CollectionStart(kind),
           NEW c, c.obj = MarkerOf(kind), stack' = Append(stack, c)
    PROVE  /\ Parser!StreamTypeOK'
           /\ phase' = "document"
           /\ \E f : Placed(stack', open', phase', documents', f)
<1>1. open \in Seq(AllFrames) /\ documents \in Nat /\ nodes \in Nat
  BY FramesAgree DEF Shapes, Parser!StreamTypeOK, Parser!GrammarTypeOK
<1>2. /\ open' = Append(CountedOf(open), [kind |-> kind, odd |-> FALSE])
      /\ documents' = documents /\ phase = "document" /\ phase' = "document"
      /\ nodes' = nodes + 1
  BY FramesAgree DEF Parser!CollectionStart, Parser!CollectionStartEvent, Parser!OneNode, Parser!Frame
<1>3. PICK f : Placed(stack, open, phase, documents, f)
  BY DEF Nesting
<1> DEFINE e == [kind |-> kind, odd |-> FALSE]
<1>4. PICK g \in [DOMAIN open' -> DOMAIN stack'] :
         /\ Mirrors(stack', open', g)
         /\ g[1] = IF open = <<>> THEN Len(stack) + 1 ELSE f[1]
         /\ open' \in Seq(AllFrames) /\ Len(open') = Len(open) + 1
  <2> DEFINE S == ToSet(stack) \cup {c}
  <2>1. stack \in Seq(S) /\ c \in S
    BY DEF Shapes
  <2> HIDE DEF S
  <2>2. f \in [DOMAIN open -> DOMAIN stack] /\ Mirrors(stack, open, f)
    BY <1>3 DEF Placed
  <2>3. e \in AllFrames /\ ~e.odd /\ c.obj = MarkerOf(e.kind)
    BY DEF AllFrames
  <2> DEFINE p == Append(CountedOf(open), e)
             t == Append(stack, c)
  <2>4. open' = p /\ stack' = t
    BY <1>2
  <2> HIDE DEF e
  <2>5. /\ p \in Seq(AllFrames) /\ Len(p) = Len(open) + 1
        /\ MarkedFrom(t, p, IF open = <<>> THEN Len(stack) + 1 ELSE f[1])
    BY <1>1, <2>1, <2>2, <2>3, PushMarker
  <2> HIDE DEF p, t
  <2>6. QED
    BY <2>4, <2>5 DEF MarkedFrom
<1>5. Parser!StreamTypeOK'
  BY <1>1, <1>2, <1>4, FramesAgree DEF Parser!StreamTypeOK, Parser!GrammarTypeOK, Parser!Phases
<1>6. open' # <<>>
  <2>1. Len(open') # 0
    BY <1>1, <1>4
  <2>2. QED
    BY <2>1, Empty
<1>7. g[1] = documents'
  <2>1. CASE open = <<>>
    <3>1. Len(stack) = documents - 1
      BY <1>2, <1>3, <2>1 DEF Placed, Finished
    <3>2. QED
      BY <1>1, <1>2, <1>4, <2>1, <3>1
  <2>2. CASE open # <<>>
    BY <1>2, <1>3, <1>4, <2>2 DEF Placed
  <2>3. QED
    BY <2>1, <2>2
<1>8. Placed(stack', open', phase', documents', g)
  BY <1>4, <1>6, <1>7 DEF Placed
<1>9. QED
  BY <1>2, <1>5, <1>8

(* The end of a collection that could be converted.                        *)
LEMMA FoldIsPlaced ==
    ASSUME Shapes, Control, Nesting, ~failed,
           NEW kind \in {"sequence", "mapping"}, Parser!CollectionEnd(kind)
    PROVE  LET m == LastMarker(MarkerOf(kind)) IN
           /\ Parser!StreamTypeOK'
           /\ phase' # "failed" /\ (open' # <<>> => phase' = "document")
           /\ m \in DOMAIN stack
           /\ \A c : ~IsMarker(c.obj)
                 => \E f : Placed(Append(SubSeq(stack, 1, m - 1), c),
                                  open', phase', documents', f)
<1> DEFINE m == LastMarker(MarkerOf(kind))
           n == Len(open)
<1>1. open \in Seq(AllFrames) /\ documents \in Nat /\ nodes \in Nat
  BY FramesAgree DEF Shapes, Parser!StreamTypeOK, Parser!GrammarTypeOK
<1>2. /\ open # <<>> /\ open[n].kind = kind /\ phase = "document"
      /\ open' = SubSeq(open, 1, n - 1)
      /\ documents' = documents /\ nodes' = nodes
      /\ phase' = (IF n = 1 THEN "root" ELSE phase)
  BY DEF Parser!CollectionEnd, Parser!CollectionEndEvent, Parser!Uncounted
<1>3. n \in Nat \ {0} /\ n \in DOMAIN open
  BY <1>1, <1>2
<1>4. PICK f : Placed(stack, open, phase, documents, f)
  BY DEF Nesting
<1>5. f \in [DOMAIN open -> DOMAIN stack] /\ Mirrors(stack, open, f)
  BY <1>4 DEF Placed
<1>6. stack \in Seq(ToSet(stack))
  BY DEF Shapes
<1>7. m = f[n]
  BY <1>1, <1>2, <1>5, <1>6, LastMarkerIsInnermost
<1>8. m \in DOMAIN stack
  BY <1>3, <1>5, <1>7
<1>9. /\ open' \in Seq(AllFrames) /\ Len(open') = n - 1
      /\ \A k \in DOMAIN open' : k \in DOMAIN open
  BY <1>1, <1>2, AllButLast
<1>10. open' = <<>> <=> n = 1
  BY <1>3, <1>9
<1>11. Parser!StreamTypeOK'
  BY <1>1, <1>2, <1>9, FramesAgree DEF Parser!StreamTypeOK, Parser!GrammarTypeOK, Parser!Phases
<1> HIDE DEF m
<1>12. ASSUME NEW c, ~IsMarker(c.obj)
       PROVE  \E g : Placed(Append(SubSeq(stack, 1, m - 1), c),
                            open', phase', documents', g)
  <2> DEFINE t == Append(SubSeq(stack, 1, m - 1), c)
             g == [k \in DOMAIN open' |-> f[k]]
  <2>1. /\ Len(t) = f[n]
        /\ g \in [DOMAIN open' -> DOMAIN t]
        /\ Mirrors(t, open', g)
    <3> DEFINE S == ToSet(stack) \cup {c}
    <3>1. stack \in Seq(S) /\ c \in S
      BY <1>6
    <3> HIDE DEF S
    <3>2. QED
      BY <1>1, <1>2, <1>5, <1>7, <1>12, <3>1, Collapse
  <2>2. f[1] = documents
    BY <1>2, <1>4 DEF Placed
  <2>3. open' = <<>> => Len(t) = Finished(phase', documents')
    BY <1>2, <1>10, <2>1, <2>2 DEF Finished
  <2>4. open' # <<>> => g[1] = documents'
    <3>1. ASSUME open' # <<>> PROVE 1 \in DOMAIN open'
      BY <1>9, <3>1
    <3>2. QED
      BY <1>2, <2>2, <3>1
  <2>5. Placed(t, open', phase', documents', g)
    <3> HIDE DEF t, g
    <3> QED BY <2>1, <2>3, <2>4 DEF Placed
  <2>6. QED
    <3> HIDE DEF g
    <3> QED BY <2>5
<1>13. QED
  BY <1>2, <1>8, <1>10, <1>11, <1>12 DEF m

(* What the end of the switch does to the aliases.                         *)
LEMMA ConcludeKeepsAliases ==
    ASSUME Shapes, NEW c, Sound(c), NEW newStack, NEW anchor,
           Conclude(c, newStack, anchor)
    PROVE  /\ aliases' \in Seq(ToSet(aliases'))
           /\ \A i \in DOMAIN aliases' : ~IsMarker(aliases'[i].obj)
<1>1. CASE c.fails \/ anchor = NoAnchor
  <2>1. aliases' = aliases
    BY <1>1 DEF Conclude, Recorded
  <2>2. QED
    BY <2>1 DEF Shapes
<1>2. CASE ~c.fails /\ anchor # NoAnchor
  <2> DEFINE b == [name |-> anchor, obj |-> c.obj]
  <2>1. aliases' = Append(aliases, b)
    BY <1>2 DEF Conclude, Recorded
  <2>2. b.obj = c.obj /\ ~IsMarker(c.obj)
    BY <1>2 DEF Sound
  <2> HIDE DEF b
  <2>3. /\ Append(aliases, b) \in Seq(ToSet(Append(aliases, b)))
        /\ \A i \in DOMAIN Append(aliases, b) :
              \/ i \in DOMAIN aliases /\ Append(aliases, b)[i] = aliases[i]
              \/ Append(aliases, b)[i] = b
    BY AppendOwn DEF Shapes
  <2>4. QED
    BY <2>1, <2>2, <2>3 DEF Shapes
<1>3. QED
  BY <1>1, <1>2

(* Every event, and every end of the loop, keeps the invariant.            *)
LEMMA NextIInv ==
    ASSUME HandlersReturnNoMarker, IInv, [Next]_vars
    PROVE  IInv'
<1> USE DEF IInv
<1>1. CASE SkipEvent
  <2>1. /\ open' = open /\ UNCHANGED <<stack, aliases, failed, done>>
        /\ nodes' = nodes /\ phase' \in {"stream", "document"}
        /\ documents' \in Nat
        /\ Finished(phase', documents') = Finished(phase, documents)
        /\ open # <<>> /\ ~failed => phase' = "document" /\ documents' = documents
    BY <1>1 DEF SkipEvent, Parser!StreamStart, Parser!StreamStartEvent, Parser!Uncounted, Parser!DocumentStart, Parser!DocumentStartEvent,
                Parser!DocumentEnd, Parser!DocumentEndEvent, Shapes, Control, Finished, Parser!StreamTypeOK, Parser!GrammarTypeOK
  <2>2. Shapes'
    BY <2>1 DEF Shapes, Parser!StreamTypeOK, Parser!GrammarTypeOK, Parser!Phases
  <2>3. Control'
    BY <2>1 DEF Control
  <2>4. Nesting'
    <3>1. ASSUME ~failed, NEW f, Placed(stack, open, phase, documents, f)
          PROVE  Placed(stack', open', phase', documents', f)
      BY <2>1, <3>1 DEF Placed
    <3>2. QED
      BY <2>1, <3>1 DEF Nesting
  <2>5. QED
    BY <2>2, <2>3, <2>4
<1>2. ASSUME NEW name \in Anchors, HandleAlias(name)
      PROVE  IInv'
  <2> DEFINE c == Value(AliasTarget(name))
  <2>1. /\ ~failed /\ Parser!Leaf /\ stack' = Append(stack, c)
        /\ UNCHANGED <<aliases, failed, done>>
    BY <1>2 DEF HandleAlias, Control
  <2>2. ~IsMarker(c.obj)
    BY AliasTargetIsNoMarker DEF Shapes, Value, Cell
  <2> HIDE DEF c
  <2>3. /\ Parser!StreamTypeOK'
        /\ phase' # "failed" /\ (open' # <<>> => phase' = "document")
        /\ \E f : Placed(stack', open', phase', documents', f)
    BY <2>1, <2>2, PushIsPlaced
  <2>4. stack' \in Seq(ToSet(stack'))
    BY <2>1, AppendOwn DEF Shapes
  <2>5. QED
    BY <2>1, <2>3, <2>4 DEF Shapes, Control, Nesting
<1>3. ASSUME NEW s \in Scalars, NEW anchor \in Anchors \cup {NoAnchor},
             HandleScalar(s, anchor)
      PROVE  IInv'
  <2>1. PICK c \in ScalarConversions(s) : Conclude(c, Append(stack, Value(c.obj)), anchor)
    BY <1>3 DEF HandleScalar
  <2>2. Sound(c) /\ ~failed /\ Parser!Leaf
    BY <1>3, SoundScalars DEF HandleScalar, Control
  <2>3. /\ aliases' \in Seq(ToSet(aliases'))
        /\ \A i \in DOMAIN aliases' : ~IsMarker(aliases'[i].obj)
    BY <2>1, <2>2, ConcludeKeepsAliases
  <2>4. failed' = c.fails /\ done' = c.fails /\ c.fails \in BOOLEAN
    BY <2>1, <2>2 DEF Conclude, Sound
  <2>5. CASE c.fails
    <3>1. stack' = stack
      BY <2>1, <2>5 DEF Conclude
    <3>2. Parser!StreamTypeOK'
      <4> DEFINE d == Value(Null)
      <4>1. open' = CountedOf(open) /\ documents' = documents
            /\ nodes' = nodes + 1 /\ phase' \in {"root", "document"}
        BY <2>2, FramesAgree DEF Parser!Leaf, Parser!LeafEvent, Parser!OneNode
      <4>2. open \in Seq(AllFrames) /\ nodes \in Nat /\ documents \in Nat
        BY FramesAgree DEF Shapes, Parser!StreamTypeOK, Parser!GrammarTypeOK
      <4>3. CountedOf(open) \in Seq(AllFrames)
        BY <4>2, CountedProperties
      <4>4. QED
        BY <4>1, <4>2, <4>3, FramesAgree DEF Parser!StreamTypeOK, Parser!GrammarTypeOK, Parser!Phases
    <3>3. QED
      BY <2>3, <2>4, <2>5, <3>1, <3>2 DEF Shapes, Control, Nesting
  <2>6. CASE ~c.fails
    <3> DEFINE d == Value(c.obj)
    <3>1. stack' = Append(stack, d)
      BY <2>1, <2>6 DEF Conclude
    <3>2. ~IsMarker(d.obj)
      BY <2>2, <2>6 DEF Sound, Value, Cell
    <3> HIDE DEF d
    <3>3. /\ Parser!StreamTypeOK'
          /\ phase' # "failed" /\ (open' # <<>> => phase' = "document")
          /\ \E f : Placed(stack', open', phase', documents', f)
      BY <2>2, <3>1, <3>2, PushIsPlaced
    <3>4. stack' \in Seq(ToSet(stack'))
      BY <3>1, AppendOwn DEF Shapes
    <3>5. QED
      BY <2>3, <2>4, <2>6, <3>3, <3>4 DEF Shapes, Control, Nesting
  <2>7. QED
    BY <2>4, <2>5, <2>6
<1>4. ASSUME NEW kind \in {"sequence", "mapping"}, NEW tag, NEW anchor,
             HandleStructureStart(kind, tag, anchor)
      PROVE  IInv'
  <2> DEFINE c == Cell(MarkerOf(kind), tag, anchor)
  <2>1. /\ ~failed /\ Parser!CollectionStart(kind) /\ stack' = Append(stack, c)
        /\ UNCHANGED <<aliases, failed, done>>
    BY <1>4 DEF HandleStructureStart, Control
  <2>2. c.obj = MarkerOf(kind)
    BY DEF Cell
  <2> HIDE DEF c
  <2>3. /\ Parser!StreamTypeOK' /\ phase' = "document"
        /\ \E f : Placed(stack', open', phase', documents', f)
    BY <2>1, <2>2, MarkIsPlaced
  <2>4. stack' \in Seq(ToSet(stack'))
    BY <2>1, AppendOwn DEF Shapes
  <2>5. QED
    BY <2>1, <2>3, <2>4 DEF Shapes, Control, Nesting
<1>5. ASSUME NEW kind \in {"sequence", "mapping"}, HandleCollectionEnd(kind)
      PROVE  IInv'
  <2> DEFINE m == LastMarker(MarkerOf(kind))
  <2>1. PICK c \in CollectionConversions(kind, m) :
           Conclude(c, Append(SubSeq(stack, 1, m - 1), Value(c.obj)),
                    IF m = 0 THEN NoAnchor ELSE stack[m].anchor)
    BY <1>5 DEF HandleCollectionEnd
  <2>2. Sound(c) /\ ~failed /\ Parser!CollectionEnd(kind)
    BY <1>5, SoundCollections DEF HandleCollectionEnd, Control
  <2>3. /\ aliases' \in Seq(ToSet(aliases'))
        /\ \A i \in DOMAIN aliases' : ~IsMarker(aliases'[i].obj)
    BY <2>1, <2>2, ConcludeKeepsAliases
  <2>4. failed' = c.fails /\ done' = c.fails /\ c.fails \in BOOLEAN
    BY <2>1, <2>2 DEF Conclude, Sound
  <2>5. /\ Parser!StreamTypeOK'
        /\ phase' # "failed" /\ (open' # <<>> => phase' = "document")
        /\ m \in DOMAIN stack
        /\ \A d : ~IsMarker(d.obj)
             => \E f : Placed(Append(SubSeq(stack, 1, m - 1), d),
                              open', phase', documents', f)
    BY <2>2, FoldIsPlaced
  <2> HIDE DEF m
  <2>6. CASE c.fails
    <3>1. stack' = stack
      BY <2>1, <2>6 DEF Conclude
    <3>2. QED
      BY <2>3, <2>4, <2>5, <2>6, <3>1 DEF Shapes, Control, Nesting
  <2>7. CASE ~c.fails
    <3> DEFINE d == Value(c.obj)
               h == SubSeq(stack, 1, m - 1)
    <3>1. stack' = Append(h, d)
      BY <2>1, <2>7 DEF Conclude
    <3>2. ~IsMarker(d.obj)
      BY <2>2, <2>7 DEF Sound, Value, Cell
    <3>3. \E f : Placed(Append(h, d), open', phase', documents', f)
      <4> HIDE DEF d
      <4> QED BY <2>5, <3>2
    <3>4. h \in Seq(ToSet(h))
      BY <2>5, PrefixOwn DEF Shapes
    <3> HIDE DEF d, h
    <3>5. stack' \in Seq(ToSet(stack'))
      BY <3>1, <3>4, AppendOwn
    <3>6. QED
      BY <2>3, <2>4, <2>5, <2>7, <3>1, <3>3, <3>5 DEF Shapes, Control, Nesting
  <2>8. QED
    BY <2>4, <2>6, <2>7
<1>6. CASE HandleStreamEnd
  <2>1. /\ ~failed /\ phase = "stream" /\ phase' = "end"
        /\ UNCHANGED <<open, nodes, documents, stack, aliases, failed>>
        /\ done' = TRUE
    BY <1>6 DEF HandleStreamEnd, Parser!StreamEnd, Parser!StreamEndEvent, Parser!Uncounted, Control
  <2>2. open = <<>>
    BY <2>1 DEF Control
  <2>3. ASSUME NEW f, Placed(stack, open, phase, documents, f)
        PROVE  Placed(stack', open', phase', documents', f)
    BY <2>1, <2>3 DEF Placed, Finished
  <2>4. QED
    BY <2>1, <2>2, <2>3 DEF Shapes, Parser!StreamTypeOK, Parser!GrammarTypeOK, Parser!Phases, Control, Nesting
<1>7. CASE HandleParserError
  <2>1. /\ phase' = "failed" /\ failed' = TRUE /\ done' = TRUE
        /\ UNCHANGED <<open, nodes, documents, stack, aliases>>
    BY <1>7 DEF HandleParserError, Parser!Fail, Parser!GiveUp, Parser!Uncounted
  <2>2. QED
    BY <2>1 DEF Shapes, Parser!StreamTypeOK, Parser!GrammarTypeOK, Parser!Phases, Control, Nesting
<1>8. CASE Return \/ UNCHANGED vars
  <2>1. UNCHANGED <<phase, open, nodes, documents, stack, aliases, failed, done>>
    BY <1>8 DEF Return, vars
  <2>2. QED
    BY <2>1 DEF Shapes, Parser!StreamTypeOK, Parser!GrammarTypeOK, Control, Nesting
<1>9. QED
  BY <1>1, <1>2, <1>3, <1>4, <1>5, <1>6, <1>7, <1>8 DEF Next
-----------------------------------------------------------------------------
(* With handlers that return no marker, the invariant always holds.        *)
THEOREM SpecIInv ==
    ASSUME HandlersReturnNoMarker
    PROVE  Spec => []IInv
<1>1. IInv /\ [Next]_vars => IInv'
  BY NextIInv
<1>2. QED
  BY InitIInv, <1>1, PTL DEF Spec

(* The stack of the event loop mirrors the parser's nesting: the search    *)
(* for the last marker always finds the start of the collection that ends  *)
(* (r_parse.c:418-433, 870-888), and a mapping is a list of pairs.         *)
THEOREM StackFollowsParser ==
    ASSUME HandlersReturnNoMarker
    PROVE  Spec => []StackMirrorsParser
<1>1. IInv => StackMirrorsParser
  BY DEF IInv, Nesting, Placed, StackMirrorsParser
<1>2. QED
  BY SpecIInv, <1>1, PTL

(* Between documents there is one object on the stack per document: no     *)
(* document leaves anything behind, or takes anything of an earlier one.   *)
THEOREM DocumentsAreSeparate ==
    ASSUME HandlersReturnNoMarker
    PROVE  Spec => []OneCellPerDocument
<1>1. IInv => OneCellPerDocument
  <2> SUFFICES ASSUME IInv, ~failed, phase \in {"stream", "end"}
               PROVE  Len(stack) = documents
    BY DEF OneCellPerDocument
  <2>1. open = <<>>
    BY DEF IInv, Control
  <2>2. QED
    BY <2>1 DEF IInv, Nesting, Placed, Finished
<1>2. QED
  BY SpecIInv, <1>1, PTL

(* The value of the first document, which is what yaml.load returns, is    *)
(* never replaced once it is complete.                                     *)
THEOREM FirstDocumentStays ==
    ASSUME HandlersReturnNoMarker
    PROVE  Spec => FirstDocumentIsFinal
<1>1. ASSUME IInv, [Next]_vars, stack # <<>>, ~IsMarker(stack[1].obj)
      PROVE  stack' # <<>> /\ stack'[1] = stack[1]
  <2>1. stack \in Seq(ToSet(stack)) /\ Len(stack) \in Nat \ {0}
    BY <1>1 DEF IInv, Shapes
  <2>2. ASSUME NEW d, stack' = Append(stack, d)
        PROVE  stack' # <<>> /\ stack'[1] = stack[1]
    <3> DEFINE S == ToSet(stack) \cup {d}
    <3>1. stack \in Seq(S) /\ d \in S
      BY <2>1
    <3> HIDE DEF S
    <3>2. QED
      BY <2>1, <2>2, <3>1
  <2>3. CASE stack' = stack
    BY <1>1, <2>3
  <2>4. ASSUME NEW kind \in {"sequence", "mapping"}, HandleCollectionEnd(kind),
               stack' # stack
        PROVE  stack' # <<>> /\ stack'[1] = stack[1]
    <3> DEFINE m == LastMarker(MarkerOf(kind))
    <3>1. ~failed /\ Parser!CollectionEnd(kind)
      BY <1>1, <2>4 DEF HandleCollectionEnd, IInv, Control
    <3>2. m \in DOMAIN stack
      BY <1>1, <3>1, FoldIsPlaced DEF IInv
    <3>3. PICK e \in CollectionConversions(kind, m) :
             stack' = (IF e.fails THEN stack
                       ELSE Append(SubSeq(stack, 1, m - 1), Value(e.obj)))
      BY <2>4 DEF HandleCollectionEnd, Conclude
    <3>4. Sound(e)
      BY SoundCollections
    <3> DEFINE d == Value(e.obj)
               h == SubSeq(stack, 1, m - 1)
    <3>5. stack' = Append(h, d)
      BY <2>4, <3>3, <3>4 DEF Sound
    <3>6. IsMarker(stack[m].obj)
      <4>1. PICK f : Placed(stack, open, phase, documents, f)
        BY <1>1, <3>1 DEF IInv, Nesting
      <4>2. open \in Seq(AllFrames) /\ open # <<>> /\ open[Len(open)].kind = kind
        BY <1>1, <3>1, FramesAgree DEF IInv, Shapes, Parser!StreamTypeOK, Parser!GrammarTypeOK, Parser!CollectionEnd, Parser!CollectionEndEvent, Parser!Uncounted
      <4>3. f \in [DOMAIN open -> DOMAIN stack] /\ Mirrors(stack, open, f)
        BY <4>1 DEF Placed
      <4>4. m = f[Len(open)]
        BY <2>1, <4>2, <4>3, LastMarkerIsInnermost
      <4>5. Len(open) \in DOMAIN open
        BY <4>2
      <4>6. stack[m].obj = MarkerOf(kind)
        BY <4>2, <4>3, <4>4, <4>5 DEF Mirrors
      <4>7. QED
        BY <4>6 DEF MarkerOf, IsMarker
    <3>7. m \in 2..Len(stack)
      BY <1>1, <2>1, <3>2, <3>6
    <3> HIDE DEF d, m
    <3>8. h \in Seq(ToSet(stack)) /\ Len(h) = m - 1 /\ h[1] = stack[1]
      BY <2>1, <3>7
    <3> DEFINE S == ToSet(stack) \cup {d}
    <3>9. h \in Seq(S) /\ d \in S
      BY <3>8
    <3> HIDE DEF h, S
    <3>10. Append(h, d) # <<>> /\ Append(h, d)[1] = h[1]
      BY <3>7, <3>8, <3>9
    <3>11. QED
      BY <3>5, <3>8, <3>10
  <2>5. ASSUME NEW s, NEW anchor, HandleScalar(s, anchor), stack' # stack
        PROVE  \E d : stack' = Append(stack, d)
    BY <2>5 DEF HandleScalar, Conclude
  <2>6. CASE SkipEvent \/ HandleStreamEnd \/ HandleParserError \/ Return \/ UNCHANGED vars
    BY <2>3, <2>6 DEF SkipEvent, HandleStreamEnd, HandleParserError, Return, vars
  <2>7. ASSUME NEW name, HandleAlias(name)
        PROVE  \E d : stack' = Append(stack, d)
    BY <2>7 DEF HandleAlias
  <2>8. ASSUME NEW kind, NEW tag, NEW anchor, HandleStructureStart(kind, tag, anchor)
        PROVE  \E d : stack' = Append(stack, d)
    BY <2>8 DEF HandleStructureStart
  <2>9. QED
    BY <1>1, <2>2, <2>3, <2>4, <2>5, <2>6, <2>7, <2>8 DEF Next
<1>2. IInv /\ [Next]_vars
         => [stack # <<>> /\ ~IsMarker(stack[1].obj)
               => stack' # <<>> /\ stack'[1] = stack[1]]_vars
  BY <1>1
<1>3. QED
  BY SpecIInv, <1>2, PTL DEF Spec, FirstDocumentIsFinal
-----------------------------------------------------------------------------
(* A conversion that fails says why.                                       *)
Told(c) == c.fails \in BOOLEAN /\ (c.fails => c.message # "")

(* Only Fails with an empty message would be silent.                       *)
LEMMA TellingValues ==
    /\ \A v, m : Told(Yields(v, m))
    /\ \A m : m # "" => Told(Fails(m))
    /\ \A m : Told(InvalidTag(m))
BY DEF Told, Yields, Fails, InvalidTag

(* No handler, and no default conversion of a scalar, fails in silence.    *)
LEMMA ScalarsTell == ASSUME NEW s PROVE \A c \in ScalarConversions(s) : Told(c)
<1>1. ASSUME NEW message PROVE \A c \in Evaluations(s.text, message) : Told(c)
  BY TellingValues DEF Evaluations
<1>2. ASSUME NEW message PROVE \A c \in ScalarDefaults(s, message) : Told(c)
  BY <1>1, TellingValues DEF ScalarDefaults
<1>3. \A c \in HandlerResults(s.tag) : Told(c)
  BY TellingValues DEF HandlerResults
<1>4. QED
  BY <1>2, <1>3 DEF ScalarConversions

(* Nor does a conversion of a collection.                                  *)
LEMMA CollectionsTell ==
    ASSUME NEW kind, NEW m
    PROVE  \A c \in CollectionConversions(kind, m) : Told(c)
<1> DEFINE tag == stack[m].tag
<1>1. \A c \in HandlerResults(tag) : Told(c)
  BY TellingValues DEF HandlerResults
<1>2. ASSUME NEW items, NEW message
      PROVE  \A c \in SequenceDefaults(tag, items, message) : Told(c)
  <2>1. Told(OrderedMap(items, message))
    BY TellingValues DEF OrderedMap
  <2>2. QED
    BY <2>1, TellingValues DEF SequenceDefaults
<1>3. ASSUME NEW map, NEW message
      PROVE  \A c \in MappingDefaults(tag, map, message) : Told(c)
  BY TellingValues DEF MappingDefaults
<1>4. \A c \in SequenceConversions(m) : Told(c)
  BY <1>1, <1>2 DEF SequenceConversions
<1>5. \A c \in MappingConversions(m) : Told(c)
  <2> DEFINE e == AssembleMap(PairsOf(Children(m))).error
             map == MapValue(AssembleMap(PairsOf(Children(m))))
  <2>1. MappingConversions(m) =
           IF e # "" THEN {Fails(e)}
           ELSE HandlerResults(tag) \cup
                UNION {MappingDefaults(tag, map, message) :
                          message \in DefaultMessages(tag)}
    BY DEF MappingConversions
  <2>2. ASSUME NEW message PROVE \A c \in MappingDefaults(tag, map, message) : Told(c)
    <3> HIDE DEF map, tag
    <3> QED BY <1>3
  <2> HIDE DEF e, map, tag
  <2>3. CASE e # ""
    <3>1. Told(Fails(e))
      BY <2>3, TellingValues
    <3>2. MappingConversions(m) = {Fails(e)}
      BY <2>1, <2>3
    <3>3. QED
      BY <3>1, <3>2
  <2>4. CASE e = ""
    BY <1>1, <2>1, <2>2, <2>4
  <2>5. QED
    BY <2>3, <2>4
<1>6. QED
  BY <1>4, <1>5, TellingValues DEF CollectionConversions

(* An error ends the loop with a message; and only Return, after the loop, *)
(* decides what yaml.load does.                                            *)
ErrorsInv ==
    /\ failed \in BOOLEAN /\ done \in BOOLEAN
    /\ failed => done /\ errorMsg # ""
    /\ outcome # "running" => done
    /\ outcome = "value" => ~failed

(* Every event keeps it.                                                   *)
LEMMA NextErrorsInv == ErrorsInv /\ [Next]_vars => ErrorsInv'
<1> SUFFICES ASSUME ErrorsInv, [Next]_vars PROVE ErrorsInv'
  OBVIOUS
<1> USE DEF ErrorsInv
<1>1. ASSUME NEW c, Told(c), ~done, NEW s, NEW a, Conclude(c, s, a) PROVE ErrorsInv'
  BY <1>1 DEF Told, Conclude
<1>2. ASSUME NEW s \in Scalars, NEW anchor, HandleScalar(s, anchor) PROVE ErrorsInv'
  BY <1>1, <1>2, ScalarsTell DEF HandleScalar
<1>3. ASSUME NEW kind, HandleCollectionEnd(kind) PROVE ErrorsInv'
  BY <1>1, <1>3, CollectionsTell DEF HandleCollectionEnd
<1>4. CASE SkipEvent
  BY <1>4 DEF SkipEvent
<1>5. ASSUME NEW name, HandleAlias(name) PROVE ErrorsInv'
  BY <1>5 DEF HandleAlias
<1>6. ASSUME NEW kind, NEW tag, NEW anchor, HandleStructureStart(kind, tag, anchor)
      PROVE  ErrorsInv'
  BY <1>6 DEF HandleStructureStart
<1>7. CASE HandleStreamEnd
  BY <1>7 DEF HandleStreamEnd
<1>8. CASE HandleParserError
  BY <1>8 DEF HandleParserError
<1>9. CASE Return
  BY <1>9 DEF Return
<1>10. CASE UNCHANGED vars
  BY <1>10 DEF vars
<1>11. QED
  BY <1>2, <1>3, <1>4, <1>5, <1>6, <1>7, <1>8, <1>9, <1>10 DEF Next

(* Whatever handlers and expressions do to the message: when a conversion  *)
(* or the parser fails, yaml.load raises an error (r_parse.c:1310-1336).   *)
THEOREM FailuresRaise == Spec => []FailuresAreRaised
<1>1. Init => ErrorsInv
  BY DEF Init, ErrorsInv
<1>2. ErrorsInv => FailuresAreRaised
  BY DEF ErrorsInv, FailuresAreRaised
<1>3. QED
  BY <1>1, <1>2, NextErrorsInv, PTL DEF Spec
-----------------------------------------------------------------------------
(* No handler loads or writes YAML itself with an error it then handles.   *)
NoNestedErrors == \A o \in HandlerOutcomes : o.leaves # "Nested"

(* A conversion that does not fail leaves no message.                      *)
Quiet(c) == ~c.fails => c.message = ""

(* Fails, InvalidTag and a value without a message are quiet.              *)
LEMMA QuietValues ==
    /\ \A v : Quiet(Yields(v, ""))
    /\ \A m : Quiet(Fails(m)) /\ Quiet(InvalidTag(m))
BY DEF Quiet, Yields, Fails, InvalidTag

(* A handler leaves no message behind when there was none before.          *)
LEMMA QuietHandlers ==
    ASSUME NoNestedErrors, errorMsg = "", NEW tag
    PROVE  /\ \A o \in HandlerOutcomes : LeftBy(o, "") = ""
           /\ \A c \in HandlerResults(tag) : Quiet(c)
           /\ \A m \in DefaultMessages(tag) : m = ""
<1>1. \A o \in HandlerOutcomes : LeftBy(o, "") = ""
  BY BuilderAssumption DEF NoNestedErrors, LeftBy
<1>2. \A c \in HandlerResults(tag) : Quiet(c)
  BY <1>1, QuietValues DEF HandlerResults
<1>3. \A m \in DefaultMessages(tag) : m = ""
  BY <1>1 DEF DefaultMessages
<1>4. QED
  BY <1>1, <1>2, <1>3

(* Nor does a scalar that is converted.                                    *)
LEMMA QuietScalars ==
    ASSUME NoNestedErrors, errorMsg = "", NEW s
    PROVE  \A c \in ScalarConversions(s) : Quiet(c)
<1>1. \A c \in Evaluations(s.text, "") : Quiet(c)
  BY QuietHandlers, QuietValues DEF Evaluations
<1>2. \A c \in ScalarDefaults(s, "") : Quiet(c)
  BY <1>1, QuietValues DEF ScalarDefaults
<1>3. QED
  BY <1>2, QuietHandlers DEF ScalarConversions

(* Nor does a collection that is converted.                                *)
LEMMA QuietCollections ==
    ASSUME NoNestedErrors, errorMsg = "", NEW kind, NEW m
    PROVE  \A c \in CollectionConversions(kind, m) : Quiet(c)
<1> DEFINE tag == stack[m].tag
<1>1. ASSUME NEW items PROVE \A c \in SequenceDefaults(tag, items, "") : Quiet(c)
  <2>1. Quiet(OrderedMap(items, ""))
    BY QuietValues DEF OrderedMap
  <2>2. QED
    BY <2>1, QuietValues DEF SequenceDefaults
<1>2. ASSUME NEW map PROVE \A c \in MappingDefaults(tag, map, "") : Quiet(c)
  BY QuietValues DEF MappingDefaults
<1>3. \A c \in SequenceConversions(m) : Quiet(c)
  BY <1>1, QuietHandlers DEF SequenceConversions
<1>4. \A c \in MappingConversions(m) : Quiet(c)
  <2> DEFINE e == AssembleMap(PairsOf(Children(m))).error
             map == MapValue(AssembleMap(PairsOf(Children(m))))
  <2>1. MappingConversions(m) =
           IF e # "" THEN {Fails(e)}
           ELSE HandlerResults(tag) \cup
                UNION {MappingDefaults(tag, map, message) :
                          message \in DefaultMessages(tag)}
    BY DEF MappingConversions
  <2>2. \A c \in MappingDefaults(tag, map, "") : Quiet(c)
    <3> HIDE DEF map, tag
    <3> QED BY <1>2
  <2>3. /\ \A c \in HandlerResults(tag) : Quiet(c)
        /\ \A n \in DefaultMessages(tag) : n = ""
    BY QuietHandlers
  <2> HIDE DEF e, map, tag
  <2>4. CASE e # ""
    <3>1. Quiet(Fails(e))
      BY <2>4, QuietValues
    <3>2. MappingConversions(m) = {Fails(e)}
      BY <2>1, <2>4
    <3>3. QED
      BY <3>1, <3>2
  <2>5. CASE e = ""
    BY <2>1, <2>2, <2>3, <2>5
  <2>6. QED
    BY <2>4, <2>5
<1>5. QED
  BY <1>3, <1>4, QuietValues DEF CollectionConversions

QuietInv == /\ ErrorsInv
            /\ ~failed => errorMsg = ""
            /\ outcome = "error" => failed

(* As long as nothing has failed the message is empty, and every event     *)
(* keeps it so.                                                            *)
LEMMA NextQuietInv == ASSUME NoNestedErrors PROVE QuietInv /\ [Next]_vars => QuietInv'
<1> SUFFICES ASSUME QuietInv, [Next]_vars PROVE QuietInv'
  OBVIOUS
<1> USE DEF QuietInv
<1>1. ErrorsInv' /\ (~done => errorMsg = "" /\ outcome = "running")
  BY NextErrorsInv DEF ErrorsInv
<1>2. ASSUME NEW c, Quiet(c), ~done, NEW s, NEW a, Conclude(c, s, a) PROVE QuietInv'
  BY <1>1, <1>2 DEF Quiet, Conclude
<1>3. ASSUME NEW s \in Scalars, NEW anchor, HandleScalar(s, anchor) PROVE QuietInv'
  BY <1>1, <1>2, <1>3, QuietScalars DEF HandleScalar
<1>4. ASSUME NEW kind, HandleCollectionEnd(kind) PROVE QuietInv'
  BY <1>1, <1>2, <1>4, QuietCollections DEF HandleCollectionEnd
<1>5. CASE SkipEvent
  BY <1>1, <1>5 DEF SkipEvent
<1>6. ASSUME NEW name, HandleAlias(name) PROVE QuietInv'
  BY <1>1, <1>6 DEF HandleAlias
<1>7. ASSUME NEW kind, NEW tag, NEW anchor, HandleStructureStart(kind, tag, anchor)
      PROVE  QuietInv'
  BY <1>1, <1>7 DEF HandleStructureStart
<1>8. CASE HandleStreamEnd
  BY <1>1, <1>8 DEF HandleStreamEnd
<1>9. CASE HandleParserError
  BY <1>1, <1>9 DEF HandleParserError
<1>10. CASE Return
  BY <1>1, <1>10 DEF Return
<1>11. CASE UNCHANGED vars
  BY <1>1, <1>11 DEF vars
<1>12. QED
  BY <1>3, <1>4, <1>5, <1>6, <1>7, <1>8, <1>9, <1>10, <1>11 DEF Next

(* As long as no handler leaves the message of a load of its own behind,   *)
(* an error is raised only when something failed: a handler's error that   *)
(* became a warning does not fail the load (r_parse.c:191, 480, 999).      *)
THEOREM WarningsAreNotRaised ==
    ASSUME NoNestedErrors
    PROVE  Spec => []HandledErrorsAreNotRaised
<1>1. Init => QuietInv
  BY DEF Init, QuietInv, ErrorsInv
<1>2. QuietInv => HandledErrorsAreNotRaised
  BY DEF QuietInv, HandledErrorsAreNotRaised
<1>3. QuietInv /\ [Next]_vars => QuietInv'
  BY NextQuietInv
<1>4. QED
  BY <1>1, <1>2, <1>3, PTL DEF Spec
-----------------------------------------------------------------------------
(* R objects: a set with the parts of each of its members, none of them a  *)
(* marker, and the members of such sets.                                   *)
ObjectSet(U) ==
    \A v \in U : /\ v.type \in Types /\ ~IsMarker(v)
                 /\ v.items \in Seq(U)
                 /\ v.keys \in Seq(U)
                 /\ IsMap(v) => Len(v.keys) = Len(v.items)

IsObject(v) == \E U : ObjectSet(U) /\ v \in U

(* What is made of objects is one.                                         *)
LEMMA NewObject ==
    ASSUME NEW U, ObjectSet(U), NEW v, v.type \in Types, ~IsMarker(v),
           v.items \in Seq(U), v.keys \in Seq(U),
           IsMap(v) => Len(v.keys) = Len(v.items)
    PROVE  IsObject(v)
<1> DEFINE W == U \cup {v}
<1>1. \A s \in Seq(U) : s \in Seq(W)
  OBVIOUS
<1>2. ASSUME NEW w \in W
      PROVE  /\ w.type \in Types /\ ~IsMarker(w)
             /\ w.items \in Seq(W) /\ w.keys \in Seq(W)
             /\ IsMap(w) => Len(w.keys) = Len(w.items)
  <2>1. CASE w = v
    BY <1>1, <2>1
  <2>2. CASE w \in U
    <3> HIDE DEF W
    <3> QED BY <1>1, <2>2 DEF ObjectSet
  <2>3. QED
    BY <2>1, <2>2
<1>3. ObjectSet(W) /\ v \in W
  <2>1. v \in W
    OBVIOUS
  <2> HIDE DEF W
  <2>2. QED
    BY <1>2, <2>1 DEF ObjectSet
<1>4. QED
  BY <1>3 DEF IsObject

(* Many objects and their parts are together in one set.                   *)
LEMMA Gathered ==
    ASSUME NEW I, NEW s, \A i \in I : IsObject(s[i])
    PROVE  \E U : ObjectSet(U) /\ \A i \in I : s[i] \in U
<1> DEFINE Of(i) == CHOOSE U : ObjectSet(U) /\ s[i] \in U
           W == UNION {Of(i) : i \in I}
<1>1. ASSUME NEW i \in I PROVE ObjectSet(Of(i)) /\ s[i] \in Of(i)
  BY DEF IsObject
<1> HIDE DEF Of
<1>2. \A i \in I : s[i] \in W
  BY <1>1
<1>3. ASSUME NEW w \in W
      PROVE  /\ w.type \in Types /\ ~IsMarker(w)
             /\ w.items \in Seq(W) /\ w.keys \in Seq(W)
             /\ IsMap(w) => Len(w.keys) = Len(w.items)
  <2>1. PICK i \in I : w \in Of(i)
    OBVIOUS
  <2>2. \A x \in Of(i) : x \in W
    OBVIOUS
  <2> HIDE DEF W
  <2>3. \A q \in Seq(Of(i)) : q \in Seq(W)
    BY <2>2
  <2>4. QED
    BY <1>1, <2>1, <2>3 DEF ObjectSet
<1> HIDE DEF W
<1>4. ObjectSet(W)
  BY <1>3 DEF ObjectSet
<1>5. QED
  BY <1>2, <1>4

(* Objects without parts.                                                  *)
LEMMA Atoms ==
    /\ \A a : IsObject(ChrOf(a)) /\ IsObject(IntOf(a))
    /\ IsObject(Null) /\ IsObject(MergeKey) /\ IsObject(BadAnchor)
    /\ \A t, a : t \in AtomicTypes => IsObject(RObject(t, "", a, <<>>, <<>>))
<1> DEFINE U == {}
<1>1. ObjectSet(U) /\ <<>> \in Seq(U)
  BY DEF ObjectSet
<1> HIDE DEF U
<1>2. ASSUME NEW t \in {"chr", "int", "null"}, NEW c, NEW a
      PROVE  IsObject(RObject(t, c, a, <<>>, <<>>))
  <2> DEFINE v == RObject(t, c, a, <<>>, <<>>)
  <2>1. v.type = t /\ v.items = <<>> /\ v.keys = <<>>
    BY DEF RObject
  <2>2. v.type \in Types /\ v.type # "sym" /\ ~IsMap(v)
    BY <2>1 DEF Types, IsMap
  <2> HIDE DEF v
  <2>3. ~IsMarker(v)
    BY <2>2, NotMarker
  <2>4. IsObject(v)
    BY <1>1, <2>1, <2>2, <2>3, NewObject
  <2>5. QED
    BY <2>4 DEF v
<1>3. QED
  BY <1>2 DEF ChrOf, IntOf, Null, MergeKey, BadAnchor, AtomicTypes

(* Objects made of a sequence of objects.                                  *)
LEMMA ListIsObject ==
    ASSUME NEW U, ObjectSet(U), NEW s \in Seq(U)
    PROVE  IsObject(List(s)) /\ IsObject(Coerced(s))
<1>1. IsObject(List(s))
  <2> DEFINE v == List(s)
  <2>1. /\ v.type = "list" /\ v.items = s /\ v.keys = <<>>
        /\ v.type \in Types /\ ~IsMap(v) /\ <<>> \in Seq(U)
    BY DEF List, RObject, Types, IsMap
  <2>2. ~IsMarker(v)
    BY NotMarker
  <2> HIDE DEF v
  <2>3. IsObject(v)
    BY <2>1, <2>2, NewObject
  <2>4. QED
    BY <2>3 DEF v
<1>2. QED
  BY <1>1, Atoms DEF Coerced

(* So is a map of as many keys as values.                                  *)
LEMMA MapIsObject ==
    ASSUME NEW U, ObjectSet(U), NEW k \in Seq(U), NEW s \in Seq(U), Len(k) = Len(s)
    PROVE  IsObject(MapOf(k, s))
<1> DEFINE v == MapOf(k, s)
<1>1. /\ v.items = s /\ v.keys = k /\ v.type \in Types
  BY DEF MapOf, RObject, Types
<1>2. ~IsMarker(v)
  BY NotMarker
<1> HIDE DEF v
<1>3. IsObject(v)
  BY <1>1, <1>2, NewObject
<1>4. QED
  BY <1>3 DEF v

(* With the keys that handle_map makes of them there is still a set, and   *)
(* one that is closed under everything the assembly of a map takes apart.  *)
LEMMA WithKeys ==
    ASSUME NEW U, ObjectSet(U)
    PROVE  \E K : ObjectSet(K) /\ ClosedUnderParts(K) /\ U \subseteq K
<1> DEFINE N == {ChrOf(FirstAsCharacter(v)) : v \in U}
           K == U \cup N
<1>1. CASE ~CoerceKeys
  <2>1. \A v : KeyOf(v) = v
    BY <1>1 DEF KeyOf
  <2>2. ObjectSet(U) /\ ClosedUnderParts(U)
    BY <2>1 DEF ObjectSet, ClosedUnderParts
  <2>3. QED
    BY <2>2
<1>2. CASE CoerceKeys
  <2>1. \A v : KeyOf(v) = ChrOf(FirstAsCharacter(v))
    BY <1>2 DEF KeyOf
  <2>2. ASSUME NEW a
        PROVE  /\ ChrOf(a).type = "chr" /\ ChrOf(a).items = <<>>
               /\ ChrOf(a).keys = <<>> /\ ~IsMarker(ChrOf(a))
               /\ KeyOf(ChrOf(a)) = ChrOf(a)
    <3> DEFINE v == ChrOf(a)
    <3>1. v.type = "chr" /\ v.items = <<>> /\ v.keys = <<>> /\ v.atoms = <<a>>
      BY DEF ChrOf, RObject
    <3>2. FirstAsCharacter(v) = a
      <4>1. IsAtomic(v) /\ RLength(v) = 1 /\ v.atoms[1] = a
        BY <3>1 DEF IsAtomic, AtomicTypes, RLength
      <4> HIDE DEF v
      <4>2. QED
        BY <4>1 DEF FirstAsCharacter
    <3> HIDE DEF v
    <3>3. KeyOf(v) = ChrOf(a)
      BY <2>1, <3>2
    <3>4. QED
      BY <3>1, <3>3, NotMarker DEF v
  <2>3. \A v \in U : v \in K /\ KeyOf(v) \in K
    BY <2>1
  <2>4. \A v \in N : v \in K /\ \E a : v = ChrOf(a)
    OBVIOUS
  <2>5. \A v \in K : v \in U \/ v \in N
    OBVIOUS
  <2> HIDE DEF K, N
  <2>6. \A s \in Seq(U) : s \in Seq(K)
    BY <2>3
  <2>7. \A v \in N : /\ v.type = "chr" /\ v.items = <<>> /\ v.keys = <<>>
                     /\ ~IsMarker(v) /\ KeyOf(v) = v
    BY <2>2, <2>4
  <2>8. <<>> \in Seq(K)
    BY Empty
  <2>9. ObjectSet(K)
    BY <2>5, <2>6, <2>7, <2>8 DEF ObjectSet, Types, IsMap
  <2>10. ClosedUnderParts(K)
    BY <2>3, <2>4, <2>5, <2>6, <2>7, <2>8 DEF ObjectSet, ClosedUnderParts, IsMap
  <2>11. U \subseteq K
    BY <2>3
  <2>12. QED
    BY <2>9, <2>10, <2>11
<1>3. QED
  BY <1>1, <1>2

(* handle_map assembles an object without two values for a key but behind  *)
(* a NULL value, and never fails in the way that cannot be.                *)
LEMMA AssembledIsObject ==
    ASSUME NEW pairs, Len(pairs) \in Nat,
           \A i \in 1..Len(pairs) : IsObject(pairs[i].key) /\ IsObject(pairs[i].value)
    PROVE  /\ AssembleMap(pairs).error \in MapErrors \ {"Merge override failed"}
           /\ IsObject(MapValue(AssembleMap(pairs)))
           /\ UniqueKeyed(MapValue(AssembleMap(pairs)))
<1> DEFINE n == Len(pairs)
           I == {"key", "value"} \X (1..n)
           s == [x \in I |-> IF x[1] = "key" THEN pairs[x[2]].key ELSE pairs[x[2]].value]
           acc == AssembleMap(pairs)
           v == MapValue(acc)
<1>1. PICK U : ObjectSet(U) /\ \A x \in I : s[x] \in U
  <2>1. \A x \in I : IsObject(s[x])
    OBVIOUS
  <2> HIDE DEF I, s
  <2>2. QED
    BY <2>1, Gathered
<1>2. \A i \in 1..n : pairs[i].key \in U /\ pairs[i].value \in U
  <2>1. ASSUME NEW i \in 1..n PROVE pairs[i].key \in U /\ pairs[i].value \in U
    <3>1. <<"key", i>> \in I /\ <<"value", i>> \in I
      OBVIOUS
    <3>2. s[<<"key", i>>] = pairs[i].key /\ s[<<"value", i>>] = pairs[i].value
      BY <3>1
    <3> HIDE DEF s, I
    <3>3. QED
      BY <1>1, <3>1, <3>2
  <2>2. QED
    BY <2>1
<1> HIDE DEF s, I
<1>3. PICK K : ObjectSet(K) /\ ClosedUnderParts(K) /\ U \subseteq K
  BY <1>1, WithKeys
<1>4. acc \in SaneAccs(K)
  BY <1>2, <1>3, AssembleMapIsSane
<1> HIDE DEF acc
<1> DEFINE m == acc.map
           k == [i \in DOMAIN m |-> m[i].key]
           w == [i \in DOMAIN m |-> m[i].value]
<1>5. acc.error \in MapErrors \ {"Merge override failed"} /\ m \in Seq(EntriesOver(K)) /\ Unambiguous(m)
  BY <1>4 DEF SaneAccs, AccsOver
<1> HIDE DEF m
<1>6. /\ Len(m) \in Nat /\ DOMAIN m = 1..Len(m)
      /\ \A i \in 1..Len(m) : m[i].key \in K /\ m[i].value \in K
  <2>1. \A e \in EntriesOver(K) : e.key \in K /\ e.value \in K
    BY DEF EntriesOver
  <2>2. ASSUME NEW S, NEW q \in Seq(S)
        PROVE  Len(q) \in Nat /\ DOMAIN q = 1..Len(q) /\ \A i \in 1..Len(q) : q[i] \in S
    OBVIOUS
  <2> HIDE DEF k, w, v
  <2>3. /\ Len(m) \in Nat /\ DOMAIN m = 1..Len(m)
        /\ \A i \in 1..Len(m) : m[i] \in EntriesOver(K)
    BY <1>5, <2>2
  <2>4. QED
    BY <2>1, <2>2, <2>3
<1>7. k \in Seq(K) /\ w \in Seq(K) /\ Len(k) = Len(m) /\ Len(w) = Len(m)
  BY <1>6
<1>8. v = MapOf(k, w)
  BY DEF MapValue, m
<1>9. IsObject(v)
  <2> HIDE DEF v, k, w
  <2> QED BY <1>3, <1>7, <1>8, MapIsObject
<1>10. UniqueKeyed(v)
  <2>1. v.keys = k /\ v.items = w
    <3> HIDE DEF v, k, w
    <3> QED BY <1>8 DEF MapOf, RObject
  <2> HIDE DEF v
  <2>2. ASSUME NEW i \in DOMAIN v.keys, NEW j \in DOMAIN v.keys,
               i < j, v.keys[i] = v.keys[j]
        PROVE  ~CoerceKeys /\ \E h \in 1..i : v.items[h] = Null
    <3>1. i \in DOMAIN m /\ j \in DOMAIN m /\ m[i].key = m[j].key
      BY <2>1, <2>2
    <3>2. Hidden(m, i)
      BY <1>5, <2>2, <3>1 DEF Unambiguous
    <3>3. \A h \in 1..i : v.items[h] = m[h].value
      BY <1>6, <2>1, <3>1
    <3>4. QED
      BY <3>2, <3>3 DEF Hidden
  <2>3. QED
    BY <2>2 DEF UniqueKeyed
<1>11. QED
  BY <1>5, <1>9, <1>10 DEF acc

(* "!omap" joins objects to an object.                                     *)
LEMMA JoinedIsObject ==
    ASSUME NEW U, ObjectSet(U), NEW s \in Seq(U), \A i \in DOMAIN s : IsMap(s[i])
    PROVE  IsObject(MapOf(JoinedKeys(s), JoinedValues(s)))
<1> DEFINE p == [i \in DOMAIN s |-> s[i].keys]
           q == [i \in DOMAIN s |-> s[i].items]
           k == FlattenSeq(p)
           w == FlattenSeq(q)
<1>1. /\ Len(s) \in Nat /\ DOMAIN s = 1..Len(s)
      /\ \A i \in 1..Len(s) : s[i] \in U
  OBVIOUS
<1>2. \A i \in 1..Len(s) : /\ s[i].keys \in Seq(U) /\ s[i].items \in Seq(U)
                           /\ Len(s[i].keys) = Len(s[i].items)
  BY <1>1 DEF ObjectSet
<1>3. /\ p \in Seq(Seq(U)) /\ q \in Seq(Seq(U)) /\ Len(p) = Len(s) /\ Len(q) = Len(s)
      /\ \A i \in 1..Len(s) : p[i] = s[i].keys /\ q[i] = s[i].items
  BY <1>1, <1>2
<1>4. JoinedKeys(s) = k /\ JoinedValues(s) = w
  BY DEF JoinedKeys, JoinedValues
<1> HIDE DEF p, q
<1>5. \A i \in 1..Len(p) : Len(p[i]) = Len(q[i])
  BY <1>2, <1>3
<1>6. Len(k) = Len(w)
  BY <1>3, <1>5, FlattenLengths
<1>7. k \in Seq(U) /\ w \in Seq(U)
  <2> DEFINE x == <<>>
  <2>1. x \in Seq(U)
    OBVIOUS
  <2> HIDE DEF x
  <2>2. QED
    BY <1>3, <2>1, FlattenAppend
<1> HIDE DEF k, w
<1>8. QED
  BY <1>4, <1>6, <1>7, MapIsObject
-----------------------------------------------------------------------------
(* Handlers and expressions return objects, and no list with a name twice  *)
(* but for one that could be loaded.                                       *)
HandlersReturnObjects == \A o \in HandlerOutcomes : IsObject(o.result)
HandlersReturnUniqueKeys == \A o \in HandlerOutcomes : UniqueKeyed(o.result)

(* What a cell, an alias or the result may hold; and the messages but for  *)
(* the two of the states that cannot be.                                   *)
Fine(v) == IsObject(v) /\ (HandlersReturnUniqueKeys => UniqueKeyed(v))
PossibleMessages == Messages \ {"Internal error", "Merge override failed"}

Converted(c) == /\ c.fails \in BOOLEAN
                /\ c.message \in PossibleMessages
                /\ ~c.fails => Fine(c.obj)

(* No object that is not a map has a key twice.                            *)
LEMMA FineObjects ==
    /\ \A v : IsObject(v) /\ ~IsMap(v) => Fine(v)
    /\ \A a : Fine(ChrOf(a)) /\ Fine(IntOf(a))
    /\ Fine(Null) /\ Fine(MergeKey) /\ Fine(BadAnchor)
<1>1. \A v : IsObject(v) /\ ~IsMap(v) => Fine(v)
  BY DEF Fine, UniqueKeyed
<1>2. /\ \A a : ~IsMap(ChrOf(a)) /\ ~IsMap(IntOf(a))
      /\ ~IsMap(Null) /\ ~IsMap(MergeKey) /\ ~IsMap(BadAnchor)
  BY DEF IsMap, ChrOf, IntOf, Null, MergeKey, BadAnchor, RObject
<1>3. QED
  BY <1>1, <1>2, Atoms

(* The two ways a conversion ends.                                         *)
LEMMA ConvertedValues ==
    /\ \A v : \A m \in PossibleMessages : Fine(v) => Converted(Yields(v, m))
    /\ \A m \in PossibleMessages : Converted(Fails(m)) /\ Converted(InvalidTag(m))
BY DEF Converted, Yields, Fails, InvalidTag, PossibleMessages, Messages

(* What a handler does to the message and to the value.                    *)
LEMMA HandlersConvert ==
    ASSUME HandlersReturnObjects, errorMsg \in PossibleMessages, NEW tag
    PROVE  /\ \A o \in HandlerOutcomes :
                 Fine(o.result) /\ \A m \in PossibleMessages : LeftBy(o, m) \in PossibleMessages
           /\ \A c \in HandlerResults(tag) : Converted(c)
           /\ \A m \in DefaultMessages(tag) : m \in PossibleMessages
<1>1. \A o \in HandlerOutcomes : Fine(o.result)
  BY DEF HandlersReturnObjects, HandlersReturnUniqueKeys, Fine
<1>2. \A o \in HandlerOutcomes : \A m \in PossibleMessages : LeftBy(o, m) \in PossibleMessages
  BY BuilderAssumption DEF LeftBy, PossibleMessages, Messages
<1>3. \A c \in HandlerResults(tag) : Converted(c)
  BY <1>1, <1>2, ConvertedValues DEF HandlerResults
<1>4. \A m \in DefaultMessages(tag) : m \in PossibleMessages
  BY <1>2 DEF DefaultMessages
<1>5. QED
  BY <1>1, <1>2, <1>3, <1>4

(* Scalars are converted to fine objects.                                  *)
LEMMA ScalarsConvert ==
    ASSUME HandlersReturnObjects, errorMsg \in PossibleMessages, NEW s
    PROVE  \A c \in ScalarConversions(s) : Converted(c)
<1>1. ASSUME NEW m \in PossibleMessages
      PROVE  \A c \in Evaluations(s.text, m) : Converted(c)
  <2>1. "Bad expression" \in PossibleMessages
    BY DEF PossibleMessages, Messages
  <2>2. QED
    BY <2>1, HandlersConvert, FineObjects, ConvertedValues DEF Evaluations
<1>2. ASSUME NEW m \in PossibleMessages
      PROVE  \A c \in ScalarDefaults(s, m) : Converted(c)
  BY <1>1, FineObjects, ConvertedValues DEF ScalarDefaults
<1>3. QED
  BY <1>2, HandlersConvert DEF ScalarConversions

(* Every second cell is a key, and the one behind it its value.            *)
LEMMA HalfOf ==
    ASSUME NEW n \in Nat
    PROVE  /\ (n + 1) \div 2 \in Nat
           /\ \A i \in 1..((n + 1) \div 2) : 2 * i - 1 \in 1..n /\ 2 * i \in 1..(n + 1)
OBVIOUS

(* The cells behind a marker are the elements of one set of objects.       *)
CellsAbove(m) == /\ stack \in Seq(ToSet(stack)) /\ m \in DOMAIN stack
                 /\ \A i \in (m + 1)..Len(stack) : Fine(stack[i].obj)

(* What is behind such a marker is a sequence over one set of objects.     *)
LEMMA ChildrenAreObjects ==
    ASSUME NEW m, CellsAbove(m)
    PROVE  /\ Len(Children(m)) \in Nat
           /\ \A i \in 1..Len(Children(m)) : IsObject(Children(m)[i])
           /\ \E U : ObjectSet(U) /\ Children(m) \in Seq(U)
<1> DEFINE n == Len(stack) - m
           s == Children(m)
<1>1. n \in Nat /\ \A i \in 1..n : m + i \in (m + 1)..Len(stack)
  BY DEF CellsAbove
<1>2. s = [i \in 1..n |-> stack[m + i].obj]
  BY DEF Children
<1> HIDE DEF n, s
<1>3. Len(s) = n /\ DOMAIN s = 1..n /\ \A i \in 1..n : s[i] = stack[m + i].obj
  BY <1>1, <1>2
<1>4. \A i \in 1..n : IsObject(s[i])
  BY <1>1, <1>3 DEF CellsAbove, Fine
<1>5. PICK U : ObjectSet(U) /\ \A i \in 1..n : s[i] \in U
  <2> DEFINE I == 1..n
  <2>1. \A i \in I : IsObject(s[i])
    BY <1>4
  <2> HIDE DEF I
  <2>2. \E U : ObjectSet(U) /\ \A i \in I : s[i] \in U
    BY <2>1, Gathered
  <2>3. QED
    BY <2>2 DEF I
<1>6. s \in Seq(U)
  BY <1>1, <1>2, <1>3, <1>5
<1>7. QED
  BY <1>1, <1>3, <1>4, <1>5, <1>6 DEF s

(* So are the keys and values that handle_map reads from them.             *)
LEMMA PairsAreObjects ==
    ASSUME NEW m, CellsAbove(m)
    PROVE  LET pairs == PairsOf(Children(m)) IN
           /\ Len(pairs) \in Nat
           /\ \A i \in 1..Len(pairs) : IsObject(pairs[i].key) /\ IsObject(pairs[i].value)
<1> DEFINE s == Children(m)
           n == Len(s)
           h == (n + 1) \div 2
           pairs == PairsOf(s)
<1>1. n \in Nat /\ \A i \in 1..n : IsObject(s[i])
  BY ChildrenAreObjects
<1> HIDE DEF s
<1>2. pairs = [i \in 1..h |-> [key   |-> s[2 * i - 1],
                               value |-> IF 2 * i <= n THEN s[2 * i] ELSE Null]]
  BY DEF PairsOf
<1> HIDE DEF n, pairs
<1>3. h \in Nat /\ \A i \in 1..h : 2 * i - 1 \in 1..n /\ 2 * i \in 1..(n + 1)
  BY <1>1, HalfOf
<1> HIDE DEF h
<1>4. Len(pairs) = h
  BY <1>2, <1>3
<1>5. ASSUME NEW i \in 1..h
      PROVE  IsObject(pairs[i].key) /\ IsObject(pairs[i].value)
  <2>1. /\ pairs[i].key = s[2 * i - 1]
        /\ pairs[i].value = IF 2 * i <= n THEN s[2 * i] ELSE Null
    BY <1>2
  <2>2. IsObject(s[2 * i - 1])
    BY <1>1, <1>3
  <2>3. 2 * i <= n => IsObject(s[2 * i])
    <3>1. 2 * i <= n => 2 * i \in 1..n
      BY <1>1, <1>3
    <3>2. QED
      BY <1>1, <3>1
  <2>4. QED
    BY <2>1, <2>2, <2>3, Atoms
<1>6. QED
  BY <1>3, <1>4, <1>5 DEF pairs, s

(* Collections are converted to fine objects.                              *)
LEMMA CollectionsConvert ==
    ASSUME HandlersReturnObjects, errorMsg \in PossibleMessages,
           NEW kind, NEW m, CellsAbove(m)
    PROVE  \A c \in CollectionConversions(kind, m) : Converted(c)
<1> DEFINE tag == stack[m].tag
           s == Children(m)
<1>1. m # 0
  BY DEF CellsAbove
<1>2. PICK U : ObjectSet(U) /\ s \in Seq(U)
  BY ChildrenAreObjects
<1>3. /\ \A c \in HandlerResults(tag) : Converted(c)
      /\ \A a \in DefaultMessages(tag) : a \in PossibleMessages
  BY HandlersConvert
<1>4. \A c \in SequenceConversions(m) : Converted(c)
  <2> HIDE DEF s
  <2>1. Fine(Coerced(s)) /\ Fine(List(s))
    <3>1. \A a : ~IsMap(List(a))
      BY DEF IsMap, List, RObject
    <3>2. \A a : ~IsMap(Coerced(a))
      BY <3>1 DEF Coerced, AtomicTypes, RObject, IsMap
    <3>3. QED
      BY <1>2, <3>1, <3>2, ListIsObject, FineObjects
  <2>2. ASSUME NEW a \in PossibleMessages PROVE Converted(OrderedMap(s, a))
    <3> DEFINE v == MapOf(JoinedKeys(s), JoinedValues(s))
    <3>1. "Not maps" \in PossibleMessages /\ "Duplicate omap key" \in PossibleMessages
      BY DEF PossibleMessages, Messages
    <3>2. ASSUME \A i \in DOMAIN s : IsMap(s[i]), IsInjective(JoinedKeys(s))
          PROVE  Fine(v)
      <4>1. IsObject(v)
        BY <1>2, <3>2, JoinedIsObject
      <4>2. UniqueKeyed(v)
        <5>1. v.keys = JoinedKeys(s)
          BY DEF MapOf, RObject
        <5> HIDE DEF v
        <5>2. PICK W : v.keys \in Seq(W)
          BY <4>1 DEF IsObject, ObjectSet
        <5>3. \A i \in DOMAIN v.keys : i \in Nat
          BY <5>2
        <5>4. \A i, j \in DOMAIN v.keys : v.keys[i] = v.keys[j] => i = j
          BY <3>2, <5>1 DEF IsInjective
        <5>5. QED
          BY <5>3, <5>4 DEF UniqueKeyed
      <4>3. QED
        BY <4>1, <4>2 DEF Fine
    <3> HIDE DEF v
    <3>3. \/ OrderedMap(s, a) \in {Fails("Not maps"), Fails("Duplicate omap key")}
          \/ /\ \A i \in DOMAIN s : IsMap(s[i])
             /\ IsInjective(JoinedKeys(s))
             /\ OrderedMap(s, a) = Yields(v, a)
      BY DEF OrderedMap, v
    <3>4. QED
      BY <3>1, <3>2, <3>3, ConvertedValues
  <2>3. ASSUME NEW a \in PossibleMessages
        PROVE  \A c \in SequenceDefaults(tag, s, a) : Converted(c)
    BY <2>1, <2>2, FineObjects, ConvertedValues DEF SequenceDefaults
  <2>4. SequenceConversions(m) = HandlerResults(tag) \cup
           UNION {SequenceDefaults(tag, s, a) : a \in DefaultMessages(tag)}
    BY DEF SequenceConversions, s
  <2> HIDE DEF tag
  <2>5. QED
    BY <1>3, <2>3, <2>4
<1>5. \A c \in MappingConversions(m) : Converted(c)
  <2> DEFINE pairs == PairsOf(s)
             e == AssembleMap(pairs).error
             map == MapValue(AssembleMap(pairs))
  <2>1. /\ Len(pairs) \in Nat
        /\ \A i \in 1..Len(pairs) : IsObject(pairs[i].key) /\ IsObject(pairs[i].value)
    BY PairsAreObjects
  <2>2. MappingConversions(m) =
           IF e # "" THEN {Fails(e)}
           ELSE HandlerResults(tag) \cup
                UNION {MappingDefaults(tag, map, a) : a \in DefaultMessages(tag)}
    BY DEF MappingConversions
  <2> HIDE DEF pairs
  <2>3. /\ e \in MapErrors \ {"Merge override failed"}
        /\ IsObject(map) /\ UniqueKeyed(map)
    BY <2>1, AssembledIsObject
  <2> HIDE DEF e, map, tag, s
  <2>4. Fine(map) /\ e \in PossibleMessages
    BY <2>3 DEF Fine, MapErrors, PossibleMessages, Messages
  <2>5. ASSUME NEW a \in PossibleMessages
        PROVE  \A c \in MappingDefaults(tag, map, a) : Converted(c)
    BY <2>4, FineObjects, ConvertedValues DEF MappingDefaults
  <2>6. CASE e # ""
    <3>1. Converted(Fails(e))
      BY <2>4, ConvertedValues
    <3>2. MappingConversions(m) = {Fails(e)}
      BY <2>2, <2>6
    <3>3. QED
      BY <3>1, <3>2
  <2>7. CASE e = ""
    BY <1>3, <2>2, <2>5, <2>7
  <2>8. QED
    BY <2>6, <2>7
<1>6. QED
  BY <1>1, <1>4, <1>5 DEF CollectionConversions
-----------------------------------------------------------------------------
(* What there is besides the nesting: cells hold markers or fine objects,  *)
(* aliases and the result fine objects, and the message is a possible one. *)
FineCell(c) == /\ c.tag \in SequenceTags \cup MappingTags \cup {""}
               /\ c.anchor \in Anchors \cup {NoAnchor}
               /\ IsMarker(c.obj) \/ Fine(c.obj)

Values == /\ \A i \in DOMAIN stack : FineCell(stack[i])
          /\ \A i \in DOMAIN aliases : /\ aliases[i].name \in Anchors
                                       /\ Fine(aliases[i].obj)
          /\ errorMsg \in PossibleMessages
          /\ done \in BOOLEAN
          /\ outcome \in {"running", "value", "error"}
          /\ Fine(result)

ValuesInv == IInv /\ Values

(* An object is no marker, and none of its parts is one.                   *)
LEMMA ObjectsAreComplete == ASSUME NEW v, IsObject(v) PROVE Complete(v) /\ v.type \in Types
<1>1. PICK U : ObjectSet(U) /\ v \in U
  BY DEF IsObject
<1>2. v.items \in Seq(U) /\ v.keys \in Seq(U) /\ ~IsMarker(v) /\ v.type \in Types
  BY <1>1 DEF ObjectSet
<1>3. \A s \in Seq(U) : \A i \in DOMAIN s : s[i] \in U
  OBVIOUS
<1>4. \A u \in U : ~IsMarker(u)
  BY <1>1 DEF ObjectSet
<1>5. QED
  BY <1>2, <1>3, <1>4 DEF Complete

(* A cell with a value.                                                    *)
LEMMA ValueCells == ASSUME NEW v, Fine(v) PROVE FineCell(Value(v))
BY DEF FineCell, Value, Cell

(* Cells and aliases stay fine when one more is added, and when some of    *)
(* the last are taken away.                                                *)
LEMMA FineAppend ==
    ASSUME NEW s, s \in Seq(ToSet(s)), \A i \in DOMAIN s : FineCell(s[i]),
           NEW c, FineCell(c)
    PROVE  \A i \in DOMAIN Append(s, c) : FineCell(Append(s, c)[i])
BY AppendOwn

(* Taking cells off the top leaves fine cells.                             *)
LEMMA FinePrefix ==
    ASSUME NEW s, s \in Seq(ToSet(s)), \A i \in DOMAIN s : FineCell(s[i]),
           NEW m \in DOMAIN s
    PROVE  \A i \in DOMAIN SubSeq(s, 1, m - 1) : FineCell(SubSeq(s, 1, m - 1)[i])
<1>1. /\ DOMAIN SubSeq(s, 1, m - 1) = 1..(m - 1) /\ DOMAIN s = 1..Len(s) /\ Len(s) \in Nat
      /\ \A i \in 1..(m - 1) : SubSeq(s, 1, m - 1)[i] = s[i]
  OBVIOUS
<1>2. QED
  BY <1>1

(* What handle_alias hands out.                                            *)
LEMMA AliasTargetIsFine ==
    ASSUME Shapes, Values, NEW name
    PROVE  Fine(AliasTarget(name))
<1>1. CASE Bindings(name) = {}
  BY <1>1, FineObjects DEF AliasTarget
<1>2. CASE Bindings(name) # {}
  <2>1. Bindings(name) \subseteq DOMAIN aliases /\ DOMAIN aliases \subseteq Nat
    BY DEF Bindings, Shapes
  <2>2. \E i \in Bindings(name) : \A j \in Bindings(name) : i <= j
    BY <1>2, <2>1, LeastExists
  <2>3. QED
    BY <1>2, <2>1, <2>2 DEF AliasTarget, Values
<1>3. QED
  BY <1>1, <1>2

(* Behind the marker that is found there are only objects.                 *)
LEMMA NoMarkerAbove ==
    ASSUME IInv, Values, ~failed, NEW kind \in {"sequence", "mapping"},
           Parser!CollectionEnd(kind)
    PROVE  CellsAbove(LastMarker(MarkerOf(kind)))
<1> DEFINE m == LastMarker(MarkerOf(kind))
           n == Len(open)
<1>1. PICK f : Placed(stack, open, phase, documents, f)
  BY DEF IInv, Nesting
<1>2. open \in Seq(AllFrames) /\ open # <<>> /\ open[n].kind = kind
  BY FramesAgree DEF IInv, Shapes, Parser!StreamTypeOK, Parser!GrammarTypeOK,
     Parser!CollectionEnd, Parser!CollectionEndEvent, Parser!Uncounted
<1>3. f \in [DOMAIN open -> DOMAIN stack] /\ Mirrors(stack, open, f)
  BY <1>1 DEF Placed
<1>4. /\ stack \in Seq(ToSet(stack)) /\ Len(stack) \in Nat
      /\ DOMAIN stack = 1..Len(stack)
  BY DEF IInv, Shapes
<1>5. m = f[n]
  BY <1>2, <1>3, <1>4, LastMarkerIsInnermost
<1>6. n \in Nat \ {0} /\ DOMAIN open = 1..n
  BY <1>2
<1>7. m \in DOMAIN stack
  BY <1>3, <1>5, <1>6
<1> HIDE DEF m
<1>8. ASSUME NEW i \in (m + 1)..Len(stack) PROVE Fine(stack[i].obj)
  <2>1. i \in DOMAIN stack /\ i > m
    BY <1>4, <1>7
  <2>2. ~IsMarker(stack[i].obj)
    <3>1. SUFFICES ASSUME IsMarker(stack[i].obj) PROVE FALSE
      OBVIOUS
    <3>2. PICK k \in DOMAIN open : f[k] = i
      BY <1>3, <2>1, <3>1 DEF Mirrors
    <3>3. CASE k = n
      BY <1>4, <1>5, <1>7, <2>1, <3>2, <3>3
    <3>4. CASE k < n
      <4>1. f[k] < f[n]
        BY <1>3, <1>6, <3>4 DEF Mirrors
      <4>2. QED
        BY <1>4, <1>5, <1>7, <2>1, <3>2, <4>1
    <3>5. QED
      BY <1>6, <3>3, <3>4
  <2>3. QED
    BY <2>1, <2>2 DEF Values, FineCell
<1>9. QED
  BY <1>4, <1>7, <1>8 DEF CellsAbove, m

(* What the end of the switch does to all that.                            *)
LEMMA ConcludeKeepsValues ==
    ASSUME Shapes, Values, NEW c, Converted(c), ~done, NEW s,
           ~c.fails => \A i \in DOMAIN s : FineCell(s[i]),
           NEW anchor \in Anchors \cup {NoAnchor}, Conclude(c, s, anchor)
    PROVE  Values'
<1>1. /\ errorMsg' \in PossibleMessages /\ done' \in BOOLEAN
      /\ outcome' \in {"running", "value", "error"} /\ Fine(result)'
  <2>1. result' = result /\ outcome' = outcome
    BY DEF Conclude
  <2>2. Fine(result')
    BY <2>1 DEF Values
  <2>3. QED
    BY <2>1, <2>2 DEF Conclude, Converted, Values, Fine
<1>2. \A i \in DOMAIN stack' : FineCell(stack'[i])
  <2>1. stack' = stack \/ (~c.fails /\ stack' = s)
    BY DEF Conclude, Converted
  <2>2. QED
    BY <2>1 DEF Values
<1>3. \A i \in DOMAIN aliases' : aliases'[i].name \in Anchors /\ Fine(aliases'[i].obj)
  <2> DEFINE b == [name |-> anchor, obj |-> c.obj]
  <2>1. CASE aliases' = aliases
    BY <2>1 DEF Values
  <2>2. CASE ~c.fails /\ anchor # NoAnchor /\ aliases' = Append(aliases, b)
    <3>1. b.name \in Anchors /\ Fine(b.obj)
      BY <2>2 DEF Converted
    <3> HIDE DEF b
    <3>2. \A i \in DOMAIN aliases' :
             (i \in DOMAIN aliases /\ aliases'[i] = aliases[i]) \/ aliases'[i] = b
      BY <2>2, AppendOwn DEF Shapes
    <3>3. QED
      BY <3>1, <3>2 DEF Values
  <2>3. QED
    BY <2>1, <2>2 DEF Conclude, Converted, Recorded
<1>4. QED
  BY <1>1, <1>2, <1>3 DEF Values

(* The values stay fine in every step.                                     *)
LEMMA NextValues ==
    ASSUME HandlersReturnObjects, ValuesInv, [Next]_vars
    PROVE  Values'
<1>1. /\ IInv /\ Values /\ Shapes /\ (~done => ~failed)
      /\ stack \in Seq(ToSet(stack))
  BY DEF ValuesInv, IInv, Control, Shapes
<1>2. ASSUME UNCHANGED <<stack, aliases, errorMsg, result>>,
             done' \in BOOLEAN, outcome' \in {"running", "value", "error"}
      PROVE  Values'
  BY <1>1, <1>2 DEF Values
<1>3. CASE SkipEvent
  BY <1>1, <1>2, <1>3 DEF SkipEvent, Values
<1>4. ASSUME NEW name \in Anchors, HandleAlias(name) PROVE Values'
  <2> DEFINE c == Value(AliasTarget(name))
  <2>1. stack' = Append(stack, c) /\ UNCHANGED <<aliases, errorMsg, done, outcome, result>>
    BY <1>4 DEF HandleAlias
  <2>2. FineCell(c)
    BY <1>1, AliasTargetIsFine, ValueCells
  <2> HIDE DEF c
  <2>3. \A i \in DOMAIN stack' : FineCell(stack'[i])
    BY <1>1, <2>1, <2>2, FineAppend DEF Values
  <2>4. QED
    BY <1>1, <2>1, <2>3 DEF Values
<1>5. ASSUME NEW s \in Scalars, NEW anchor \in Anchors \cup {NoAnchor},
             HandleScalar(s, anchor)
      PROVE  Values'
  <2>1. PICK c \in ScalarConversions(s) : Conclude(c, Append(stack, Value(c.obj)), anchor)
    BY <1>5 DEF HandleScalar
  <2>2. Converted(c) /\ ~done
    BY <1>1, <1>5, ScalarsConvert DEF HandleScalar, Values
  <2>3. ~c.fails => \A i \in DOMAIN Append(stack, Value(c.obj)) :
                       FineCell(Append(stack, Value(c.obj))[i])
    <3>1. ASSUME ~c.fails PROVE FineCell(Value(c.obj))
      BY <2>2, <3>1, ValueCells DEF Converted
    <3>2. QED
      BY <1>1, <3>1, FineAppend DEF Values
  <2>4. QED
    BY <1>1, <2>1, <2>2, <2>3, ConcludeKeepsValues
<1>6. ASSUME NEW kind \in {"sequence", "mapping"}, NEW tag \in SequenceTags \cup MappingTags,
             NEW anchor \in Anchors \cup {NoAnchor}, HandleStructureStart(kind, tag, anchor)
      PROVE  Values'
  <2> DEFINE c == Cell(MarkerOf(kind), tag, anchor)
  <2>1. stack' = Append(stack, c) /\ UNCHANGED <<aliases, errorMsg, done, outcome, result>>
    BY <1>6 DEF HandleStructureStart
  <2>2. FineCell(c)
    <3>1. IsMarker(MarkerOf(kind))
      BY DEF MarkerOf, IsMarker
    <3>2. QED
      BY <3>1 DEF FineCell, Cell
  <2> HIDE DEF c
  <2>3. \A i \in DOMAIN stack' : FineCell(stack'[i])
    BY <1>1, <2>1, <2>2, FineAppend DEF Values
  <2>4. QED
    BY <1>1, <2>1, <2>3 DEF Values
<1>7. ASSUME NEW kind \in {"sequence", "mapping"}, HandleCollectionEnd(kind)
      PROVE  Values'
  <2> DEFINE m == LastMarker(MarkerOf(kind))
             h == SubSeq(stack, 1, m - 1)
             anchor == IF m = 0 THEN NoAnchor ELSE stack[m].anchor
  <2>1. PICK c \in CollectionConversions(kind, m) :
           Conclude(c, Append(h, Value(c.obj)), anchor)
    BY <1>7 DEF HandleCollectionEnd
  <2>2. CellsAbove(m) /\ ~done
    BY <1>1, <1>7, NoMarkerAbove DEF HandleCollectionEnd
  <2>3. m \in DOMAIN stack /\ anchor \in Anchors \cup {NoAnchor}
    BY <1>1, <2>2 DEF CellsAbove, Values, FineCell
  <2> HIDE DEF m, anchor
  <2>4. Converted(c)
    BY <1>1, <2>2, CollectionsConvert DEF Values
  <2>5. h \in Seq(ToSet(h)) /\ \A i \in DOMAIN h : FineCell(h[i])
    BY <1>1, <2>3, PrefixOwn, FinePrefix DEF Values
  <2> HIDE DEF h
  <2>6. ~c.fails => \A i \in DOMAIN Append(h, Value(c.obj)) :
                       FineCell(Append(h, Value(c.obj))[i])
    <3>1. ASSUME ~c.fails PROVE FineCell(Value(c.obj))
      BY <2>4, <3>1, ValueCells DEF Converted
    <3>2. QED
      BY <2>5, <3>1, FineAppend
  <2>7. QED
    BY <1>1, <2>1, <2>2, <2>3, <2>4, <2>6, ConcludeKeepsValues
<1>8. CASE HandleStreamEnd
  <2>1. /\ UNCHANGED <<stack, aliases, errorMsg, outcome>> /\ done' = TRUE
        /\ ~failed /\ phase = "stream"
        /\ result' = IF stack = <<>> THEN Null ELSE stack[1].obj
    BY <1>1, <1>8 DEF HandleStreamEnd, Parser!StreamEnd, Parser!StreamEndEvent, Parser!Uncounted
  <2>2. open = <<>>
    BY <1>1, <2>1 DEF IInv, Control
  <2>3. ASSUME stack # <<>> PROVE Fine(stack[1].obj)
    <3>1. 1 \in DOMAIN stack
      BY <1>1, <2>3
    <3>2. PICK f : Placed(stack, open, phase, documents, f)
      BY <1>1, <2>1 DEF IInv, Nesting
    <3>3. ~IsMarker(stack[1].obj)
      BY <2>2, <3>1, <3>2, Empty DEF Placed, Mirrors
    <3>4. QED
      BY <1>1, <3>1, <3>3 DEF Values, FineCell
  <2>4. Fine(result')
    BY <2>1, <2>3, FineObjects
  <2>5. QED
    BY <1>1, <2>1, <2>4 DEF Values
<1>9. CASE HandleParserError
  <2>1. "Parser error" \in PossibleMessages
    BY DEF PossibleMessages, Messages
  <2>2. QED
    BY <1>1, <1>9, <2>1 DEF HandleParserError, Values
<1>10. CASE Return
  BY <1>1, <1>2, <1>10 DEF Return, Values
<1>11. CASE UNCHANGED vars
  BY <1>1, <1>2, <1>11 DEF vars, Values
<1>12. QED
  BY <1>3, <1>4, <1>5, <1>6, <1>7, <1>8, <1>9, <1>10, <1>11 DEF Next

(* With handlers that return objects the invariant always holds.           *)
THEOREM SpecValuesInv ==
    ASSUME HandlersReturnObjects
    PROVE  Spec => []ValuesInv
<1>1. HandlersReturnNoMarker
  <2>1. \A v : IsObject(v) => ~IsMarker(v)
    BY ObjectsAreComplete DEF Complete
  <2>2. QED
    BY <2>1 DEF HandlersReturnObjects, HandlersReturnNoMarker
<1>2. Init => ValuesInv
  <2>1. Init => Values
    <3>1. "" \in PossibleMessages
      BY DEF PossibleMessages, Messages
    <3>2. QED
      BY <3>1, FineObjects, Empty DEF Init, Values
  <2>2. QED
    BY <2>1, InitIInv DEF ValuesInv
<1>3. ValuesInv /\ [Next]_vars => ValuesInv'
  BY <1>1, NextIInv, NextValues DEF ValuesInv
<1>4. QED
  BY <1>2, <1>3, PTL DEF Spec

(* Cells carry a tag, an anchor and an object, aliases a name; the message *)
(* is one of those known.                                                  *)
THEOREM LoopTypes ==
    ASSUME HandlersReturnObjects
    PROVE  Spec => []TypeOK
<1>1. ValuesInv => TypeOK
  <2> SUFFICES ASSUME ValuesInv PROVE TypeOK
    OBVIOUS
  <2>1. \A v : IsMarker(v) => v.type \in Types
    BY DEF IsMarker, SequenceStart, MappingStart, Sym, RObject, Types
  <2>2. \A i \in DOMAIN stack : IsCell(stack[i])
    BY <2>1, ObjectsAreComplete DEF ValuesInv, Values, FineCell, Fine, IsCell
  <2>3. QED
    BY <2>2 DEF ValuesInv, IInv, Shapes, Control, Values, TypeOK, PossibleMessages
<1>2. QED
  BY SpecValuesInv, <1>1, PTL

(* No alias hands out a collection that is still open, no collection       *)
(* swallows the marker of another, and none gets into the result           *)
(* (r_parse.c:113-121, 418-433, 1251).                                     *)
THEOREM MarkersStayOnTheStack ==
    ASSUME HandlersReturnObjects
    PROVE  Spec => []NoMarkerEscapes
<1>1. ValuesInv => NoMarkerEscapes
  BY ObjectsAreComplete DEF ValuesInv, Values, FineCell, Fine, NoMarkerEscapes
<1>2. QED
  BY SpecValuesInv, <1>1, PTL

(* The errors for states that cannot be are never raised: a collection     *)
(* that ends finds its marker, and a merged entry is never found where     *)
(* handle_map_entry searched in vain (r_parse.c:428, 879, 930).            *)
THEOREM InternalErrorsNeverFire ==
    ASSUME HandlersReturnObjects
    PROVE  Spec => []InternalErrorsUnreachable
<1>1. ValuesInv => InternalErrorsUnreachable
  BY DEF ValuesInv, Values, PossibleMessages, InternalErrorsUnreachable
<1>2. QED
  BY SpecValuesInv, <1>1, PTL

(* No map that is loaded has a key twice, whatever is written out, merged  *)
(* or joined, and in whatever order (r_parse.c:563, 682, 752): but for a   *)
(* key without as.named.list whose first entry is not in front of every    *)
(* NULL value (r_parse.c:648), and if no handler returns any other map     *)
(* with a key twice.                                                       *)
THEOREM LoadedMapsHaveUniqueKeys ==
    ASSUME HandlersReturnObjects, HandlersReturnUniqueKeys
    PROVE  Spec => []MapsHaveUniqueKeys
<1>1. ValuesInv => MapsHaveUniqueKeys
  <2> SUFFICES ASSUME ValuesInv, NEW i \in DOMAIN stack
               PROVE  UniqueKeyed(stack[i].obj)
    BY DEF MapsHaveUniqueKeys, UniqueKeyed
  <2>1. IsMarker(stack[i].obj) \/ Fine(stack[i].obj)
    BY DEF ValuesInv, Values, FineCell
  <2>2. \A v : IsMarker(v) => ~IsMap(v)
    BY DEF IsMarker, SequenceStart, MappingStart, Sym, RObject, IsMap
  <2>3. QED
    BY <2>1, <2>2 DEF Fine, UniqueKeyed
<1>2. QED
  BY SpecValuesInv, <1>1, PTL
=============================================================================
