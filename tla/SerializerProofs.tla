--------------------------- MODULE SerializerProofs ---------------------------
(***************************************************************************)
(* Proofs about as.yaml: the text is given out only for a stream that the  *)
(* emitter has written to its end, and an error is raised only for an      *)
(* object that cannot be converted or has an empty tag.                    *)
(*                                                                         *)
(* What emit_object has still to do is read as a stream of events, in      *)
(* which an object that is still to be converted counts as one node, and   *)
(* the elements of a list that are still to be converted as its end.       *)
(***************************************************************************)
EXTENDS Serializer, EmitterProofs, FiniteSetTheorems

CONSTANTS RObjects,    \* the objects that emit_object may meet
          WrittenAs    \* the texts, with their styles, of elements and names

Lists == {o \in RObjects : o.type = "list"}
Functions == {DeparsedFunction(o) : o \in RObjects}

IsSequence(s) == \E S : s \in Seq(S)

(* An attribute that is taken for a tag is one text.                       *)
NodeTags == {{}} \cup {{tag} : tag \in Seq(TagAlphabet)}
OmapTag == {<<"T">> \o Chars("omap")}

(* Objects are made of objects: the elements of lists, what handlers give  *)
(* (see SerializerSpec), and the cells of a data frame, which has names.   *)
ObjectsAreTyped ==
    /\ "T" \in TagAlphabet
    /\ Chars("omap") \in Seq(TagAlphabet) /\ Chars("!expr") \in Seq(TagAlphabet)
    /\ \A o \in RObjects : /\ IsSequence(o.items) /\ IsSequence(o.classes)
                           /\ IsFiniteSet(o.tag) /\ o.tag \subseteq Seq(TagAlphabet)
    /\ \A o \in Lists :
          /\ o.items \in Seq(RObjects)
          /\ HasClass(o, "data.frame") /\ o.items # <<>> =>
                /\ Given(o.names)
                /\ \A j \in DOMAIN o.items, i \in DOMAIN o.items[1].items :
                      Yoink(o.items[j], i) \in RObjects

(* WrittenAs holds the texts of all elements and names.                    *)
TextsAreKnown ==
    /\ Written(<<"~">>, "any") \in WrittenAs
    /\ \A o \in RObjects \cup Functions :
          o.type \in AtomicTypes =>
              \A i \in DOMAIN o.items : WrittenElements(o)[i] \in WrittenAs
    /\ \A o \in Lists :
          Given(o.names) =>
              \A i \in DOMAIN o.items :
                  Written(ValueOf(o.names)[i], StringStyle(ValueOf(o.names)[i])) \in WrittenAs

(* The events of as.yaml, for nodes with tags of T.                        *)
Marks == {Simple(type) : type \in {"STREAM-START", "STREAM-END", "SEQUENCE-END", "MAPPING-END"}}
         \cup {DocumentStart({}, <<>>, TRUE), DocumentEnd(TRUE)}
ScalarsWith(T) == {Scalar(w.text, w.style, {}, tag, tag = {}, tag = {}) :
                      w \in WrittenAs, tag \in T}
StartsWith(T) == {Collection(type, "any", {}, tag, tag = {}) :
                     type \in {"SEQUENCE-START", "MAPPING-START"}, tag \in T}
EventsWith(T) == Marks \cup ScalarsWith(T) \cup StartsWith(T)

CallerIsAsYaml == /\ CallerEvents = EventsWith(NodeTags)
                  /\ TagDirectives = {}

(* What may be to do.                                                      *)
Items(T) == {Event(e) : e \in EventsWith(T)} \cup {Convert(o) : o \in RObjects}
            \cup {Elements(o) : o \in Lists} \cup {EndOfElements}

(* What it counts as.                                                      *)
ShapeOf(x) == IF x.do = "event" THEN x.event.type
              ELSE IF x.do = "object" THEN "SCALAR" ELSE "SEQUENCE-END"
Shape(s) == [i \in DOMAIN s |-> [type |-> ShapeOf(s[i])]]

-----------------------------------------------------------------------------
(* Parts of a stream.  Leads looks at the types of events only.            *)
LEMMA LeadsSame ==
    ASSUME NEW q, NEW r, Len(q) = Len(r), \A k \in 1..Len(q) : q[k].type = r[k].type,
           NEW p, NEW o, NEW p2, NEW o2, Leads(q, p, o, p2, o2)
    PROVE  Leads(r, p, o, p2, o2)
  BY DEF Leads

(* Two parts in a row.                                                     *)
LEMMA LeadsJoin ==
    ASSUME NEW S, NEW q \in Seq(S), NEW r \in Seq(S),
           NEW p, NEW o, NEW p1, NEW o1, NEW p2, NEW o2,
           Leads(q, p, o, p1, o1), Leads(r, p1, o1, p2, o2)
    PROVE  Leads(q \o r, p, o, p2, o2)
<1> DEFINE m == Len(q)
           n == Len(r)
           t == q \o r
<1>1. PICK ps, os :
        /\ ps[0] = p /\ os[0] = o /\ ps[m] = p1 /\ os[m] = o1
        /\ \A k \in 1..m : Produced(q[k].type, ps[k - 1], ps[k], os[k - 1], os[k])
  BY DEF Leads
<1>2. PICK pt, ot :
        /\ pt[0] = p1 /\ ot[0] = o1 /\ pt[n] = p2 /\ ot[n] = o2
        /\ \A k \in 1..n : Produced(r[k].type, pt[k - 1], pt[k], ot[k - 1], ot[k])
  BY DEF Leads
<1>3. /\ m \in Nat /\ n \in Nat /\ Len(t) = m + n
      /\ \A k \in 1..m : t[k] = q[k]
      /\ \A k \in 1..n : t[m + k] = r[k]
  BY Concatenation
<1> HIDE DEF m, n, t
<1> DEFINE pa == [k \in 0..(m + n) |-> IF k <= m THEN ps[k] ELSE pt[k - m]]
           oa == [k \in 0..(m + n) |-> IF k <= m THEN os[k] ELSE ot[k - m]]
<1>4. /\ \A k \in 0..m : pa[k] = ps[k] /\ oa[k] = os[k]
      /\ \A k \in 0..n : pa[m + k] = pt[k] /\ oa[m + k] = ot[k]
  <2>1. ASSUME NEW k \in 0..m PROVE pa[k] = ps[k] /\ oa[k] = os[k]
    BY <1>3
  <2>2. ASSUME NEW k \in 0..n PROVE pa[m + k] = pt[k] /\ oa[m + k] = ot[k]
    <3>1. m + k \in 0..(m + n) /\ (m + k) - m = k
      BY <1>3
    <3>2. CASE k = 0
      <4>1. m + k = m /\ m \in 0..m
        BY <1>3, <3>2
      <4>2. QED
        BY <1>1, <1>2, <2>1, <3>2, <4>1
    <3>3. CASE k # 0
      <4>1. ~(m + k <= m)
        BY <1>3, <3>3
      <4>2. QED
        BY <3>1, <4>1
    <3>4. QED
      BY <3>2, <3>3
  <2>3. QED
    BY <2>1, <2>2
<1> HIDE DEF pa, oa
<1>5. pa[0] = p /\ oa[0] = o
  <2>1. 0 \in 0..m
    BY <1>3
  <2>2. QED
    BY <1>1, <1>4, <2>1
<1>6. pa[m + n] = p2 /\ oa[m + n] = o2
  <2>1. n \in 0..n
    BY <1>3
  <2>2. QED
    BY <1>2, <1>4, <2>1
<1>7. ASSUME NEW k \in 1..(m + n)
      PROVE  Produced(t[k].type, pa[k - 1], pa[k], oa[k - 1], oa[k])
  <2>1. CASE k <= m
    <3>1. k \in 1..m /\ k \in 0..m /\ k - 1 \in 0..m
      BY <1>3, <2>1
    <3>2. QED
      BY <1>1, <1>3, <1>4, <3>1
  <2>2. CASE k > m
    <3>1. PICK j : j = k - m
      OBVIOUS
    <3>2. /\ j \in 1..n /\ j \in 0..n /\ j - 1 \in 0..n
          /\ k = m + j /\ k - 1 = m + (j - 1)
      BY <1>3, <2>2, <3>1
    <3>3. Produced(r[j].type, pt[j - 1], pt[j], ot[j - 1], ot[j])
      BY <1>2, <3>2
    <3>4. /\ t[k] = r[j] /\ pa[k] = pt[j] /\ oa[k] = ot[j]
          /\ pa[k - 1] = pt[j - 1] /\ oa[k - 1] = ot[j - 1]
      BY <1>3, <1>4, <3>2
    <3>5. QED
      BY <3>3, <3>4
  <2>3. QED
    BY <1>3, <2>1, <2>2
<1>8. QED
  BY <1>3, <1>5, <1>6, <1>7 DEF Leads, t

(* What is done first, and the rest.                                       *)
LEMMA ShapeIsSequence ==
    ASSUME NEW S, NEW s \in Seq(S)
    PROVE  /\ Shape(s) \in Seq({[type |-> ShapeOf(x)] : x \in S}) /\ Len(Shape(s)) = Len(s)
           /\ \A k \in 1..Len(s) : Shape(s)[k].type = ShapeOf(s[k])
<1>1. DOMAIN s = 1..Len(s) /\ Len(s) \in Nat
  OBVIOUS
<1>2. \A k \in 1..Len(s) : s[k] \in S
  OBVIOUS
<1>3. Shape(s) = [k \in 1..Len(s) |-> [type |-> ShapeOf(s[k])]]
  BY <1>1 DEF Shape
<1>4. QED
  BY <1>1, <1>2, <1>3

(* A part of what is to do, and where in the grammar it leads.             *)
Segment(T, s, p, o, p2, o2) == s \in Seq(Items(T)) /\ Leads(Shape(s), p, o, p2, o2)

LEMMA EmptySegment == \A T, p, o : Segment(T, <<>>, p, o, p, o)
<1> TAKE T, p, o
<1>1. <<>> \in Seq(Items(T)) /\ Len(<<>>) = 0
  OBVIOUS
<1>2. Len(Shape(<<>>)) = Len(<<>>)
  BY <1>1, ShapeIsSequence
<1>3. Leads(<<>>, p, o, p, o)
  BY LeadsNowhere
<1>4. Leads(Shape(<<>>), p, o, p, o)
  BY <1>1, <1>2, <1>3 DEF Leads
<1>5. QED
  BY <1>1, <1>4 DEF Segment

LEMMA OneSegment ==
    ASSUME NEW T, NEW x \in Items(T), NEW p, NEW o, NEW p2, NEW o2,
           Produced(ShapeOf(x), p, p2, o, o2)
    PROVE  Segment(T, <<x>>, p, o, p2, o2)
<1>1. <<x>> \in Seq(Items(T)) /\ Len(<<x>>) = 1 /\ <<x>>[1] = x
  OBVIOUS
<1>2. Len(Shape(<<x>>)) = 1 /\ Shape(<<x>>)[1].type = ShapeOf(x)
  <2>1. PICK s : s = <<x>>
    OBVIOUS
  <2>2. s \in Seq(Items(T)) /\ Len(s) = 1 /\ s[1] = x /\ 1 \in 1..Len(s)
    BY <1>1, <2>1
  <2>3. Len(Shape(s)) = 1 /\ Shape(s)[1].type = ShapeOf(s[1])
    BY <2>2, ShapeIsSequence
  <2>4. QED
    BY <2>1, <2>2, <2>3
<1> DEFINE ps == [k \in 0..1 |-> IF k = 0 THEN p ELSE p2]
           os == [k \in 0..1 |-> IF k = 0 THEN o ELSE o2]
<1>3. ps[0] = p /\ os[0] = o /\ ps[1] = p2 /\ os[1] = o2 /\ 1..1 = {1} /\ 1 - 1 = 0
  OBVIOUS
<1> HIDE DEF ps, os
<1>4. Leads(Shape(<<x>>), p, o, p2, o2)
  BY <1>2, <1>3 DEF Leads
<1>5. QED
  BY <1>1, <1>4 DEF Segment

LEMMA JoinedSegments ==
    ASSUME NEW T, NEW s, NEW t, NEW p, NEW o, NEW p1, NEW o1, NEW p2, NEW o2,
           Segment(T, s, p, o, p1, o1), Segment(T, t, p1, o1, p2, o2)
    PROVE  Segment(T, s \o t, p, o, p2, o2)
<1>1. s \in Seq(Items(T)) /\ t \in Seq(Items(T))
  BY DEF Segment
<1>2. /\ s \o t \in Seq(Items(T)) /\ Len(s \o t) = Len(s) + Len(t)
      /\ \A k \in 1..Len(s) : (s \o t)[k] = s[k]
      /\ \A k \in 1..Len(t) : (s \o t)[Len(s) + k] = t[k]
      /\ Len(s) \in Nat /\ Len(t) \in Nat
  BY <1>1, Concatenation
<1> DEFINE R == {[type |-> ShapeOf(x)] : x \in Items(T)}
           a == Shape(s)
           b == Shape(t)
           c == Shape(s \o t)
<1>3. /\ a \in Seq(R) /\ Len(a) = Len(s) /\ \A k \in 1..Len(s) : a[k].type = ShapeOf(s[k])
      /\ b \in Seq(R) /\ Len(b) = Len(t) /\ \A k \in 1..Len(t) : b[k].type = ShapeOf(t[k])
      /\ Len(c) = Len(s \o t) /\ \A k \in 1..Len(s \o t) : c[k].type = ShapeOf((s \o t)[k])
  BY <1>1, <1>2, ShapeIsSequence
<1>4. Leads(a, p, o, p1, o1) /\ Leads(b, p1, o1, p2, o2)
  BY DEF Segment
<1> HIDE DEF R, a, b, c
<1>5. Leads(a \o b, p, o, p2, o2)
  BY <1>3, <1>4, LeadsJoin
<1>6. /\ Len(a \o b) = Len(a) + Len(b)
      /\ \A k \in 1..Len(a) : (a \o b)[k] = a[k]
      /\ \A k \in 1..Len(b) : (a \o b)[Len(a) + k] = b[k]
  <2>1. a \in Seq(R) /\ b \in Seq(R)
    BY <1>3
  <2>2. QED
    BY <2>1, Concatenation
<1>7. ASSUME NEW k \in 1..Len(a \o b) PROVE (a \o b)[k].type = c[k].type
  <2>1. k \in 1..(Len(s) + Len(t))
    BY <1>3, <1>6
  <2>2. CASE k \in 1..Len(s)
    BY <1>2, <1>3, <1>6, <2>1, <2>2
  <2>3. CASE k \notin 1..Len(s)
    <3>1. PICK j : j = k - Len(s)
      OBVIOUS
    <3>2. j \in 1..Len(t) /\ k = Len(s) + j
      BY <1>2, <2>1, <2>3, <3>1
    <3>3. QED
      BY <1>2, <1>3, <1>6, <2>1, <3>2
  <2>4. QED
    BY <2>2, <2>3
<1>8. Leads(c, p, o, p2, o2)
  <2>1. Len(a \o b) = Len(c)
    BY <1>2, <1>3, <1>6
  <2>2. QED
    BY <1>5, <1>7, <2>1, LeadsSame
<1>9. QED
  BY <1>2, <1>8 DEF Segment, c

(* The first item of a segment, and the rest.                              *)
LEMMA SegmentBehind ==
    ASSUME NEW T, NEW s, s # <<>>, NEW p, NEW o, NEW p2, NEW o2, Segment(T, s, p, o, p2, o2)
    PROVE  \E p1, o1 : /\ Produced(ShapeOf(s[1]), p, p1, o, o1)
                       /\ Segment(T, Tail(s), p1, o1, p2, o2)
<1>1. s \in Seq(Items(T)) /\ Leads(Shape(s), p, o, p2, o2)
  BY DEF Segment
<1>2. /\ Tail(s) \in Seq(Items(T)) /\ Len(s) \in Nat \ {0} /\ Len(Tail(s)) = Len(s) - 1
      /\ \A k \in 1..(Len(s) - 1) : Tail(s)[k] = s[k + 1]
  BY <1>1
<1> DEFINE R == {[type |-> ShapeOf(x)] : x \in Items(T)}
           a == Shape(s)
           c == Shape(Tail(s))
<1>3. /\ a \in Seq(R) /\ Len(a) = Len(s) /\ \A k \in 1..Len(s) : a[k].type = ShapeOf(s[k])
      /\ Len(c) = Len(Tail(s)) /\ \A k \in 1..Len(Tail(s)) : c[k].type = ShapeOf(Tail(s)[k])
  BY <1>1, <1>2, ShapeIsSequence
<1>4. Leads(a, p, o, p2, o2)
  BY <1>1
<1> HIDE DEF R, a, c
<1>5. a # <<>> /\ a[1].type = ShapeOf(s[1])
  BY <1>2, <1>3
<1>6. PICK p1, o1 : Produced(a[1].type, p, p1, o, o1) /\ Leads(Tail(a), p1, o1, p2, o2)
  BY <1>3, <1>4, <1>5, LeadsBehind
<1>7. /\ Len(Tail(a)) = Len(a) - 1
      /\ \A k \in 1..(Len(a) - 1) : Tail(a)[k] = a[k + 1]
  BY <1>3, <1>5
<1>8. Leads(c, p1, o1, p2, o2)
  <2>1. Len(Tail(a)) = Len(c)
    BY <1>2, <1>3, <1>7
  <2>2. ASSUME NEW k \in 1..Len(Tail(a)) PROVE Tail(a)[k].type = c[k].type
    <3>1. k \in 1..(Len(s) - 1) /\ k + 1 \in 1..Len(s)
      BY <1>2, <1>3, <1>7
    <3>2. QED
      BY <1>2, <1>3, <1>7, <3>1
  <2>3. QED
    BY <1>6, <2>1, <2>2, LeadsSame
<1>9. QED
  BY <1>2, <1>5, <1>6, <1>8 DEF Segment, c

(* The same over and over.                                                 *)
LEMMA RepeatedSegments ==
    ASSUME NEW T, NEW p, NEW o, NEW q, NEW n \in Nat, n = Len(q), DOMAIN q = 1..n,
           q = [i \in 1..n |-> q[i]],
           \A i \in 1..n : Segment(T, q[i], p, o, p, o)
    PROVE  Segment(T, FlattenSeq(q), p, o, p, o)
<1> DEFINE S == Items(T)
<1>1. q \in Seq(Seq(S))
  <2>1. \A i \in 1..n : q[i] \in Seq(S)
    BY DEF Segment
  <2>2. [i \in 1..n |-> q[i]] \in [1..n -> Seq(S)]
    BY <2>1
  <2>3. \A f \in [1..n -> Seq(S)] : f \in Seq(Seq(S))
    <3> HIDE DEF S
    <3> QED OBVIOUS
  <2>4. QED
    BY <2>2, <2>3
<1>2. CASE n = 0
  <2>1. FlattenSeq(q) = <<>>
    <3>1. q = <<>>
      BY <1>1, <1>2
    <3>2. FlattenSeq(<<>>) = <<>>
      BY DEF FlattenSeq
    <3>3. QED
      BY <3>1, <3>2
  <2>2. QED
    BY <2>1, EmptySegment
<1>3. CASE n # 0
  <2> HIDE DEF S
  <2>1. q # <<>>
    BY <1>1, <1>3
  <2>2. PICK f : Flattens(f, q, S)
    BY <1>1, <2>1, Flattened
  <2>3. /\ FlattenSeq(q) = f[n] /\ f[1] = q[1]
        /\ \A i \in 2..n : f[i] = f[i - 1] \o q[i]
    BY <2>2 DEF Flattens
  <2> DEFINE G == {i \in 0..n : i = 0 \/ Segment(T, f[i], p, o, p, o)}
  <2>4. 0 \in G
    OBVIOUS
  <2>5. ASSUME NEW i \in 0..(n - 1), i \in G PROVE i + 1 \in G
    <3>1. i + 1 \in 1..n /\ Segment(T, q[i + 1], p, o, p, o)
      <4>1. i + 1 \in 1..n
        BY <1>3
      <4>2. QED
        BY <4>1
    <3>2. CASE i = 0
      BY <2>3, <3>1, <3>2
    <3>3. CASE i # 0
      <4>1. i + 1 \in 2..n /\ (i + 1) - 1 = i /\ Segment(T, f[i], p, o, p, o)
        BY <2>5, <3>3
      <4>2. f[i + 1] = f[i] \o q[i + 1]
        BY <2>3, <4>1
      <4>3. Segment(T, f[i + 1], p, o, p, o)
        BY <3>1, <4>1, <4>2, JoinedSegments
      <4>4. QED
        BY <3>1, <4>3
    <3>4. QED
      BY <3>2, <3>3
  <2>6. n \in G
    <3> HIDE DEF G
    <3>1. \A i \in 0..n : i \in G
      BY <2>4, <2>5, UpTo
    <3>2. QED
      BY <3>1
  <2>7. QED
    BY <1>3, <2>3, <2>6
<1>4. QED
  BY <1>2, <1>3

-----------------------------------------------------------------------------
(* Nodes: what may stand wherever the grammar has a scalar.                *)
BehindNode(o) == IF o = <<>> THEN "root" ELSE "document"

Node(T, s) == \A o \in Seq(AllFrames) :
                  Segment(T, s, "document", o, BehindNode(o), CountedOf(o))

(* The body of a collection.                                               *)
Body(T, kind, s) == \A c \in Seq(AllFrames) :
    Segment(T, s, "document", Append(c, Frame(kind)), "document", Append(c, Frame(kind)))

StartOf(kind) == IF kind = "sequence" THEN "SEQUENCE-START" ELSE "MAPPING-START"
EndOf(kind)   == IF kind = "sequence" THEN "SEQUENCE-END" ELSE "MAPPING-END"

LEMMA LeafIsNode ==
    ASSUME NEW T, NEW x \in Items(T), ShapeOf(x) = "SCALAR" PROVE Node(T, <<x>>)
<1>1. ASSUME NEW o \in Seq(AllFrames)
      PROVE  Produced("SCALAR", "document", BehindNode(o), o, CountedOf(o))
  BY DEF Produced, BehindNode
<1>2. QED
  BY <1>1, OneSegment DEF Node

(* What a node makes of the collection it is in.                           *)
LEMMA CountedIsTyped ==
    ASSUME NEW o \in Seq(AllFrames)
    PROVE  CountedOf(o) \in Seq(AllFrames) /\ Len(CountedOf(o)) = Len(o)
<1>1. CASE o = <<>>
  BY <1>1 DEF CountedOf
<1>2. CASE o # <<>>
  BY <1>2, CountedShape
<1>3. QED
  BY <1>1, <1>2

LEMMA CountedInside ==
    ASSUME NEW c \in Seq(AllFrames)
    PROVE  /\ CountedOf(Append(c, Frame("sequence"))) = Append(c, Frame("sequence"))
           /\ CountedOf(CountedOf(Append(c, Frame("mapping")))) = Append(c, Frame("mapping"))
<1> DEFINE Inside(kind, odd) == Append(c, [kind |-> kind, odd |-> odd])
<1>1. ASSUME NEW kind \in {"sequence", "mapping"}, NEW odd \in BOOLEAN,
             NEW o, o = Inside(kind, odd),
             NEW d, d = Inside(kind, kind = "mapping" /\ ~odd)
      PROVE  CountedOf(o) = d
  <2> DEFINE n == Len(c)
             e == [kind |-> kind, odd |-> odd]
             e2 == [kind |-> kind, odd |-> (kind = "mapping" /\ ~odd)]
  <2>1. /\ e \in AllFrames /\ e2 \in AllFrames
        /\ e.kind = kind /\ e.odd = odd /\ e2.kind = kind /\ e2.odd = (kind = "mapping" /\ ~odd)
    BY DEF AllFrames
  <2>2. o = Append(c, e) /\ d = Append(c, e2)
    BY <1>1
  <2> HIDE DEF e, e2
  <2>3. /\ o \in Seq(AllFrames) /\ o # <<>> /\ Len(o) = n + 1 /\ o[n + 1] = e
        /\ d \in Seq(AllFrames) /\ Len(d) = n + 1 /\ d[n + 1] = e2
        /\ \A i \in 1..n : o[i] = c[i] /\ d[i] = c[i]
        /\ n \in Nat
    BY <2>1, <2>2, Appended
  <2> DEFINE x == CountedOf(o)
  <2>4. /\ x \in Seq(AllFrames) /\ Len(x) = n + 1
        /\ \A i \in 1..n : x[i] = o[i]
        /\ x[n + 1].kind = kind /\ x[n + 1].odd = (kind = "mapping" /\ ~odd)
    <3>1. /\ CountedOf(o) \in Seq(AllFrames) /\ Len(CountedOf(o)) = Len(o)
          /\ \A i \in 1..(Len(o) - 1) : CountedOf(o)[i] = o[i]
          /\ CountedOf(o)[Len(o)].kind = o[Len(o)].kind
          /\ CountedOf(o)[Len(o)].odd = (o[Len(o)].kind = "mapping" /\ ~o[Len(o)].odd)
      BY <2>3, CountedShape
    <3>2. Len(o) - 1 = n /\ o[Len(o)] = e
      BY <2>3
    <3> HIDE DEF n
    <3>3. QED
      BY <2>1, <2>3, <3>1, <3>2
  <2> HIDE DEF x, n
  <2>5. x[n + 1] \in AllFrames
    BY <2>3, <2>4
  <2>6. x[n + 1] = e2
    BY <2>1, <2>4, <2>5 DEF AllFrames
  <2>7. \A i \in 1..(n + 1) : x[i] = d[i]
    <3> TAKE i \in 1..(n + 1)
    <3>1. i \in 1..n \/ i = n + 1
      BY <2>3
    <3>2. QED
      BY <2>3, <2>4, <2>6, <3>1
  <2>8. x = d
    BY <2>3, <2>4, <2>7, SameSequence
  <2>9. QED
    BY <2>8 DEF x
<1>2. \A kind : Append(c, Frame(kind)) = Inside(kind, FALSE)
  BY DEF Frame
<1> HIDE DEF Inside
<1>3. \A kind \in {"sequence", "mapping"}, odd \in BOOLEAN :
         CountedOf(Inside(kind, odd)) = Inside(kind, kind = "mapping" /\ ~odd)
  <2> TAKE kind \in {"sequence", "mapping"}, odd \in BOOLEAN
  <2>1. PICK o, d : o = Inside(kind, odd) /\ d = Inside(kind, kind = "mapping" /\ ~odd)
    OBVIOUS
  <2>2. CountedOf(o) = d
    BY <1>1, <2>1
  <2>3. QED
    BY <2>1, <2>2
<1>4. CountedOf(Inside("sequence", FALSE)) = Inside("sequence", FALSE)
  <2>1. ("sequence" = "mapping" /\ ~FALSE) = FALSE
    OBVIOUS
  <2>2. QED
    BY <1>3, <2>1
<1>5. CountedOf(Inside("mapping", FALSE)) = Inside("mapping", TRUE)
  <2>1. ("mapping" = "mapping" /\ ~FALSE) = TRUE
    OBVIOUS
  <2>2. QED
    BY <1>3, <2>1
<1>6. CountedOf(Inside("mapping", TRUE)) = Inside("mapping", FALSE)
  <2>1. ("mapping" = "mapping" /\ ~TRUE) = FALSE
    OBVIOUS
  <2>2. QED
    BY <1>3, <2>1
<1>7. QED
  BY <1>2, <1>4, <1>5, <1>6

(* An open collection.                                                     *)
LEMMA OpenCollection ==
    ASSUME NEW c \in Seq(AllFrames), NEW kind \in {"sequence", "mapping"},
           NEW o, o = Append(c, Frame(kind))
    PROVE  /\ o \in Seq(AllFrames) /\ o # <<>> /\ Len(o) = Len(c) + 1
           /\ o[Len(o)] = Frame(kind)
           /\ SubSeq(o, 1, Len(o) - 1) = c
<1>1. Frame(kind) \in AllFrames
  BY DEF Frame, AllFrames
<1>2. /\ o \in Seq(AllFrames) /\ o # <<>> /\ Len(o) = Len(c) + 1
      /\ \A i \in 1..Len(c) : o[i] = c[i]
      /\ o[Len(c) + 1] = Frame(kind)
  BY <1>1, Appended
<1>3. /\ SubSeq(o, 1, Len(o) - 1) \in Seq(AllFrames)
      /\ Len(SubSeq(o, 1, Len(o) - 1)) = Len(o) - 1
      /\ \A k \in 1..(Len(o) - 1) : SubSeq(o, 1, Len(o) - 1)[k] = o[k]
  BY <1>2, AllButLast
<1>4. SubSeq(o, 1, Len(o) - 1) = c
  <2>1. Len(o) - 1 = Len(c)
    BY <1>2
  <2>2. QED
    BY <1>2, <1>3, <2>1, SameSequence
<1>5. QED
  BY <1>2, <1>4

LEMMA NodeInSequence == ASSUME NEW T, NEW s, Node(T, s) PROVE Body(T, "sequence", s)
<1> SUFFICES ASSUME NEW c \in Seq(AllFrames), NEW o, o = Append(c, Frame("sequence"))
             PROVE  Segment(T, s, "document", o, "document", o)
  BY DEF Body
<1>1. o \in Seq(AllFrames) /\ o # <<>> /\ CountedOf(o) = o
  BY OpenCollection, CountedInside
<1>2. QED
  BY <1>1 DEF Node, BehindNode

LEMMA PairInMapping ==
    ASSUME NEW T, NEW s, NEW t, Node(T, s), Node(T, t) PROVE Body(T, "mapping", s \o t)
<1> SUFFICES ASSUME NEW c \in Seq(AllFrames), NEW o, o = Append(c, Frame("mapping"))
             PROVE  Segment(T, s \o t, "document", o, "document", o)
  BY DEF Body
<1> DEFINE d == CountedOf(o)
<1>1. o \in Seq(AllFrames) /\ o # <<>> /\ CountedOf(d) = o
  <2>1. CountedOf(CountedOf(o)) = o
    BY CountedInside
  <2>2. QED
    BY <2>1, OpenCollection
<1>2. d \in Seq(AllFrames) /\ d # <<>>
  <2>1. CountedOf(o) \in Seq(AllFrames) /\ Len(CountedOf(o)) = Len(o)
    BY <1>1, CountedIsTyped
  <2>2. Len(o) # 0 /\ Len(<<>>) = 0
    BY <1>1
  <2>3. QED
    BY <2>1, <2>2
<1>3. Segment(T, s, "document", o, "document", d)
  BY <1>1 DEF Node, BehindNode
<1>4. Segment(T, t, "document", d, "document", o)
  BY <1>1, <1>2 DEF Node, BehindNode
<1>5. QED
  BY <1>3, <1>4, JoinedSegments

(* A collection whose body keeps inside of it is a node.                   *)
LEMMA CollectionIsNode ==
    ASSUME NEW T, NEW kind \in {"sequence", "mapping"}, NEW x \in Items(T), NEW y \in Items(T),
           ShapeOf(x) = StartOf(kind), ShapeOf(y) = EndOf(kind), NEW s, Body(T, kind, s)
    PROVE  Node(T, (<<x>> \o s) \o <<y>>)
<1> SUFFICES ASSUME NEW o \in Seq(AllFrames)
             PROVE  Segment(T, (<<x>> \o s) \o <<y>>, "document", o, BehindNode(o), CountedOf(o))
  BY DEF Node
<1> DEFINE c == CountedOf(o)
           i == Append(c, Frame(kind))
<1>1. c \in Seq(AllFrames) /\ Len(c) = Len(o)
  BY CountedIsTyped
<1>2. /\ i \in Seq(AllFrames) /\ i # <<>> /\ Len(i) = Len(c) + 1
      /\ i[Len(i)] = Frame(kind) /\ SubSeq(i, 1, Len(i) - 1) = c
  BY <1>1, OpenCollection
<1>3. Segment(T, <<x>>, "document", o, "document", i)
  <2>1. Produced(ShapeOf(x), "document", "document", o, i)
    BY DEF Produced, StartOf
  <2>2. QED
    BY <2>1, OneSegment
<1>4. Segment(T, s, "document", i, "document", i)
  BY <1>1 DEF Body
<1>5. Segment(T, <<y>>, "document", i, BehindNode(o), c)
  <2>1. BehindNode(o) = IF Len(i) = 1 THEN "root" ELSE "document"
    <3>1. Len(i) = 1 <=> o = <<>>
      BY <1>1, <1>2
    <3>2. QED
      BY <3>1 DEF BehindNode
  <2>2. Frame(kind).kind = kind /\ Frame(kind).odd = FALSE
    BY DEF Frame
  <2> HIDE DEF c, i
  <2>3. Produced(ShapeOf(y), "document", BehindNode(o), i, c)
    BY <1>2, <2>1, <2>2 DEF Produced, EndOf
  <2>4. QED
    BY <2>3, OneSegment
<1> HIDE DEF c, i
<1>6. Segment(T, <<x>> \o s, "document", o, "document", i)
  BY <1>3, <1>4, JoinedSegments
<1>7. QED
  BY <1>5, <1>6, JoinedSegments DEF c

(* The body of a collection, from parts of it.                             *)
LEMMA RepeatedBody ==
    ASSUME NEW T, NEW kind, NEW n \in Nat, NEW q, q = [i \in 1..n |-> q[i]], n = Len(q),
           \A i \in 1..n : Body(T, kind, q[i])
    PROVE  Body(T, kind, FlattenSeq(q))
<1>1. DOMAIN q = 1..n
  OBVIOUS
<1>2. ASSUME NEW o, \A i \in 1..n : Segment(T, q[i], "document", o, "document", o)
      PROVE  Segment(T, FlattenSeq(q), "document", o, "document", o)
  BY <1>1, <1>2, RepeatedSegments
<1>3. QED
  BY <1>2 DEF Body

LEMMA LeavesInSequence ==
    ASSUME NEW T, NEW n \in Nat, NEW s, s = [k \in 1..n |-> s[k]],
           \A k \in 1..n : s[k] \in Items(T) /\ ShapeOf(s[k]) = "SCALAR"
    PROVE  Body(T, "sequence", s)
<1> SUFFICES ASSUME NEW c \in Seq(AllFrames), NEW o, o = Append(c, Frame("sequence"))
             PROVE  Segment(T, s, "document", o, "document", o)
  BY DEF Body
<1>1. o \in Seq(AllFrames) /\ o # <<>> /\ CountedOf(o) = o
  BY OpenCollection, CountedInside
<1>2. s \in Seq(Items(T)) /\ Len(s) = n
  <2>1. [k \in 1..n |-> s[k]] \in [1..n -> Items(T)]
    OBVIOUS
  <2>2. \A f \in [1..n -> Items(T)] : f \in Seq(Items(T)) /\ Len(f) = n
    OBVIOUS
  <2>3. QED
    BY <2>1, <2>2
<1>3. Len(Shape(s)) = n /\ \A k \in 1..n : Shape(s)[k].type = "SCALAR"
  BY <1>2, ShapeIsSequence
<1>4. Produced("SCALAR", "document", "document", o, o)
  BY <1>1 DEF Produced
<1> DEFINE ps == [k \in 0..n |-> "document"]
           os == [k \in 0..n |-> o]
<1>5. \A k \in 0..n : ps[k] = "document" /\ os[k] = o
  OBVIOUS
<1> HIDE DEF ps, os
<1>6. ASSUME NEW k \in 1..n PROVE Produced(Shape(s)[k].type, ps[k - 1], ps[k], os[k - 1], os[k])
  <2>1. k \in 0..n /\ k - 1 \in 0..n
    OBVIOUS
  <2>2. QED
    BY <1>3, <1>4, <1>5, <2>1
<1>7. 0 \in 0..n /\ n \in 0..n
  OBVIOUS
<1>8. Leads(Shape(s), "document", o, "document", o)
  BY <1>3, <1>5, <1>6, <1>7 DEF Leads
<1>9. QED
  BY <1>2, <1>8 DEF Segment

LEMMA EmptyBody == \A T, kind : Body(T, kind, <<>>)
  BY EmptySegment DEF Body

LEMMA TwoInARow == \A x, y : <<x>> \o <<y>> = <<x, y>>
<1> TAKE x, y
<1>1. PICK s, t, u : s = <<x>> /\ t = <<y>> /\ u = <<x, y>>
  OBVIOUS
<1>2. /\ s \in Seq({x, y}) /\ Len(s) = 1 /\ s[1] = x
      /\ t \in Seq({x, y}) /\ Len(t) = 1 /\ t[1] = y
      /\ u \in Seq({x, y}) /\ Len(u) = 2 /\ u[1] = x /\ u[2] = y
  BY <1>1
<1>3. /\ s \o t \in Seq({x, y}) /\ Len(s \o t) = 2
      /\ (s \o t)[1] = x /\ (s \o t)[1 + 1] = y
  BY <1>2, Concatenation
<1>4. \A i \in 1..Len(s \o t) : (s \o t)[i] = u[i]
  BY <1>2, <1>3
<1>5. s \o t = u
  BY <1>2, <1>3, <1>4, SameSequence
<1>6. QED
  BY <1>1, <1>5

LEMMA TwoInMapping ==
    ASSUME NEW T, NEW x \in Items(T), NEW y \in Items(T),
           ShapeOf(x) = "SCALAR", ShapeOf(y) = "SCALAR"
    PROVE  Body(T, "mapping", <<x, y>>)
<1>1. Body(T, "mapping", <<x>> \o <<y>>)
  BY LeafIsNode, PairInMapping
<1>2. QED
  BY <1>1, TwoInARow

(* A node is made of items.                                                *)
LEMMA NodeIsTyped == ASSUME NEW T, NEW s, Node(T, s) PROVE s \in Seq(Items(T))
<1>1. <<>> \in Seq(AllFrames)
  OBVIOUS
<1>2. QED
  BY <1>1 DEF Node, Segment

-----------------------------------------------------------------------------
(* The single items.                                                       *)
LEMMA CharItem ==
    ASSUME NEW T, NEW w \in WrittenAs, NEW tag \in T
    PROVE  EmitChar(w, tag) \in Items(T) /\ ShapeOf(EmitChar(w, tag)) = "SCALAR"
<1> DEFINE e == Scalar(w.text, w.style, {}, tag, tag = {}, tag = {})
<1>1. e \in EventsWith(T)
  BY DEF EventsWith, ScalarsWith
<1>2. e.type = "SCALAR"
  BY DEF Scalar
<1> HIDE DEF e
<1>3. Event(e) \in Items(T) /\ ShapeOf(Event(e)) = e.type
  BY <1>1 DEF Items, Event, ShapeOf
<1>4. QED
  BY <1>2, <1>3 DEF EmitChar, e

LEMMA StartItem ==
    ASSUME NEW T, NEW type \in {"SEQUENCE-START", "MAPPING-START"}, NEW tag \in T
    PROVE  EmitStart(type, tag) \in Items(T) /\ ShapeOf(EmitStart(type, tag)) = type
<1> DEFINE e == Collection(type, "any", {}, tag, tag = {})
<1>1. e \in EventsWith(T)
  BY DEF EventsWith, StartsWith
<1>2. e.type = type
  BY DEF Collection
<1> HIDE DEF e
<1>3. Event(e) \in Items(T) /\ ShapeOf(Event(e)) = e.type
  BY <1>1 DEF Items, Event, ShapeOf
<1>4. QED
  BY <1>2, <1>3 DEF EmitStart, e

LEMMA EndItem ==
    ASSUME NEW T, NEW type \in {"SEQUENCE-END", "MAPPING-END"}
    PROVE  EmitEnd(type) \in Items(T) /\ ShapeOf(EmitEnd(type)) = type
<1>1. Simple(type) \in EventsWith(T) /\ Simple(type).type = type
  BY DEF EventsWith, Marks, Simple
<1>2. QED
  BY <1>1 DEF Items, EmitEnd, Event, ShapeOf

LEMMA ObjectItem ==
    ASSUME NEW T, NEW o \in RObjects
    PROVE  Convert(o) \in Items(T) /\ ShapeOf(Convert(o)) = "SCALAR"
BY DEF Items, Convert, ShapeOf

LEMMA ElementsItem ==
    ASSUME NEW T, NEW o \in Lists
    PROVE  Elements(o) \in Items(T) /\ ShapeOf(Elements(o)) = "SEQUENCE-END"
BY DEF Items, Elements, ShapeOf

LEMMA EndOfElementsItem ==
    ASSUME NEW T
    PROVE  EndOfElements \in Items(T) /\ ShapeOf(EndOfElements) = "SEQUENCE-END"
BY DEF Items, EndOfElements, ShapeOf

(* The name of an element.                                                 *)
LEMMA NameItem ==
    ASSUME TextsAreKnown, NEW T, {} \in T, NEW o \in Lists, Given(o.names), NEW i \in DOMAIN o.items
    PROVE  /\ EmitName(ValueOf(o.names)[i]) \in Items(T)
           /\ ShapeOf(EmitName(ValueOf(o.names)[i])) = "SCALAR"
<1> DEFINE name == ValueOf(o.names)[i]
<1>1. Written(name, StringStyle(name)) \in WrittenAs
  BY DEF TextsAreKnown
<1> HIDE DEF name
<1>2. EmitName(name) \in Items(T) /\ ShapeOf(EmitName(name)) = "SCALAR"
  BY <1>1, CharItem DEF EmitName
<1>3. QED
  BY <1>2 DEF name

-----------------------------------------------------------------------------
(* Objects as nodes.                                                       *)
Convertibles == RObjects \cup Functions

LEMMA SequenceDomain ==
    ASSUME NEW s, IsSequence(s) PROVE DOMAIN s = 1..Len(s) /\ Len(s) \in Nat
BY DEF IsSequence

(* What is known of an object that is converted, also of the text of a     *)
(* function.                                                               *)
LEMMA ConvertiblesAreTyped ==
    ASSUME ObjectsAreTyped, NEW o \in Convertibles
    PROVE  /\ IsSequence(o.items) /\ IsFiniteSet(o.tag) /\ o.tag \subseteq Seq(TagAlphabet)
           /\ o.type = "list" => o \in Lists
<1>1. CASE o \in RObjects
  BY <1>1 DEF ObjectsAreTyped, Lists
<1>2. CASE o \in Functions
  <2>1. PICK f \in RObjects : o = DeparsedFunction(f)
    BY <1>2 DEF Functions
  <2>2. PICK text : DeparsedFunction(f) = Object("string", <<text>>, {}, <<"character">>,
                       IF f.tag = {} THEN {Chars("!expr")} ELSE f.tag)
    BY DEF DeparsedFunction
  <2>3. /\ o.type = "string" /\ o.items = <<text>>
        /\ o.tag = IF f.tag = {} THEN {Chars("!expr")} ELSE f.tag
    BY <2>1, <2>2 DEF Object
  <2>4. <<text>> \in Seq({text})
    OBVIOUS
  <2>5. IsSequence(o.items)
    BY <2>3, <2>4 DEF IsSequence
  <2>6. IsFiniteSet({Chars("!expr")})
    BY FS_Singleton
  <2>7. QED
    BY <2>3, <2>5, <2>6 DEF ObjectsAreTyped
<1>3. QED
  BY <1>1, <1>2 DEF Convertibles

LEMMA TagIsTyped ==
    ASSUME ObjectsAreTyped, NEW o \in Convertibles PROVE TagOf(o) \in NodeTags
<1>1. IsFiniteSet(o.tag) /\ o.tag \subseteq Seq(TagAlphabet)
  BY ConvertiblesAreTyped
<1>2. CASE Cardinality(o.tag) = 1
  <2>1. PICK t : o.tag = {t}
    BY <1>1, <1>2, FS_Singleton
  <2>2. t \in Seq(TagAlphabet)
    BY <1>1, <2>1
  <2>3. QED
    BY <1>2, <2>1, <2>2 DEF TagOf, NodeTags
<1>3. CASE Cardinality(o.tag) # 1
  BY <1>3 DEF TagOf, NodeTags
<1>4. QED
  BY <1>2, <1>3

LEMMA ElementsAreWritten ==
    ASSUME TextsAreKnown, NEW o \in Convertibles, o.type \in AtomicTypes
    PROVE  /\ DOMAIN WrittenElements(o) = DOMAIN o.items
           /\ \A i \in DOMAIN o.items : WrittenElements(o)[i] \in WrittenAs
<1>1. CASE HasClass(o, "factor")
  BY <1>1 DEF WrittenElements, WrittenFactor, TextsAreKnown, Convertibles
<1>2. CASE ~HasClass(o, "factor")
  <2>1. DOMAIN FormatReals(o.items) = DOMAIN o.items
    BY DEF FormatReals
  <2>2. DOMAIN WrittenStrings(o) = DOMAIN o.items
    BY DEF WrittenStrings
  <2>3. DOMAIN WrittenElements(o) = DOMAIN o.items
    <3> HIDE DEF FormatReals
    <3>1. CASE o.type = "string"
      BY <1>2, <2>2, <3>1 DEF WrittenElements
    <3>2. CASE o.type = "logical"
      BY <1>2, <3>2 DEF WrittenElements
    <3>3. CASE o.type = "integer"
      BY <1>2, <3>3 DEF WrittenElements
    <3>4. CASE o.type = "real"
      BY <1>2, <2>1, <3>4 DEF WrittenElements
    <3>5. QED
      BY <3>1, <3>2, <3>3, <3>4 DEF AtomicTypes
  <2>4. QED
    BY <2>3 DEF TextsAreKnown, Convertibles
<1>3. QED
  BY <1>1, <1>2

LEMMA AtomicIsNode ==
    ASSUME ObjectsAreTyped, TextsAreKnown, NEW T, {} \in T,
           NEW o \in Convertibles, o.type \in AtomicTypes, TagOf(o) \in T
    PROVE  Node(T, EmitAtomic(o))
<1> DEFINE elements == WrittenElements(o)
           n == Len(o.items)
           s == [i \in DOMAIN elements |-> EmitChar(elements[i], {})]
<1>1. n \in Nat /\ DOMAIN o.items = 1..n
  BY ConvertiblesAreTyped, SequenceDomain
<1>2. DOMAIN elements = 1..n /\ \A i \in 1..n : elements[i] \in WrittenAs
  BY <1>1, ElementsAreWritten
<1> HIDE DEF elements
<1>3. CASE n = 1
  <2>1. EmitAtomic(o) = <<EmitChar(elements[1], TagOf(o))>>
    BY <1>3 DEF EmitAtomic, elements
  <2>2. elements[1] \in WrittenAs
    BY <1>2, <1>3
  <2>3. QED
    BY <2>1, <2>2, CharItem, LeafIsNode
<1>4. CASE n # 1
  <2> DEFINE x == EmitStart("SEQUENCE-START", TagOf(o))
             y == EmitEnd("SEQUENCE-END")
  <2>1. EmitAtomic(o) = (<<x>> \o s) \o <<y>>
    BY <1>4 DEF EmitAtomic, elements
  <2>2. /\ x \in Items(T) /\ ShapeOf(x) = StartOf("sequence")
        /\ y \in Items(T) /\ ShapeOf(y) = EndOf("sequence")
    BY StartItem, EndItem DEF StartOf, EndOf
  <2>3. Body(T, "sequence", s)
    <3>1. s = [k \in 1..n |-> s[k]]
      BY <1>2
    <3>2. \A k \in 1..n : s[k] = EmitChar(elements[k], {})
      BY <1>2
    <3> HIDE DEF s
    <3>3. \A k \in 1..n : s[k] \in Items(T) /\ ShapeOf(s[k]) = "SCALAR"
      BY <1>2, <3>2, CharItem
    <3>4. QED
      BY <1>1, <3>1, <3>3, LeavesInSequence
  <2> HIDE DEF x, y, s
  <2>4. QED
    BY <2>1, <2>2, <2>3, CollectionIsNode
<1>5. QED
  BY <1>3, <1>4

LEMMA ListIsTyped ==
    ASSUME ObjectsAreTyped, NEW o \in Lists
    PROVE  /\ o.items \in Seq(RObjects) /\ Len(o.items) \in Nat
           /\ DOMAIN o.items = 1..Len(o.items)
           /\ \A i \in DOMAIN o.items : o.items[i] \in RObjects
BY DEF ObjectsAreTyped

LEMMA PairIsBody ==
    ASSUME ObjectsAreTyped, TextsAreKnown, NEW T, {} \in T,
           NEW o \in Lists, Given(o.names), NEW i \in DOMAIN o.items
    PROVE  Body(T, "mapping", EmitPair(o, i))
<1> DEFINE x == EmitName(ValueOf(o.names)[i])
           y == Convert(o.items[i])
<1>1. x \in Items(T) /\ ShapeOf(x) = "SCALAR"
  BY NameItem
<1>2. y \in Items(T) /\ ShapeOf(y) = "SCALAR"
  BY ListIsTyped, ObjectItem
<1>3. EmitPair(o, i) = <<x, y>>
  BY DEF EmitPair
<1> HIDE DEF x, y
<1>4. QED
  BY <1>1, <1>2, <1>3, TwoInMapping

LEMMA MappingIsNode ==
    ASSUME ObjectsAreTyped, TextsAreKnown, NEW T, {} \in T,
           NEW o \in Lists, Given(o.names), TagOf(o) \in T
    PROVE  Node(T, EmitMapping(o))
<1> DEFINE n == Len(o.items)
           q == [i \in DOMAIN o.items |-> EmitPair(o, i)]
           x == EmitStart("MAPPING-START", TagOf(o))
           y == EmitEnd("MAPPING-END")
<1>1. n \in Nat /\ DOMAIN o.items = 1..n
  BY ListIsTyped
<1>2. EmitMapping(o) = (<<x>> \o FlattenSeq(q)) \o <<y>>
  BY DEF EmitMapping
<1>3. /\ x \in Items(T) /\ ShapeOf(x) = StartOf("mapping")
      /\ y \in Items(T) /\ ShapeOf(y) = EndOf("mapping")
  BY StartItem, EndItem DEF StartOf, EndOf
<1>4. Body(T, "mapping", FlattenSeq(q))
  <2>1. q = [i \in 1..n |-> q[i]] /\ Len(q) = n
    BY <1>1
  <2>2. \A i \in 1..n : q[i] = EmitPair(o, i)
    BY <1>1
  <2> HIDE DEF q
  <2>3. \A i \in 1..n : Body(T, "mapping", q[i])
    BY <1>1, <2>2, PairIsBody
  <2>4. QED
    BY <1>1, <2>1, <2>3, RepeatedBody
<1> HIDE DEF x, y, q
<1>5. QED
  BY <1>2, <1>3, <1>4, CollectionIsNode

LEMMA OmapIsNode ==
    ASSUME ObjectsAreTyped, TextsAreKnown, NEW T, {} \in T, OmapTag \in T,
           NEW o \in Lists, Given(o.names), TagOf(o) \in T
    PROVE  Node(T, EmitOmap(o))
<1> DEFINE n == Len(o.items)
           mx == EmitStart("MAPPING-START", {})
           my == EmitEnd("MAPPING-END")
           q == [i \in DOMAIN o.items |-> <<mx>> \o EmitPair(o, i) \o <<my>>]
           tag == IF TagOf(o) = {} THEN {<<"T">> \o Chars("omap")} ELSE TagOf(o)
           x == EmitStart("SEQUENCE-START", tag)
           y == EmitEnd("SEQUENCE-END")
<1>1. n \in Nat /\ DOMAIN o.items = 1..n
  BY ListIsTyped
<1>2. EmitOmap(o) = (<<x>> \o FlattenSeq(q)) \o <<y>>
  BY DEF EmitOmap
<1>3. /\ x \in Items(T) /\ ShapeOf(x) = StartOf("sequence")
      /\ y \in Items(T) /\ ShapeOf(y) = EndOf("sequence")
  <2>1. tag \in T
    BY DEF OmapTag
  <2> HIDE DEF tag
  <2>2. QED
    BY <2>1, StartItem, EndItem DEF StartOf, EndOf
<1>4. /\ mx \in Items(T) /\ ShapeOf(mx) = StartOf("mapping")
      /\ my \in Items(T) /\ ShapeOf(my) = EndOf("mapping")
  BY StartItem, EndItem DEF StartOf, EndOf
<1> HIDE DEF mx, my
<1>5. Body(T, "sequence", FlattenSeq(q))
  <2>1. q = [i \in 1..n |-> q[i]] /\ Len(q) = n
    BY <1>1
  <2>2. \A i \in 1..n : q[i] = (<<mx>> \o EmitPair(o, i)) \o <<my>>
    BY <1>1
  <2> HIDE DEF q
  <2>3. ASSUME NEW i \in 1..n PROVE Body(T, "sequence", q[i])
    <3>1. Body(T, "mapping", EmitPair(o, i))
      BY <1>1, PairIsBody
    <3>2. Node(T, q[i])
      BY <1>4, <2>2, <3>1, CollectionIsNode
    <3>3. QED
      BY <3>2, NodeInSequence
  <2>4. QED
    BY <1>1, <2>1, <2>3, RepeatedBody
<1> HIDE DEF x, y, q
<1>6. QED
  BY <1>2, <1>3, <1>5, CollectionIsNode

LEMMA RowsAreNode ==
    ASSUME ObjectsAreTyped, TextsAreKnown, NEW T, {} \in T,
           NEW o \in Lists, HasClass(o, "data.frame"), o.items # <<>>, TagOf(o) \in T
    PROVE  Node(T, EmitRows(o))
<1> DEFINE m == Len(o.items)
           n == Len(o.items[1].items)
           mx == EmitStart("MAPPING-START", {})
           my == EmitEnd("MAPPING-END")
           cell(j, i) == <<EmitName(ValueOf(o.names)[j]), Convert(Yoink(o.items[j], i))>>
           cells(i) == [j \in DOMAIN o.items |-> cell(j, i)]
           row(i) == <<mx>> \o FlattenSeq(cells(i)) \o <<my>>
           q == [i \in DOMAIN o.items[1].items |-> row(i)]
           x == EmitStart("SEQUENCE-START", TagOf(o))
           y == EmitEnd("SEQUENCE-END")
<1>1. m \in Nat /\ DOMAIN o.items = 1..m
  BY ListIsTyped
<1>2. n \in Nat /\ DOMAIN o.items[1].items = 1..n
  <2>1. 1 \in DOMAIN o.items
    BY ListIsTyped
  <2>2. o.items[1] \in RObjects
    BY <2>1, ListIsTyped
  <2>3. IsSequence(o.items[1].items)
    BY <2>2 DEF ObjectsAreTyped
  <2>4. QED
    BY <2>3, SequenceDomain
<1>3. /\ Given(o.names)
      /\ \A j \in 1..m, i \in 1..n : Yoink(o.items[j], i) \in RObjects
  BY <1>1, <1>2 DEF ObjectsAreTyped
<1>4. EmitRows(o) = (<<x>> \o FlattenSeq(q)) \o <<y>>
  BY DEF EmitRows
<1>5. /\ x \in Items(T) /\ ShapeOf(x) = StartOf("sequence")
      /\ y \in Items(T) /\ ShapeOf(y) = EndOf("sequence")
  BY StartItem, EndItem DEF StartOf, EndOf
<1>6. /\ mx \in Items(T) /\ ShapeOf(mx) = StartOf("mapping")
      /\ my \in Items(T) /\ ShapeOf(my) = EndOf("mapping")
  BY StartItem, EndItem DEF StartOf, EndOf
<1>7. ASSUME NEW i \in 1..n, NEW j \in 1..m PROVE Body(T, "mapping", cell(j, i))
  <2> DEFINE a == EmitName(ValueOf(o.names)[j])
             b == Convert(Yoink(o.items[j], i))
  <2>1. a \in Items(T) /\ ShapeOf(a) = "SCALAR"
    BY <1>1, <1>3, NameItem
  <2>2. b \in Items(T) /\ ShapeOf(b) = "SCALAR"
    BY <1>3, ObjectItem
  <2> HIDE DEF a, b
  <2>3. Body(T, "mapping", <<a, b>>)
    BY <2>1, <2>2, TwoInMapping
  <2>4. QED
    BY <2>3 DEF a, b
<1> HIDE DEF mx, my, x, y, cell
<1>8. ASSUME NEW i \in 1..n PROVE Body(T, "sequence", row(i))
  <2> DEFINE c == cells(i)
  <2>1. c = [j \in 1..m |-> c[j]] /\ Len(c) = m
    BY <1>1
  <2>2. \A j \in 1..m : c[j] = cell(j, i)
    BY <1>1
  <2>3. row(i) = (<<mx>> \o FlattenSeq(c)) \o <<my>>
    OBVIOUS
  <2> HIDE DEF c
  <2>4. Body(T, "mapping", FlattenSeq(c))
    BY <1>1, <1>7, <2>1, <2>2, RepeatedBody
  <2>5. Node(T, row(i))
    BY <1>6, <2>3, <2>4, CollectionIsNode
  <2>6. QED
    BY <2>5, NodeInSequence
<1> HIDE DEF row
<1>9. Body(T, "sequence", FlattenSeq(q))
  <2>1. q = [i \in 1..n |-> q[i]] /\ Len(q) = n
    BY <1>2
  <2>2. \A i \in 1..n : q[i] = row(i)
    BY <1>2
  <2> HIDE DEF q
  <2>3. QED
    BY <1>2, <1>8, <2>1, <2>2, RepeatedBody
<1> HIDE DEF q
<1>10. QED
  BY <1>4, <1>5, <1>9, CollectionIsNode

LEMMA ListIsNode ==
    ASSUME NEW T, NEW o \in Lists, TagOf(o) \in T PROVE Node(T, EmitList(o))
<1> DEFINE x == EmitStart("SEQUENCE-START", TagOf(o))
           y == Elements(o)
<1>1. /\ x \in Items(T) /\ ShapeOf(x) = StartOf("sequence")
      /\ y \in Items(T) /\ ShapeOf(y) = EndOf("sequence")
  BY StartItem, ElementsItem DEF StartOf, EndOf
<1>2. EmitList(o) = <<x, y>>
  BY DEF EmitList
<1> HIDE DEF x, y
<1>3. <<x>> \o <<>> = <<x>>
  OBVIOUS
<1>4. Node(T, (<<x>> \o <<>>) \o <<y>>)
  BY <1>1, EmptyBody, CollectionIsNode
<1>5. QED
  BY <1>2, <1>3, <1>4, TwoInARow

(* Whatever the object, emit_object makes one node of it.                  *)
LEMMA ObjectIsNode ==
    ASSUME ObjectsAreTyped, TextsAreKnown, NEW T, {} \in T, OmapTag \in T,
           NEW o \in Convertibles, o.type \in Supported, o.type \notin FunctionTypes,
           TagOf(o) \in T
    PROVE  Node(T, EmitObject(o))
<1>1. CASE o.type = "NULL"
  <2>1. EmitObject(o) = <<EmitNil>>
    BY <1>1 DEF EmitObject, AtomicTypes
  <2>2. EmitNil \in Items(T) /\ ShapeOf(EmitNil) = "SCALAR"
    BY CharItem DEF EmitNil, TextsAreKnown
  <2>3. QED
    BY <2>1, <2>2, LeafIsNode
<1>2. CASE o.type \in AtomicTypes
  <2>1. o.type # "NULL"
    BY <1>2 DEF AtomicTypes
  <2>2. EmitObject(o) = EmitAtomic(o)
    BY <1>2, <2>1 DEF EmitObject, AtomicTypes
  <2>3. QED
    BY <1>2, <2>2, AtomicIsNode
<1>3. CASE o.type = "list"
  <2>1. o \in Lists
    BY <1>3, ConvertiblesAreTyped
  <2>2. EmitObject(o) =
            IF HasClass(o, "data.frame") /\ o.items # <<>> /\ ~options.columnMajor
            THEN EmitRows(o)
            ELSE IF IsNamedList(o)
            THEN IF options.omap THEN EmitOmap(o) ELSE EmitMapping(o)
            ELSE EmitList(o)
    BY <1>3 DEF EmitObject, AtomicTypes
  <2>3. CASE HasClass(o, "data.frame") /\ o.items # <<>> /\ ~options.columnMajor
    BY <2>1, <2>2, <2>3, RowsAreNode
  <2>4. CASE ~(HasClass(o, "data.frame") /\ o.items # <<>> /\ ~options.columnMajor)
    <3>1. CASE IsNamedList(o)
      <4>1. Given(o.names)
        BY <3>1 DEF IsNamedList
      <4>2. EmitObject(o) = IF options.omap THEN EmitOmap(o) ELSE EmitMapping(o)
        BY <2>2, <2>4, <3>1
      <4>3. Node(T, EmitOmap(o)) /\ Node(T, EmitMapping(o))
        BY <2>1, <4>1, OmapIsNode, MappingIsNode
      <4>4. QED
        BY <4>2, <4>3
    <3>2. CASE ~IsNamedList(o)
      BY <2>1, <2>2, <2>4, <3>2, ListIsNode
    <3>3. QED
      BY <3>1, <3>2
  <2>5. QED
    BY <2>3, <2>4
<1>4. QED
  BY <1>1, <1>2, <1>3 DEF Supported

(* The elements of an unnamed list end it.                                 *)
LEMMA ElementsEnd ==
    ASSUME ObjectsAreTyped, NEW T, NEW o \in Lists, NEW frames \in Seq(AllFrames),
           NEW p, NEW p2, NEW frames2,
           Produced("SEQUENCE-END", p, p2, frames, frames2)
    PROVE  Segment(T, EmitElements(o), p, frames, p2, frames2)
<1> DEFINE n == Len(o.items)
           s == [i \in DOMAIN o.items |-> Convert(o.items[i])]
           m == Len(frames)
<1>1. /\ p = "document" /\ frames # <<>>
      /\ frames[m].kind = "sequence" /\ ~frames[m].odd
  BY DEF Produced
<1>2. PICK c \in Seq(AllFrames) : frames = Append(c, Frame("sequence"))
  <2> DEFINE c == SubSeq(frames, 1, m - 1)
  <2>1. m \in Nat \ {0} /\ frames[m] \in AllFrames
    BY <1>1
  <2>2. /\ c \in Seq(AllFrames) /\ Len(c) = m - 1
        /\ \A k \in 1..(m - 1) : c[k] = frames[k]
    BY <1>1, AllButLast
  <2>3. frames[m] = Frame("sequence")
    BY <1>1, <2>1 DEF AllFrames, Frame
  <2> HIDE DEF c, m
  <2>4. /\ Append(c, frames[m]) \in Seq(AllFrames) /\ Len(Append(c, frames[m])) = m
        /\ \A k \in 1..(m - 1) : Append(c, frames[m])[k] = frames[k]
        /\ Append(c, frames[m])[m] = frames[m]
    <3>1. /\ Append(c, frames[m]) \in Seq(AllFrames)
          /\ Len(Append(c, frames[m])) = Len(c) + 1
          /\ \A k \in 1..Len(c) : Append(c, frames[m])[k] = c[k]
          /\ Append(c, frames[m])[Len(c) + 1] = frames[m]
      BY <2>1, <2>2, Appended
    <3>2. Len(c) + 1 = m
      BY <2>1, <2>2
    <3>3. QED
      BY <2>2, <3>1, <3>2
  <2>5. \A k \in 1..m : Append(c, frames[m])[k] = frames[k]
    <3> TAKE k \in 1..m
    <3>1. k = m \/ k \in 1..(m - 1)
      BY <2>1
    <3>2. QED
      BY <2>4, <3>1
  <2>6. Append(c, frames[m]) = frames
    BY <2>4, <2>5, SameSequence DEF m
  <2>7. QED
    BY <2>2, <2>3, <2>6
<1>3. n \in Nat /\ DOMAIN o.items = 1..n /\ \A i \in 1..n : o.items[i] \in RObjects
  BY ListIsTyped
<1>4. Body(T, "sequence", s)
  <2>1. s = [k \in 1..n |-> s[k]]
    BY <1>3
  <2>2. \A k \in 1..n : s[k] = Convert(o.items[k])
    BY <1>3
  <2> HIDE DEF s
  <2>3. \A k \in 1..n : s[k] \in Items(T) /\ ShapeOf(s[k]) = "SCALAR"
    BY <1>3, <2>2, ObjectItem
  <2>4. QED
    BY <1>3, <2>1, <2>3, LeavesInSequence
<1> HIDE DEF s, m
<1>5. Segment(T, s, p, frames, p, frames)
  BY <1>1, <1>2, <1>4 DEF Body
<1>6. Segment(T, <<EndOfElements>>, p, frames, p2, frames2)
  <2>1. EndOfElements \in Items(T) /\ ShapeOf(EndOfElements) = "SEQUENCE-END"
    BY EndOfElementsItem
  <2>2. QED
    BY <2>1, OneSegment
<1>7. Segment(T, s \o <<EndOfElements>>, p, frames, p2, frames2)
  BY <1>5, <1>6, JoinedSegments
<1>8. QED
  BY <1>7 DEF EmitElements, s

-----------------------------------------------------------------------------
(* as.yaml as a caller of the emitter.                                     *)
LEMMA EventsAreTyped ==
    ASSUME NEW T, NEW e \in EventsWith(T)
    PROVE  /\ e.type \in {"STREAM-START", "STREAM-END", "SEQUENCE-END", "MAPPING-END",
                          "DOCUMENT-START", "DOCUMENT-END", "SCALAR",
                          "SEQUENCE-START", "MAPPING-START"}
           /\ e.type = "DOCUMENT-START" => e.directives = <<>> /\ e.version = {}
           /\ HasProperties(e) => /\ e.anchor = {} /\ e.tag \in T
           /\ e.type = "SCALAR" => e.plainImplicit = (e.tag = {}) /\ e.quotedImplicit = (e.tag = {})
<1>1. CASE e \in Marks
  BY <1>1 DEF Marks, Simple, DocumentStart, DocumentEnd, HasProperties
<1>2. CASE e \in ScalarsWith(T)
  <2>1. PICK w \in WrittenAs, tag \in T : e = Scalar(w.text, w.style, {}, tag, tag = {}, tag = {})
    BY <1>2 DEF ScalarsWith
  <2>2. PICK b : b = (tag = {})
    OBVIOUS
  <2>3. e = Scalar(w.text, w.style, {}, tag, b, b)
    BY <2>1, <2>2
  <2>4. /\ e.type = "SCALAR" /\ e.anchor = {} /\ e.tag = tag
        /\ e.plainImplicit = b /\ e.quotedImplicit = b
    BY <2>3 DEF Scalar
  <2>5. QED
    BY <2>2, <2>4
<1>3. CASE e \in StartsWith(T)
  BY <1>3 DEF StartsWith, Collection, HasProperties
<1>4. QED
  BY <1>1, <1>2, <1>3 DEF EventsWith

(* Tags that are not empty.                                                *)
GoodTags == NodeTags \ {{<<>>}}

LEMMA TagsAreKnown ==
    ASSUME ObjectsAreTyped
    PROVE  /\ {} \in NodeTags /\ OmapTag \in NodeTags
           /\ {} \in GoodTags /\ OmapTag \in GoodTags
<1> DEFINE tag == <<"T">> \o Chars("omap")
<1>1. tag \in Seq(TagAlphabet) /\ tag # <<>>
  <2>1. <<"T">> \in Seq(TagAlphabet) /\ Chars("omap") \in Seq(TagAlphabet) /\ Len(<<"T">>) = 1
    BY DEF ObjectsAreTyped
  <2> DEFINE t == <<"T">>
             u == Chars("omap")
  <2> HIDE DEF t, u
  <2>2. t \o u \in Seq(TagAlphabet) /\ Len(t \o u) = Len(t) + Len(u) /\ Len(u) \in Nat
    BY <2>1 DEF t, u
  <2>3. Len(t) = 1
    BY <2>1 DEF t
  <2>4. t \o u # <<>>
    BY <2>2, <2>3
  <2>5. QED
    BY <2>2, <2>4 DEF t, u
<1> HIDE DEF tag
<1>2. OmapTag = {tag}
  BY DEF OmapTag, tag
<1>3. QED
  BY <1>1, <1>2 DEF NodeTags, GoodTags

LEMMA GoodTagsAreGood ==
    ASSUME NEW e \in EventsWith(GoodTags) PROVE Good(e)
<1>1. /\ e.type \in {"STREAM-START", "STREAM-END", "SEQUENCE-END", "MAPPING-END",
                     "DOCUMENT-START", "DOCUMENT-END", "SCALAR",
                     "SEQUENCE-START", "MAPPING-START"}
      /\ e.type = "DOCUMENT-START" => e.directives = <<>> /\ e.version = {}
      /\ HasProperties(e) => /\ e.anchor = {} /\ e.tag \in GoodTags
      /\ e.type = "SCALAR" => e.plainImplicit = (e.tag = {}) /\ e.quotedImplicit = (e.tag = {})
  BY EventsAreTyped
<1>2. ASSUME NEW tag \in GoodTags, Given(tag) PROVE ValueOf(tag) # <<>>
  BY <1>2 DEF GoodTags, NodeTags, Given, ValueOf
<1>3. Valid(e)
  BY <1>1, <1>2 DEF Valid, TagIsWritten, Given, HasProperties
<1>4. e.type = "SCALAR" => e.plainImplicit \/ e.quotedImplicit \/ TagIsWritten(e)
  BY <1>1 DEF TagIsWritten, Given, HasProperties
<1>5. e.type = "DOCUMENT-START" => ~Given(e.version) /\ DOMAIN e.directives = {}
  BY <1>1 DEF Given
<1>6. QED
  BY <1>1, <1>3, <1>4, <1>5 DEF Good, Stream!Events

LEMMA AsYamlIsTyped ==
    ASSUME CallerIsAsYaml PROVE CallerIsTyped /\ CallerIsTextual
<1>1. CallerIsTyped
  <2>1. <<>> \in Seq(TagDirectives)
    OBVIOUS
  <2>2. \A e \in EventsWith(NodeTags) : e.type = "DOCUMENT-START" => e.directives = <<>>
    BY EventsAreTyped
  <2>3. QED
    BY <2>1, <2>2 DEF CallerIsAsYaml, CallerIsTyped
<1>2. ASSUME NEW tag \in NodeTags, Given(tag) PROVE ValueOf(tag) \in Seq(TagAlphabet)
  BY <1>2 DEF NodeTags, Given, ValueOf
<1>3. CallerIsTextual
  BY <1>2, EventsAreTyped DEF CallerIsAsYaml, CallerIsTextual
<1>4. QED
  BY <1>1, <1>3

(* What is to be done, by its kind.                                        *)
LEMMA ItemsAreTyped ==
    ASSUME NEW T, NEW x \in Items(T)
    PROVE  /\ x.do \in {"event", "end", "object", "elements"}
           /\ x.do \in {"event", "end"} => x.event \in EventsWith(T) /\ ShapeOf(x) = x.event.type
           /\ x.do = "object" => x.object \in RObjects /\ ShapeOf(x) = "SCALAR"
           /\ x.do = "elements" => x.object \in Lists /\ ShapeOf(x) = "SEQUENCE-END"
<1>1. CASE \E e \in EventsWith(T) : x = Event(e)
  BY <1>1 DEF Event, ShapeOf
<1>2. CASE x = EndOfElements
  <2>1. x.event = Simple("SEQUENCE-END") /\ x.do = "end"
    BY <1>2 DEF EndOfElements
  <2>2. x.event \in EventsWith(T)
    BY <2>1 DEF EventsWith, Marks
  <2>3. QED
    BY <1>2, <2>1, <2>2 DEF ShapeOf, Simple
<1>3. CASE \E o \in RObjects : x = Convert(o)
  BY <1>3 DEF Convert, ShapeOf
<1>4. CASE \E o \in Lists : x = Elements(o)
  BY <1>4 DEF Elements, ShapeOf
<1>5. QED
  BY <1>1, <1>2, <1>3, <1>4 DEF Items

(* The object that is converted in the end.                                *)
HandlersAreTyped == \A class \in DOMAIN options.handlers :
                        options.handlers[class] \subseteq RObjects

LEMMA ResolvedIsTyped ==
    ASSUME ObjectsAreTyped, HandlersAreTyped, NEW o \in RObjects
    PROVE  Resolved(o) \in Convertibles /\ Resolved(o).type \notin FunctionTypes
<1> DEFINE fits == {i \in DOMAIN o.classes : /\ o.classes[i] \in DOMAIN options.handlers
                                             /\ Given(options.handlers[o.classes[i]])}
<1>1. Handled(o) = IF fits = {} THEN o ELSE ValueOf(options.handlers[o.classes[Min(fits)]])
  BY DEF Handled
<1>2. fits \subseteq Nat
  <2>1. DOMAIN o.classes = 1..Len(o.classes) /\ Len(o.classes) \in Nat
    BY SequenceDomain DEF ObjectsAreTyped
  <2>2. QED
    BY <2>1
<1>3. fits # {} => Min(fits) \in fits
  <2> HIDE DEF fits
  <2>1. fits # {} => \E i \in fits : \A j \in fits : i <= j
    BY <1>2, LeastExists
  <2>2. QED
    BY <2>1 DEF Min
<1>4. Handled(o) \in RObjects
  BY <1>1, <1>3 DEF HandlersAreTyped, Given, ValueOf
<1> HIDE DEF fits
<1>5. CASE Handled(o).type \in FunctionTypes
  <2>1. Resolved(o) = DeparsedFunction(Handled(o))
    BY <1>5 DEF Resolved
  <2>2. Resolved(o).type = "string"
    BY <2>1 DEF DeparsedFunction, Object
  <2>3. QED
    BY <1>4, <2>1, <2>2 DEF Convertibles, Functions, FunctionTypes
<1>6. CASE Handled(o).type \notin FunctionTypes
  BY <1>4, <1>6 DEF Resolved, Convertibles
<1>7. QED
  BY <1>5, <1>6

(* Where the grammar leads from open collections are open collections.     *)
LEMMA ProducedIsTyped ==
    ASSUME NEW event, NEW p, NEW p2, NEW o \in Seq(AllFrames), NEW o2,
           Produced(event, p, p2, o, o2)
    PROVE  o2 \in Seq(AllFrames)
<1>1. CountedOf(o) \in Seq(AllFrames)
  BY CountedIsTyped
<1>2. Frame("sequence") \in AllFrames /\ Frame("mapping") \in AllFrames
  BY DEF Frame, AllFrames
<1>3. o # <<>> => SubSeq(o, 1, Len(o) - 1) \in Seq(AllFrames)
  OBVIOUS
<1>4. /\ Append(CountedOf(o), Frame("sequence")) \in Seq(AllFrames)
      /\ Append(CountedOf(o), Frame("mapping")) \in Seq(AllFrames)
  BY <1>1, <1>2
<1>5. \/ o2 = o \/ o2 = CountedOf(o)
      \/ o2 = Append(CountedOf(o), Frame("sequence"))
      \/ o2 = Append(CountedOf(o), Frame("mapping"))
      \/ o # <<>> /\ o2 = SubSeq(o, 1, Len(o) - 1)
  BY DEF Produced
<1>6. QED
  BY <1>1, <1>3, <1>4, <1>5

-----------------------------------------------------------------------------
(* as.yaml and the emitter.                                                *)
SerializerNext == Serialize \/ (Process /\ UNCHANGED serializerVars)

SerializerSpec == /\ EmitterInit /\ SerializerInit
                  /\ object \in RObjects /\ HandlersAreTyped
                  /\ [][SerializerNext]_<<emitterVars, serializerVars>>

(* What is known of what is to be done, and of the last call.              *)
Typed == todo \in Seq(Items(NodeTags)) /\ HandlersAreTyped

Told == /\ call \in {"returned", "processing", "refused"}
        /\ call = "refused" => emitter.problem
        /\ call = "returned" => NeedMoreEvents(queue)

(* As long as there is no object that cannot be converted and no empty     *)
(* tag, what is to be done leads from what was sent to the end.            *)
Fine(objects) == \A o \in objects : o.type \in Supported /\ ~EmptyTag(o)

Serves(em, q, c, s) ==
    \E p, o : /\ o \in Seq(AllFrames)
              /\ Promised(em, q, c, p, o)
              /\ Segment(GoodTags, s, p, o, "end", <<>>)

Served == Fine(met) => ~failed /\ Serves(emitter, queue, call, todo)

(* Whatever fails on the way, the end of the document and of the stream    *)
(* are sent last, and only when nothing has failed.                        *)
Trailer(s) ==
    /\ Len(s) >= 1 => s[Len(s)] = Event(Simple("STREAM-END"))
    /\ Len(s) >= 2 => s[Len(s) - 1] = Event(DocumentEnd(TRUE))

Ended(em, q, n) ==
    /\ n = 1 /\ q # <<>> => q[Len(q)].type = "DOCUMENT-END"
    /\ n = 0 => IF q = <<>> THEN em.state = "END"
                ELSE /\ q[Len(q)].type = "STREAM-END"
                     /\ Len(q) >= 2 => q[Len(q) - 1].type = "DOCUMENT-END"

Closed == /\ Trailer(todo)
          /\ ~failed /\ ~emitter.problem => Ended(emitter, queue, Len(todo))

Concludes ==
    /\ outcome = "text" => todo = <<>> /\ ~failed /\ call = "returned"
    /\ outcome \in {"Emitter error", "Unknown emitter error"} => ~Fine(met)
    /\ failed \/ outcome = "Unknown emitter error" => ~Convertible

SInv == IInv /\ Typed /\ Told /\ Served /\ Closed /\ Concludes

-----------------------------------------------------------------------------
(* The two last items stay the last ones.                                  *)
LEMMA TrailerTail ==
    ASSUME NEW S, NEW s \in Seq(S), s # <<>>, Trailer(s) PROVE Trailer(Tail(s))
<1> DEFINE r == Tail(s)
           n == Len(s)
<1>1. /\ n \in Nat \ {0} /\ Len(r) = n - 1
      /\ \A k \in 1..(n - 1) : r[k] = s[k + 1]
  OBVIOUS
<1>2. /\ n >= 1 => s[n] = Event(Simple("STREAM-END"))
      /\ n >= 2 => s[n - 1] = Event(DocumentEnd(TRUE))
  BY DEF Trailer
<1> HIDE DEF r, n
<1>3. n - 1 >= 1 => r[n - 1] = s[n]
  BY <1>1
<1>4. n - 1 >= 2 => r[n - 1 - 1] = s[n - 1]
  BY <1>1
<1>5. /\ Len(r) >= 1 => r[Len(r)] = Event(Simple("STREAM-END"))
      /\ Len(r) >= 2 => r[Len(r) - 1] = Event(DocumentEnd(TRUE))
  <2>1. (n - 1 >= 1 => n >= 1) /\ (n - 1 >= 2 => n >= 2 /\ n - 1 >= 1)
    BY <1>1
  <2>2. QED
    BY <1>1, <1>2, <1>3, <1>4, <2>1
<1>6. Trailer(r)
  BY <1>5 DEF Trailer
<1>7. QED
  BY <1>6 DEF r

LEMMA TrailerBehind ==
    ASSUME NEW S, NEW s \in Seq(S), s # <<>>, s[1].do # "event", Trailer(s),
           NEW t \in Seq(S)
    PROVE  Trailer(t \o Tail(s)) /\ Len(s) >= 3 /\ Len(t \o Tail(s)) >= 2
<1> DEFINE r == Tail(s)
           u == t \o r
           n == Len(s)
           m == Len(t)
<1>1. /\ n \in Nat \ {0} /\ Len(r) = n - 1 /\ r \in Seq(S)
      /\ \A k \in 1..(n - 1) : r[k] = s[k + 1]
  OBVIOUS
<1>2. s[1] # Event(Simple("STREAM-END")) /\ s[1] # Event(DocumentEnd(TRUE))
  BY DEF Event
<1>3. /\ n >= 1 => s[n] = Event(Simple("STREAM-END"))
      /\ n >= 2 => s[n - 1] = Event(DocumentEnd(TRUE))
  BY DEF Trailer
<1> HIDE DEF n
<1>4. n >= 3
  <2>1. n # 1
    BY <1>2, <1>3
  <2>2. n # 2
    <3>1. n = 2 => n - 1 = 1 /\ n >= 2
      OBVIOUS
    <3>2. QED
      BY <1>2, <1>3, <3>1
  <2>3. QED
    BY <1>1, <2>1, <2>2
<1>5. r[n - 1] = s[n] /\ r[n - 2] = s[n - 1]
  BY <1>1, <1>4
<1>6. /\ Len(u) = m + (n - 1) /\ m \in Nat
      /\ \A k \in 1..(n - 1) : u[m + k] = r[k]
  <2>1. r \in Seq(S) /\ t \in Seq(S)
    BY <1>1
  <2> HIDE DEF r
  <2>2. Len(t \o r) = Len(t) + Len(r) /\ Len(t) \in Nat
    BY <2>1
  <2>3. \A k \in 1..Len(r) : (t \o r)[Len(t) + k] = r[k]
    BY <2>1
  <2>4. QED
    BY <1>1, <2>2, <2>3
<1> HIDE DEF r, u, m
<1>7. u[m + (n - 1)] = r[n - 1] /\ u[m + (n - 2)] = r[n - 2]
  <2>1. n - 1 \in 1..(n - 1) /\ n - 2 \in 1..(n - 1)
    BY <1>1, <1>4
  <2>2. QED
    BY <1>6, <2>1
<1>8. Len(u) >= 2 /\ Len(u) - 1 = m + (n - 2)
  BY <1>1, <1>4, <1>6
<1>9. u[Len(u)] = s[n] /\ u[Len(u) - 1] = s[n - 1]
  BY <1>5, <1>6, <1>7, <1>8
<1>10. Trailer(u)
  <2>1. n >= 1 /\ n >= 2
    BY <1>1, <1>4
  <2>2. u[Len(u)] = Event(Simple("STREAM-END")) /\ u[Len(u) - 1] = Event(DocumentEnd(TRUE))
    BY <1>3, <1>9, <2>1
  <2>3. QED
    BY <2>2 DEF Trailer
<1>11. QED
  BY <1>4, <1>8, <1>10 DEF u, r, n

(* Behind the last item nothing is held back.                              *)
LEMMA NothingHeldBack ==
    ASSUME NEW S, NEW q \in Seq(S), NeedMoreEvents(q), q # <<>>,
           q[Len(q)].type = "STREAM-END",
           Len(q) >= 2 => q[Len(q) - 1].type = "DOCUMENT-END"
    PROVE  FALSE
<1>1. Len(q) \in Nat \ {0} /\ DOMAIN q = 1..Len(q)
  OBVIOUS
<1>2. \/ q[1].type = "DOCUMENT-START" /\ Len(q) <= 1
      \/ q[1].type = "SEQUENCE-START" /\ Len(q) <= 2
      \/ q[1].type = "MAPPING-START" /\ Len(q) <= 3
  BY <1>1 DEF NeedMoreEvents, Accumulated
<1>3. Len(q) = 3 /\ q[1].type = "MAPPING-START" /\ q[2].type = "DOCUMENT-END"
  BY <1>1, <1>2
<1>4. Level(q, 2) # 0
  BY <1>1, <1>3 DEF NeedMoreEvents
<1>5. {i \in 1..2 : q[i].type \in StartEvents} = {1}
  BY <1>3 DEF StartEvents
<1>6. {i \in 1..2 : q[i].type \in EndEvents} = {2}
  BY <1>3 DEF EndEvents
<1>7. Level(q, 2) = 1 - 1
  BY <1>5, <1>6, FS_Singleton DEF Level
<1>8. QED
  BY <1>4, <1>7

-----------------------------------------------------------------------------
(* The invariant holds at the start.                                       *)
LEMMA ServedAtTheStart ==
    ASSUME ObjectsAreTyped, SerializerInit, object \in RObjects, NEW T
    PROVE  Segment(T, todo, "start", <<>>, "end", <<>>)
<1> DEFINE a == Event(Simple("STREAM-START"))
           b == Event(DocumentStart({}, <<>>, TRUE))
           c == Convert(object)
           d == Event(DocumentEnd(TRUE))
           e == Event(Simple("STREAM-END"))
           s == <<a, b, c, d, e>>
<1>1. a \in Items(T) /\ b \in Items(T) /\ c \in Items(T) /\ d \in Items(T) /\ e \in Items(T)
  BY DEF Items, EventsWith, Marks
<1>2. /\ ShapeOf(a) = "STREAM-START" /\ ShapeOf(b) = "DOCUMENT-START"
      /\ ShapeOf(c) = "SCALAR" /\ ShapeOf(d) = "DOCUMENT-END" /\ ShapeOf(e) = "STREAM-END"
  BY DEF ShapeOf, Event, Simple, DocumentStart, DocumentEnd, Convert
<1>3. todo = s
  BY DEF SerializerInit
<1> HIDE DEF a, b, c, d, e
<1>4. /\ s \in Seq(Items(T)) /\ Len(s) = 5
      /\ s[1] = a /\ s[2] = b /\ s[3] = c /\ s[4] = d /\ s[5] = e
  BY <1>1
<1> HIDE DEF s
<1> DEFINE t == Shape(s)
<1>5. /\ Len(t) = 5 /\ \A k \in 1..5 : t[k].type = ShapeOf(s[k])
  BY <1>4, ShapeIsSequence
<1> HIDE DEF t
<1> DEFINE p(k) == IF k = 0 THEN "start" ELSE IF k = 1 \/ k = 4 THEN "stream"
                   ELSE IF k = 2 THEN "document" ELSE IF k = 3 THEN "root" ELSE "end"
           ps == [k \in 0..5 |-> p(k)]
           os == [k \in 0..5 |-> <<>>]
<1>6. /\ ps[0] = "start" /\ ps[1] = "stream" /\ ps[2] = "document"
      /\ ps[3] = "root" /\ ps[4] = "stream" /\ ps[5] = "end"
      /\ \A k \in 0..5 : os[k] = <<>>
  OBVIOUS
<1> HIDE DEF ps, os
<1>7. CountedOf(<<>>) = <<>>
  BY DEF CountedOf
<1>8. ASSUME NEW k \in 1..5 PROVE Produced(t[k].type, ps[k - 1], ps[k], os[k - 1], os[k])
  <2>1. os[k - 1] = <<>> /\ os[k] = <<>>
    BY <1>6
  <2>2. CASE k = 1
    BY <1>2, <1>4, <1>5, <1>6, <2>1, <2>2 DEF Produced
  <2>3. CASE k = 2
    BY <1>2, <1>4, <1>5, <1>6, <2>1, <2>3 DEF Produced
  <2>4. CASE k = 3
    BY <1>2, <1>4, <1>5, <1>6, <1>7, <2>1, <2>4 DEF Produced
  <2>5. CASE k = 4
    BY <1>2, <1>4, <1>5, <1>6, <2>1, <2>5 DEF Produced
  <2>6. CASE k = 5
    BY <1>2, <1>4, <1>5, <1>6, <2>1, <2>6 DEF Produced
  <2>7. QED
    BY <2>2, <2>3, <2>4, <2>5, <2>6
<1>9. Leads(t, "start", <<>>, "end", <<>>)
  <2>1. os[0] = <<>> /\ os[5] = <<>>
    BY <1>6
  <2>2. QED
    BY <1>5, <1>6, <1>8, <2>1 DEF Leads
<1>10. QED
  BY <1>3, <1>4, <1>9 DEF Segment, t

LEMMA InitSInv ==
    ASSUME ObjectsAreTyped, EmitterInit, SerializerInit, object \in RObjects, HandlersAreTyped
    PROVE  SInv
<1>1. IInv
  BY InitIInv
<1>2. Typed
  BY ServedAtTheStart DEF Typed, Segment
<1>3. Told
  BY DEF EmitterInit, Told, NeedMoreEvents
<1>4. Served
  <2>1. Promised(emitter, queue, call, "start", <<>>)
    BY InitPromised
  <2>2. Segment(GoodTags, todo, "start", <<>>, "end", <<>>)
    BY ServedAtTheStart
  <2>3. <<>> \in Seq(AllFrames) /\ ~failed
    BY DEF SerializerInit
  <2>4. QED
    BY <2>1, <2>2, <2>3 DEF Served, Serves
<1>5. Closed
  <2> DEFINE a == Event(Simple("STREAM-START"))
             b == Event(DocumentStart({}, <<>>, TRUE))
             c == Convert(object)
             d == Event(DocumentEnd(TRUE))
             e == Event(Simple("STREAM-END"))
  <2>1. todo = <<a, b, c, d, e>>
    BY DEF SerializerInit
  <2> HIDE DEF a, b, c, d, e
  <2>2. Len(todo) = 5 /\ Len(todo) - 1 = 4 /\ todo[5] = e /\ todo[4] = d
    BY <2>1
  <2>3. Trailer(todo)
    BY <2>2 DEF Trailer, d, e
  <2>4. Ended(emitter, queue, Len(todo))
    BY <2>2 DEF Ended
  <2>5. QED
    BY <2>3, <2>4 DEF Closed
<1>6. Concludes
  BY DEF SerializerInit, Concludes
<1>7. QED
  BY <1>1, <1>2, <1>3, <1>4, <1>5, <1>6 DEF SInv

(* Primes, for each part.                                                  *)
LEMMA ServedNext ==
    ASSUME Fine(met') => ~failed' /\ Serves(emitter', queue', call', todo') PROVE Served'
BY DEF Served, Fine, Serves, Promised, NeedMoreEvents, Level, Leads, PhaseOf, OpenOf,
   Segment, Shape

LEMMA ClosedNext ==
    ASSUME Trailer(todo'),
           ~failed' /\ ~emitter'.problem => Ended(emitter', queue', Len(todo'))
    PROVE  Closed'
BY DEF Closed, Trailer, Ended

LEMMA ConcludesNext ==
    ASSUME outcome' = "text" => todo' = <<>> /\ ~failed' /\ call' = "returned",
           outcome' \in {"Emitter error", "Unknown emitter error"} => ~Fine(met'),
           failed' \/ outcome' = "Unknown emitter error" => ~Convertible'
    PROVE  Concludes'
BY DEF Concludes, Fine, Convertible

LEMMA ToldNext ==
    ASSUME call' \in {"returned", "processing", "refused"},
           call' = "refused" => emitter'.problem,
           call' = "returned" => NeedMoreEvents(queue')
    PROVE  Told'
BY DEF Told, NeedMoreEvents, Level

LEMMA EmitterStays ==
    ASSUME IInv, Told, UNCHANGED emitterVars PROVE IInv' /\ Told'
<1>1. IInv'
  BY DEF emitterVars, IInv, Shapes, Sees, Stuck, Nested, Structured,
     NeedMoreEvents, Level, Valid, Accepts, NodeAccepted, TagDataOf, Refused, HandleTaken
<1>2. Told'
  BY ToldNext DEF emitterVars, Told, NeedMoreEvents, Level
<1>3. QED
  BY <1>1, <1>2

(* As long as nothing is wrong no call fails.                              *)
LEMMA FineIsServed ==
    ASSUME Told, Served, Fine(met)
    PROVE  Result /\ ~failed /\ call # "refused" /\ ~emitter.problem
BY DEF Told, Served, Serves, Promised, Result

(* The first thing to be done.                                             *)
LEMMA HeadIsTyped ==
    ASSUME Typed, todo # <<>>
    PROVE  /\ Head(todo) = todo[1] /\ todo[1] \in Items(NodeTags)
           /\ Len(todo) \in Nat \ {0} /\ Tail(todo) \in Seq(Items(NodeTags))
           /\ Len(Tail(todo)) = Len(todo) - 1
BY DEF Typed

(* The next event is handed over.                                          *)
LEMMA SendStep ==
    ASSUME CallerIsAsYaml, SInv, SendEvent PROVE SInv'
<1> DEFINE x == todo[1]
           e == x.event
           q2 == Append(queue, e)
<1>1. /\ IInv /\ Typed /\ Told /\ Served /\ Closed /\ Concludes
  BY DEF SInv
<1>2. /\ Head(todo) = x /\ x \in Items(NodeTags) /\ todo # <<>>
      /\ Len(todo) \in Nat \ {0} /\ Tail(todo) \in Seq(Items(NodeTags))
      /\ Len(Tail(todo)) = Len(todo) - 1
  BY <1>1, HeadIsTyped DEF SendEvent
<1>3. /\ x.do \in {"event", "end"} /\ Emit(e)
      /\ x.do = "event" => ~failed /\ call # "refused"
      /\ todo' = Tail(todo) /\ failed' = FALSE /\ met' = met /\ outcome' = outcome
      /\ UNCHANGED options
  BY <1>2 DEF SendEvent, Result
<1>4. e \in EventsWith(NodeTags) /\ e \in CallerEvents /\ ShapeOf(x) = e.type
  BY <1>2, <1>3, ItemsAreTyped DEF CallerIsAsYaml
<1>5. /\ emitter' = emitter /\ queue' = q2
      /\ call' = IF NeedMoreEvents(q2) THEN "returned" ELSE "processing"
  BY <1>3 DEF Emit, NeedMoreEvents, Level
<1>6. queue \in Seq(CallerEvents) /\ Len(queue) \in Nat
  BY <1>1 DEF IInv, Shapes
<1>7. IInv'
  BY <1>1, <1>3, <1>4, EmitStep
<1>8. Typed'
  BY <1>1, <1>2, <1>3 DEF Typed, HandlersAreTyped
<1>9. Told'
  BY <1>5, ToldNext
<1>10. Served'
  <2>1. ASSUME Fine(met) PROVE Serves(emitter', queue', call', todo')
    <3>1. PICK p, o : /\ o \in Seq(AllFrames)
                      /\ Promised(emitter, queue, call, p, o)
                      /\ Segment(GoodTags, todo, p, o, "end", <<>>)
      BY <1>1, <2>1 DEF Served, Serves
    <3>2. PICK p1, o1 : /\ Produced(ShapeOf(x), p, p1, o, o1)
                        /\ Segment(GoodTags, Tail(todo), p1, o1, "end", <<>>)
      BY <1>2, <3>1, SegmentBehind
    <3>3. x \in Items(GoodTags)
      BY <1>2, <3>1 DEF Segment
    <3>4. Good(e)
      BY <1>3, <3>3, ItemsAreTyped, GoodTagsAreGood
    <3>5. Promised(emitter', queue', call', p1, o1)
      BY <1>1, <1>3, <1>4, <3>1, <3>2, <3>4, EmitPromised
    <3>6. o1 \in Seq(AllFrames)
      BY <3>1, <3>2, ProducedIsTyped
    <3>7. QED
      BY <1>3, <3>2, <3>5, <3>6 DEF Serves
  <2>2. QED
    BY <1>3, <2>1, ServedNext
<1>11. Closed'
  <2>1. Trailer(todo')
    BY <1>1, <1>2, <1>3, TrailerTail DEF Typed, Closed
  <2>2. q2 # <<>> /\ Len(q2) = Len(queue) + 1 /\ q2[Len(q2)] = e
    BY <1>4, <1>6
  <2>3. CASE Len(todo) = 2
    <3>1. Len(todo) - 1 = 1 /\ Len(todo) >= 2
      BY <2>3
    <3>2. x = Event(DocumentEnd(TRUE))
      BY <1>1, <3>1 DEF Closed, Trailer
    <3>3. e.type = "DOCUMENT-END"
      BY <3>2 DEF Event, DocumentEnd
    <3>4. Len(todo') = 1 /\ Ended(emitter', queue', 1)
      BY <1>2, <1>3, <1>5, <2>2, <3>1, <3>3 DEF Ended
    <3>5. QED
      BY <2>1, <3>4, ClosedNext
  <2>4. CASE Len(todo) = 1
    <3>1. Len(todo) - 1 = 0 /\ Len(todo) >= 1
      BY <2>4
    <3>2. x = Event(Simple("STREAM-END"))
      BY <1>1, <2>4, <3>1 DEF Closed, Trailer
    <3>3. e.type = "STREAM-END" /\ x.do = "event"
      BY <3>2 DEF Event, Simple
    <3>4. ~failed /\ (~emitter.problem => Ended(emitter, queue, 1))
      BY <1>1, <1>3, <2>4, <3>3 DEF Closed
    <3>5. ~emitter.problem /\ queue # <<>> => queue[Len(queue)].type = "DOCUMENT-END"
      BY <3>4 DEF Ended
    <3>6. Len(q2) >= 2 => Len(q2) - 1 = Len(queue) /\ queue # <<>> /\ q2[Len(queue)] = queue[Len(queue)]
      BY <1>4, <1>6, <2>2
    <3>7. ~emitter.problem => Ended(emitter', queue', 0)
      BY <1>5, <2>2, <3>3, <3>5, <3>6 DEF Ended
    <3>8. Len(todo') = 0
      BY <1>2, <1>3, <3>1
    <3>9. QED
      BY <1>5, <2>1, <3>7, <3>8, ClosedNext
  <2>5. CASE Len(todo) >= 3
    <3>1. Len(todo') >= 2
      BY <1>2, <1>3, <2>5
    <3>2. Ended(emitter', queue', Len(todo'))
      BY <3>1 DEF Ended
    <3>3. QED
      BY <2>1, <3>2, ClosedNext
  <2>6. QED
    BY <1>2, <2>3, <2>4, <2>5
<1>12. Concludes'
  BY <1>1, <1>2, <1>3, ConcludesNext DEF Concludes, Convertible
<1>13. QED
  BY <1>7, <1>8, <1>9, <1>10, <1>11, <1>12 DEF SInv

(* An item is replaced by others.                                          *)
LEMMA ReplaceStep ==
    ASSUME SInv, todo # <<>>, todo[1].do # "event",
           NEW s \in Seq(Items(NodeTags)), todo' = s \o Tail(todo),
           Fine(met') => ~failed' /\ Serves(emitter, queue, call, todo'),
           met \subseteq met', failed' => failed \/ ~Convertible',
           UNCHANGED <<options, outcome, emitterVars>>
    PROVE  SInv'
<1>1. /\ IInv /\ Typed /\ Told /\ Served /\ Closed /\ Concludes
  BY DEF SInv
<1>2. emitter' = emitter /\ queue' = queue /\ call' = call
  BY DEF emitterVars
<1>3. IInv' /\ Told'
  BY <1>1, EmitterStays
<1>4. Typed'
  <2>1. Tail(todo) \in Seq(Items(NodeTags))
    BY <1>1, HeadIsTyped
  <2>2. s \o Tail(todo) \in Seq(Items(NodeTags))
    BY <2>1
  <2>3. QED
    BY <1>1, <2>2 DEF Typed, HandlersAreTyped
<1>5. Served'
  BY <1>2, ServedNext
<1>6. Closed'
  <2>1. Trailer(todo') /\ Len(todo') >= 2
    BY <1>1, TrailerBehind DEF Closed, Typed
  <2>2. Ended(emitter', queue', Len(todo'))
    BY <2>1 DEF Ended
  <2>3. QED
    BY <2>1, <2>2, ClosedNext
<1>7. Concludes'
  <2>1. outcome # "text"
    BY <1>1 DEF Concludes
  <2>2. (~Fine(met) => ~Fine(met')) /\ (~Convertible => ~Convertible')
    BY DEF Fine, Convertible
  <2>3. QED
    BY <1>1, <2>1, <2>2, ConcludesNext DEF Concludes
<1>8. QED
  BY <1>3, <1>4, <1>5, <1>6, <1>7 DEF SInv

(* An object becomes a node, or cannot be converted.                       *)
LEMMA ConvertStep ==
    ASSUME ObjectsAreTyped, TextsAreKnown, SInv, ConvertObject PROVE SInv'
<1> DEFINE x == todo[1]
           r == Resolved(x.object)
<1>1. Typed /\ Served
  BY DEF SInv
<1>2. /\ Head(todo) = x /\ x \in Items(NodeTags) /\ todo # <<>>
      /\ Tail(todo) \in Seq(Items(NodeTags))
  BY <1>1, HeadIsTyped DEF ConvertObject
<1>3. /\ x.do = "object" /\ Result /\ UNCHANGED <<options, outcome, emitterVars>>
      /\ IF r.type \in Supported
         THEN todo' = EmitObject(r) \o Tail(todo) /\ failed' = failed
         ELSE failed' = TRUE /\ todo' = Tail(todo)
      /\ met' = met \cup {r}
  BY <1>2 DEF ConvertObject
<1>4. r \in Convertibles /\ r.type \notin FunctionTypes
  BY <1>1, <1>2, <1>3, ItemsAreTyped, ResolvedIsTyped DEF Typed
<1>5. TagOf(r) \in NodeTags
  BY <1>4, TagIsTyped
<1> HIDE DEF r, x
<1>6. CASE r.type \in Supported
  <2>1. EmitObject(r) \in Seq(Items(NodeTags))
    BY <1>4, <1>5, <1>6, TagsAreKnown, ObjectIsNode, NodeIsTyped
  <2>2. ASSUME Fine(met') PROVE ~failed' /\ Serves(emitter, queue, call, todo')
    <3>1. Fine(met) /\ ~EmptyTag(r)
      BY <1>3, <2>2 DEF Fine
    <3>2. TagOf(r) \in GoodTags
      BY <1>5, <3>1 DEF GoodTags, EmptyTag
    <3>3. PICK p, o : /\ o \in Seq(AllFrames)
                      /\ Promised(emitter, queue, call, p, o)
                      /\ Segment(GoodTags, todo, p, o, "end", <<>>)
      BY <1>1, <3>1 DEF Served, Serves
    <3>4. PICK p1, o1 : /\ Produced(ShapeOf(x), p, p1, o, o1)
                        /\ Segment(GoodTags, Tail(todo), p1, o1, "end", <<>>)
      BY <1>2, <3>3, SegmentBehind DEF x
    <3>5. ShapeOf(x) = "SCALAR"
      BY <1>2, <1>3, ItemsAreTyped
    <3>6. p = "document" /\ p1 = BehindNode(o) /\ o1 = CountedOf(o)
      BY <3>4, <3>5 DEF Produced, BehindNode
    <3>7. Node(GoodTags, EmitObject(r))
      BY <1>4, <1>6, <3>2, TagsAreKnown, ObjectIsNode
    <3>8. Segment(GoodTags, EmitObject(r), p, o, p1, o1)
      BY <3>3, <3>6, <3>7 DEF Node
    <3>9. Segment(GoodTags, todo', p, o, "end", <<>>)
      BY <1>3, <1>6, <3>4, <3>8, JoinedSegments
    <3>10. QED
      BY <1>1, <1>3, <1>6, <3>1, <3>3, <3>9 DEF Served, Serves
  <2>3. todo' = EmitObject(r) \o Tail(todo) /\ met \subseteq met' /\ failed' = failed
    BY <1>3, <1>6
  <2>4. todo[1].do # "event"
    BY <1>3 DEF x
  <2>5. QED
    BY <1>2, <1>3, <2>1, <2>2, <2>3, <2>4, ReplaceStep
<1>7. CASE r.type \notin Supported
  <2>1. <<>> \in Seq(Items(NodeTags)) /\ <<>> \o Tail(todo) = Tail(todo)
    BY <1>2
  <2>2. ~Fine(met') /\ ~Convertible'
    BY <1>3, <1>7 DEF Fine, Convertible
  <2>3. todo' = <<>> \o Tail(todo) /\ met \subseteq met'
    BY <1>3, <1>7, <2>1
  <2>4. todo[1].do # "event"
    BY <1>3 DEF x
  <2>5. QED
    BY <1>2, <1>3, <2>1, <2>2, <2>3, <2>4, ReplaceStep
<1>8. QED
  BY <1>6, <1>7

(* The elements of an unnamed list.                                        *)
LEMMA ElementsStep ==
    ASSUME ObjectsAreTyped, SInv, ConvertElements PROVE SInv'
<1> DEFINE x == todo[1]
           l == x.object
<1>1. Typed /\ Served
  BY DEF SInv
<1>2. /\ Head(todo) = x /\ x \in Items(NodeTags) /\ todo # <<>>
      /\ Tail(todo) \in Seq(Items(NodeTags))
  BY <1>1, HeadIsTyped DEF ConvertElements
<1>3. /\ x.do = "elements" /\ UNCHANGED <<options, outcome, emitterVars>>
      /\ todo' = EmitElements(l) \o Tail(todo) /\ failed' = failed /\ met' = met
  BY <1>2 DEF ConvertElements
<1>4. l \in Lists /\ ShapeOf(x) = "SEQUENCE-END"
  BY <1>2, <1>3, ItemsAreTyped
<1> HIDE DEF x, l
<1>5. EmitElements(l) \in Seq(Items(NodeTags))
  <2> DEFINE c == <<>>
             o == Append(c, Frame("sequence"))
  <2>1. c \in Seq(AllFrames) /\ Len(c) + 1 = 1 /\ "sequence" \in {"sequence", "mapping"}
    OBVIOUS
  <2> HIDE DEF c
  <2>2. o \in Seq(AllFrames) /\ o # <<>> /\ Len(o) = 1 /\ o[Len(o)] = Frame("sequence")
    BY <2>1, OpenCollection
  <2>3. o[Len(o)].kind = "sequence" /\ ~o[Len(o)].odd
    BY <2>2 DEF Frame
  <2> HIDE DEF o
  <2>4. Produced("SEQUENCE-END", "document", "root", o, SubSeq(o, 1, Len(o) - 1))
    BY <2>2, <2>3 DEF Produced
  <2>5. QED
    BY <1>4, <2>2, <2>4, ElementsEnd DEF Segment
<1>6. ASSUME Fine(met') PROVE ~failed' /\ Serves(emitter, queue, call, todo')
  <2>1. PICK p, o : /\ o \in Seq(AllFrames)
                    /\ Promised(emitter, queue, call, p, o)
                    /\ Segment(GoodTags, todo, p, o, "end", <<>>)
    BY <1>1, <1>3, <1>6 DEF Served, Serves
  <2>2. PICK p1, o1 : /\ Produced(ShapeOf(x), p, p1, o, o1)
                      /\ Segment(GoodTags, Tail(todo), p1, o1, "end", <<>>)
    BY <1>2, <2>1, SegmentBehind DEF x
  <2>3. Segment(GoodTags, EmitElements(l), p, o, p1, o1)
    BY <1>4, <2>1, <2>2, ElementsEnd
  <2>4. Segment(GoodTags, todo', p, o, "end", <<>>)
    BY <1>3, <2>2, <2>3, JoinedSegments
  <2>5. QED
    BY <1>1, <1>3, <1>6, <2>1, <2>4 DEF Served, Serves
<1>7. todo[1].do # "event" /\ met \subseteq met'
  BY <1>3 DEF x
<1>8. QED
  BY <1>2, <1>3, <1>5, <1>6, <1>7, ReplaceStep

(* What follows a failure is passed over.                                  *)
LEMMA PassOverStep ==
    ASSUME SInv, PassOver PROVE SInv'
<1>1. /\ IInv /\ Typed /\ Told /\ Served /\ Closed /\ Concludes
  BY DEF SInv
<1>2. /\ todo # <<>> /\ ~Result /\ todo' = Tail(todo)
      /\ UNCHANGED <<options, failed, met, outcome, emitterVars>>
  BY DEF PassOver
<1>3. emitter' = emitter /\ queue' = queue /\ call' = call
  BY <1>2 DEF emitterVars
<1>4. IInv' /\ Told'
  BY <1>1, <1>2, EmitterStays
<1>5. Typed'
  BY <1>1, <1>2, HeadIsTyped DEF Typed, HandlersAreTyped
<1>6. Served'
  BY <1>1, <1>2, FineIsServed, ServedNext
<1>7. Closed'
  <2>1. Trailer(todo')
    BY <1>1, <1>2, TrailerTail DEF Typed, Closed
  <2>2. failed' \/ emitter'.problem
    BY <1>1, <1>2, <1>3 DEF Result, Told
  <2>3. QED
    BY <2>1, <2>2, ClosedNext
<1>8. Concludes'
  BY <1>1, <1>2, ConcludesNext DEF Concludes, Convertible
<1>9. QED
  BY <1>4, <1>5, <1>6, <1>7, <1>8 DEF SInv

(* The caller of as.yaml gets the text or an error.                        *)
LEMMA FinishStep ==
    ASSUME SInv, Finish PROVE SInv'
<1>1. /\ IInv /\ Typed /\ Told /\ Served /\ Closed /\ Concludes
  BY DEF SInv
<1>2. /\ todo = <<>> /\ call # "processing"
      /\ outcome' = IF Result THEN "text"
                    ELSE IF emitter.problem THEN "Emitter error" ELSE "Unknown emitter error"
      /\ UNCHANGED <<options, failed, todo, met, emitterVars>>
  BY DEF Finish, Waiting
<1>3. emitter' = emitter /\ queue' = queue /\ call' = call
  BY <1>2 DEF emitterVars
<1>4. IInv' /\ Told'
  BY <1>1, <1>2, EmitterStays
<1>5. Typed'
  BY <1>1, <1>2 DEF Typed, HandlersAreTyped
<1>6. Served'
  BY <1>1, <1>2, <1>3, ServedNext DEF Served
<1>7. Closed'
  BY <1>1, <1>2, <1>3, ClosedNext DEF Closed
<1>8. Concludes'
  <2>1. CASE Result
    BY <1>1, <1>2, <1>3, <2>1, ConcludesNext DEF Result, Told, Convertible
  <2>2. CASE ~Result
    <3>1. ~Fine(met)
      BY <1>1, <2>2, FineIsServed
    <3>2. ~emitter.problem => failed
      BY <1>1, <2>2 DEF Told, Result
    <3>3. failed => ~Convertible
      BY <1>1 DEF Concludes
    <3>4. outcome' = "Unknown emitter error" => ~emitter.problem
      BY <1>2
    <3>5. met' = met /\ failed' = failed /\ outcome' # "text" /\ (Convertible' <=> Convertible)
      BY <1>2, <2>2 DEF Convertible
    <3>6. QED
      BY <3>1, <3>2, <3>3, <3>4, <3>5, ConcludesNext
  <2>3. QED
    BY <2>1, <2>2
<1>9. QED
  BY <1>4, <1>5, <1>6, <1>7, <1>8 DEF SInv

(* The emitter takes an event from its queue, or refuses it.               *)
LEMMA ProcessingStep ==
    ASSUME CallerIsAsYaml, SInv, Process, UNCHANGED serializerVars PROVE SInv'
<1>1. /\ IInv /\ Typed /\ Told /\ Served /\ Closed /\ Concludes
  BY DEF SInv
<1>2. UNCHANGED <<options, todo, failed, met, outcome>>
  BY DEF serializerVars
<1>3. CallerIsTyped /\ CallerIsTextual
  BY AsYamlIsTyped
<1>4. IInv' /\ Advanced
  BY <1>1, <1>3, ProcessStep
<1>5. /\ call = "processing"
      /\ \/ Concluded(Refuse(emitter))
         \/ \E new : TurnOutcome(new, Fresh, queue[1]) /\ Concluded(new)
  <2>1. /\ call = "processing"
        /\ \/ ~Valid(queue[1]) /\ Concluded(Refuse(emitter))
           \/ \E new : /\ Valid(queue[1])
                       /\ TurnOutcome(new, Fresh, queue[1])
                       /\ DocumentStartOutcome(new, Fresh, queue[1])
                       /\ Concluded(new)
    BY <1>1, <1>3, ProcessTurns DEF IInv
  <2>2. QED
    BY <2>1
<1>6. DOMAIN emitter = Fields /\ queue \in Seq(CallerEvents) /\ queue # <<>>
  BY <1>1, <1>5, EnoughIsNotEmpty DEF IInv, Shapes, Sees
<1>7. /\ call' \in {"returned", "processing", "refused"}
      /\ call' = "refused" => emitter'.problem
      /\ call' = "returned" => NeedMoreEvents(queue')
      /\ queue' = Tail(queue) \/ emitter'.problem
  <2>1. CASE Concluded(Refuse(emitter))
    <3>1. Refuse(emitter).ok = FALSE /\ Refuse(emitter).problem = TRUE
      BY <1>6, RefuseOutcome
    <3>2. QED
      BY <2>1, <3>1 DEF Concluded
  <2>2. ASSUME NEW new, TurnOutcome(new, Fresh, queue[1]), Concluded(new)
        PROVE  /\ call' \in {"returned", "processing", "refused"}
               /\ call' = "refused" => emitter'.problem
               /\ call' = "returned" => NeedMoreEvents(queue')
               /\ queue' = Tail(queue) \/ emitter'.problem
    <3>1. new.ok \in BOOLEAN /\ (new.ok = FALSE => new.problem = TRUE)
      BY <2>2 DEF TurnOutcome, Accepts
    <3>2. CASE new.ok = TRUE
      BY <2>2, <3>2 DEF Concluded, NeedMoreEvents, Level
    <3>3. CASE new.ok = FALSE
      BY <2>2, <3>1, <3>3 DEF Concluded
    <3>4. QED
      BY <3>1, <3>2, <3>3
  <2>3. QED
    BY <1>5, <2>1, <2>2
<1>8. Typed'
  BY <1>1, <1>2 DEF Typed, HandlersAreTyped
<1>9. Told'
  BY <1>7, ToldNext
<1>10. Served'
  <2>1. ASSUME Fine(met) PROVE ~failed /\ Serves(emitter', queue', call', todo)
    <3>1. PICK p, o : /\ o \in Seq(AllFrames)
                      /\ Promised(emitter, queue, call, p, o)
                      /\ Segment(GoodTags, todo, p, o, "end", <<>>)
      BY <1>1, <2>1 DEF Served, Serves
    <3>2. Promised(emitter', queue', call', p, o)
      BY <1>1, <1>3, <3>1, ProcessPromised
    <3>3. QED
      BY <1>1, <2>1, <3>1, <3>2 DEF Served, Serves
  <2>2. QED
    BY <1>2, <2>1, ServedNext
<1>11. Closed'
  <2>1. Trailer(todo')
    BY <1>1, <1>2 DEF Closed
  <2>2. ASSUME ~failed, ~emitter'.problem PROVE Ended(emitter', queue', Len(todo))
    <3>1. /\ Len(queue) \in Nat \ {0} /\ Head(queue) = queue[1]
          /\ Len(Tail(queue)) = Len(queue) - 1 /\ Tail(queue) \in Seq(CallerEvents)
          /\ \A k \in 1..(Len(queue) - 1) : Tail(queue)[k] = queue[k + 1]
      BY <1>6
    <3> DEFINE n == Len(queue)
               r == Tail(queue)
    <3> HIDE DEF n, r
    <3>2. /\ n \in Nat \ {0} /\ Len(r) = n - 1 /\ queue' = r /\ r \in Seq(CallerEvents)
          /\ \A k \in 1..(n - 1) : r[k] = queue[k + 1]
      BY <1>7, <2>2, <3>1 DEF n, r
    <3>7. /\ ~emitter.problem
          /\ Produced(Head(queue).type, PhaseOf(emitter), PhaseOf(emitter)',
                      OpenOf(emitter), OpenOf(emitter)')
      <4>1. ~(Len(queue') >= Len(queue)) /\ queue' # queue
        BY <3>2 DEF n
      <4>2. QED
        BY <1>4, <2>2, <4>1 DEF Advanced
    <3>3. Ended(emitter, queue, Len(todo))
      BY <1>1, <2>2, <3>7 DEF Closed
    <3>4. CASE r = <<>>
      <4>1. n = 1
        BY <3>2, <3>4
      <4>2. Len(todo) = 0 => queue[1].type = "STREAM-END"
        BY <1>6, <3>3, <4>1 DEF Ended, n
      <4>3. Len(todo) = 0 => PhaseOf(emitter)' = "end"
        BY <3>1, <3>7, <4>2 DEF Produced
      <4>4. Len(todo) = 0 => emitter'.state = "END"
        BY <4>3 DEF PhaseOf
      <4>5. QED
        BY <3>2, <3>4, <4>4 DEF Ended
    <3>5. CASE r # <<>>
      <4>1. n - 1 >= 1 /\ queue # <<>>
        BY <1>6, <3>2, <3>5
      <4>2. r[n - 1] = queue[n]
        BY <3>2, <4>1
      <4>3. n - 1 >= 2 => n >= 2 /\ r[n - 1 - 1] = queue[n - 1]
        BY <3>2, <4>1
      <4>4. /\ r[Len(r)] = queue[Len(queue)]
            /\ Len(r) >= 2 => Len(queue) >= 2 /\ r[Len(r) - 1] = queue[Len(queue) - 1]
        BY <3>2, <4>2, <4>3 DEF n
      <4>5. QED
        BY <3>2, <3>3, <3>5, <4>1, <4>4 DEF Ended
    <3>6. QED
      BY <3>4, <3>5
  <2>3. QED
    BY <1>2, <2>1, <2>2, ClosedNext
<1>12. Concludes'
  BY <1>1, <1>2, <1>5, ConcludesNext DEF Concludes, Convertible
<1>13. QED
  BY <1>4, <1>8, <1>9, <1>10, <1>11, <1>12 DEF SInv

(* The invariant always holds.                                             *)
LEMMA SerializerStep ==
    ASSUME ObjectsAreTyped, TextsAreKnown, CallerIsAsYaml,
           SInv, [SerializerNext]_<<emitterVars, serializerVars>>
    PROVE  SInv'
<1>1. CASE Serialize
  BY <1>1, SendStep, ConvertStep, ElementsStep, PassOverStep, FinishStep DEF Serialize
<1>2. CASE Process /\ UNCHANGED serializerVars
  BY <1>2, ProcessingStep
<1>3. CASE UNCHANGED <<emitterVars, serializerVars>>
  <2>1. IInv /\ Typed /\ Told /\ Served /\ Closed /\ Concludes
    BY DEF SInv
  <2>2. /\ emitter' = emitter /\ queue' = queue /\ call' = call
        /\ UNCHANGED <<options, todo, failed, met, outcome>>
    BY <1>3 DEF emitterVars, serializerVars
  <2>3. IInv' /\ Told'
    BY <1>3, <2>1, EmitterStays
  <2>4. Typed'
    BY <2>1, <2>2 DEF Typed, HandlersAreTyped
  <2>5. Served'
    BY <2>1, <2>2, ServedNext DEF Served
  <2>6. Closed'
    BY <2>1, <2>2, ClosedNext DEF Closed
  <2>7. Concludes'
    BY <2>1, <2>2, ConcludesNext DEF Concludes, Convertible
  <2>8. QED
    BY <2>3, <2>4, <2>5, <2>6, <2>7 DEF SInv
<1>4. QED
  BY <1>1, <1>2, <1>3 DEF SerializerNext

LEMMA WhatIsTrue == SInv => OutcomesAreTrue
<1> SUFFICES ASSUME SInv PROVE OutcomesAreTrue
  OBVIOUS
<1>1. /\ IInv /\ Told /\ Closed /\ Concludes
  BY DEF SInv
<1>2. ASSUME outcome = "text"
      PROVE  emitter.state = "END" /\ queue = <<>> /\ ~emitter.problem
  <2>1. todo = <<>> /\ ~failed /\ call = "returned"
    BY <1>1, <1>2 DEF Concludes
  <2>2. ~emitter.problem
    BY <1>1, <2>1 DEF IInv, Stuck
  <2>3. NeedMoreEvents(queue) /\ queue \in Seq(CallerEvents)
    BY <1>1, <2>1 DEF Told, IInv, Shapes
  <2>4. Len(todo) = 0
    BY <2>1
  <2>5. Ended(emitter, queue, 0)
    BY <1>1, <2>1, <2>2, <2>4 DEF Closed
  <2>6. queue = <<>>
    BY <2>3, <2>5, NothingHeldBack DEF Ended
  <2>7. QED
    BY <2>2, <2>5, <2>6 DEF Ended
<1>3. ASSUME outcome = "Emitter error"
      PROVE  ~Convertible \/ \E o \in met : EmptyTag(o)
  BY <1>1, <1>3 DEF Concludes, Fine, Convertible
<1>4. outcome = "Unknown emitter error" => ~Convertible
  BY <1>1 DEF Concludes
<1>5. QED
  BY <1>2, <1>3, <1>4 DEF OutcomesAreTrue

(* Whatever the object, as.yaml gives out a text only when the emitter has *)
(* written the stream to its end; and it raises an error only for an       *)
(* object that it does not know, or that has an empty string for its tag;  *)
(* the error without a reason only for the former.                         *)
THEOREM OutcomesHold ==
    ASSUME ObjectsAreTyped, TextsAreKnown, CallerIsAsYaml
    PROVE  SerializerSpec => []OutcomesAreTrue
<1>1. EmitterInit /\ SerializerInit /\ object \in RObjects /\ HandlersAreTyped => SInv
  BY InitSInv
<1>2. SInv /\ [SerializerNext]_<<emitterVars, serializerVars>> => SInv'
  BY SerializerStep
<1>3. QED
  BY <1>1, <1>2, WhatIsTrue, PTL DEF SerializerSpec

=============================================================================
