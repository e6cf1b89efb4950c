----------------------------- MODULE ProofLemmas -----------------------------
(***************************************************************************)
(* Facts about numbers and sequences that the proofs of several components *)
(* need.                                                                   *)
(***************************************************************************)
EXTENDS Integers, SequencesExt, WellFoundedInduction, TLAPS

(* A non-empty set of natural numbers has a least element.                 *)
LEMMA LeastExists ==
    ASSUME NEW S, S \subseteq Nat, S # {}
    PROVE  \E i \in S : \A j \in S : i <= j
<1> DEFINE less == {ss \in Nat \X Nat : ss[1] < ss[2]}
<1>1. IsWellFoundedOn(less, Nat)
  BY NatLessThanWellFounded DEF OpToRel
<1>2. PICK i \in S : \A j \in S : ~(<<j, i>> \in less)
  <2> HIDE DEF less
  <2> QED BY <1>1, WFMin
<1>3. ASSUME NEW j \in S PROVE i <= j
  <2>1. i \in Nat /\ j \in Nat
    OBVIOUS
  <2>2. j < i => <<j, i>> \in less
    BY <2>1
  <2>3. QED
    BY <1>2, <2>1, <2>2
<1>4. QED
  BY <1>3

(* Taking the first element off a sequence: the rest are elements of it.   *)
LEMMA TailProperties ==
    ASSUME NEW S, NEW s \in Seq(S), s # <<>>
    PROVE  /\ Head(s) \in S
           /\ 1 \in DOMAIN s /\ s[1] = Head(s)
           /\ Tail(s) \in Seq(S)
           /\ \A j \in DOMAIN Tail(s) : \E i \in DOMAIN s : Tail(s)[j] = s[i]
           /\ \A i \in DOMAIN s : \/ s[i] = Head(s)
                                  \/ \E j \in DOMAIN Tail(s) : Tail(s)[j] = s[i]
<1>1. Len(s) \in Nat \ {0} /\ DOMAIN s = 1..Len(s)
  OBVIOUS
<1>2. /\ Head(s) = s[1] /\ Head(s) \in S
      /\ Tail(s) \in Seq(S)
      /\ Len(Tail(s)) = Len(s) - 1
      /\ DOMAIN Tail(s) = 1..(Len(s) - 1)
      /\ \A j \in 1..(Len(s) - 1) : Tail(s)[j] = s[j + 1]
  BY <1>1
<1>3. \A j \in DOMAIN Tail(s) : j + 1 \in DOMAIN s /\ Tail(s)[j] = s[j + 1]
  BY <1>1, <1>2
<1>4. ASSUME NEW i \in DOMAIN s, i # 1
      PROVE  i - 1 \in DOMAIN Tail(s) /\ Tail(s)[i - 1] = s[i]
  BY <1>1, <1>2, <1>4
<1>5. 1 \in DOMAIN s
  BY <1>1
<1>6. \A i \in DOMAIN s : s[i] = Head(s) \/ \E j \in DOMAIN Tail(s) : Tail(s)[j] = s[i]
  BY <1>2, <1>4
<1>7. \A j \in DOMAIN Tail(s) : \E i \in DOMAIN s : Tail(s)[j] = s[i]
  BY <1>3
<1>8. QED
  BY <1>2, <1>5, <1>6, <1>7

(* A sequence is a sequence of its own elements.                           *)
LEMMA OwnElements ==
    ASSUME NEW S, NEW s \in Seq(S)
    PROVE  s \in Seq({s[i] : i \in DOMAIN s})
OBVIOUS

(* One more makes an odd number even and an even number odd.               *)
LEMMA NextParity ==
    ASSUME NEW n \in Nat
    PROVE  (n + 1) % 2 = 1 <=> ~(n % 2 = 1)
OBVIOUS

(* Two sequences in a row.                                                 *)
LEMMA Concatenation ==
    ASSUME NEW S, NEW s \in Seq(S), NEW t \in Seq(S)
    PROVE  /\ s \o t \in Seq(S) /\ Len(s \o t) = Len(s) + Len(t)
           /\ \A i \in 1..Len(s) : (s \o t)[i] = s[i]
           /\ \A i \in 1..Len(t) : (s \o t)[Len(s) + i] = t[i]
OBVIOUS

(* Taking the last element off a sequence.                                 *)
LEMMA AllButLast ==
    ASSUME NEW S, NEW s \in Seq(S), s # <<>>
    PROVE  /\ SubSeq(s, 1, Len(s) - 1) \in Seq(S)
           /\ Len(SubSeq(s, 1, Len(s) - 1)) = Len(s) - 1
           /\ \A k \in DOMAIN SubSeq(s, 1, Len(s) - 1) : k \in DOMAIN s
           /\ \A k \in 1..(Len(s) - 1) : SubSeq(s, 1, Len(s) - 1)[k] = s[k]
<1> DEFINE n == Len(s)
           t == SubSeq(s, 1, n - 1)
<1>1. n \in Nat \ {0} /\ DOMAIN s = 1..n
  OBVIOUS
<1>2. t \in Seq(S) /\ Len(t) = n - 1 /\ DOMAIN t = 1..(n - 1)
  BY <1>1
<1>3. QED
  BY <1>1, <1>2
-----------------------------------------------------------------------------
(* Induction over the numbers up to k, by the least one that is not in G.  *)
LEMMA UpTo ==
    ASSUME NEW k \in Nat, NEW G, 0 \in G,
           \A n \in 0..(k - 1) : n \in G => n + 1 \in G
    PROVE  \A n \in 0..k : n \in G
<1> DEFINE B == {n \in 0..k : n \notin G}
<1> SUFFICES ASSUME B # {} PROVE FALSE
  OBVIOUS
<1>1. PICK i \in B : \A j \in B : i <= j
  <2>1. B \subseteq Nat
    OBVIOUS
  <2> HIDE DEF B
  <2>2. QED
    BY <2>1, LeastExists
<1>2. i # 0 /\ i - 1 \in 0..(k - 1) /\ i - 1 \notin B
  BY <1>1
<1>3. QED
  BY <1>1, <1>2

(* f[i] is the state after i iterations of a loop with the step g.         *)
LoopFrom(A, n, a, g, f) ==
    /\ f \in [0..n -> A]
    /\ f = [i \in 0..n |-> IF i = 0 THEN a ELSE g[<<f[i - 1], i>>]]

(* A loop over 1..n with a step that stays in A: there is one function of  *)
(* the state after each iteration.                                         *)
LEMMA LoopExists ==
    ASSUME NEW A, NEW n \in Nat, NEW a \in A, NEW g \in [A \X (1..n) -> A]
    PROVE  \E f : LoopFrom(A, n, a, g, f)
<1> DEFINE Is(f, k) == /\ f \in [0..k -> A]
                       /\ f = [i \in 0..k |-> IF i = 0 THEN a ELSE g[<<f[i - 1], i>>]]
           G == {k \in 0..n : \E f : Is(f, k)}
<1>1. 0 \in G
  <2> DEFINE f == [i \in 0..0 |-> a]
  <2>1. f = [i \in 0..0 |-> IF i = 0 THEN a ELSE g[<<f[i - 1], i>>]]
    OBVIOUS
  <2>2. f \in [0..0 -> A]
    OBVIOUS
  <2>3. Is(f, 0)
    BY <2>1, <2>2
  <2> HIDE DEF f, Is
  <2>4. QED
    BY <2>3
<1>2. ASSUME NEW k \in 0..(n - 1), k \in G PROVE k + 1 \in G
  <2>1. PICK f : Is(f, k)
    BY <1>2
  <2> DEFINE e == [i \in 0..k |-> IF i = 0 THEN a ELSE g[<<f[i - 1], i>>]]
             h == [i \in 0..(k + 1) |-> IF i = 0 THEN a ELSE g[<<f[i - 1], i>>]]
  <2>2. \A i \in 0..k : h[i] = f[i]
    <3>1. f = e
      BY <2>1
    <3>2. \A i \in 0..k : h[i] = e[i]
      BY SMT
    <3>3. QED
      BY <3>1, <3>2, Zenon
  <2>3. ASSUME NEW i \in 0..(k + 1), i # 0
        PROVE  i - 1 \in 0..k /\ h[i - 1] = f[i - 1] /\ f[i - 1] \in A /\ i \in 1..n
    <3>1. i - 1 \in 0..k /\ i \in 1..n
      BY <2>3
    <3> HIDE DEF h
    <3>2. QED
      BY <2>1, <2>2, <3>1
  <2>4. h = [i \in 0..(k + 1) |-> IF i = 0 THEN a ELSE g[<<h[i - 1], i>>]]
    BY <2>3
  <2>5. h \in [0..(k + 1) -> A]
    <3>1. ASSUME NEW i \in 0..(k + 1), i # 0 PROVE g[<<f[i - 1], i>>] \in A
      BY <2>3, <3>1
    <3>2. QED
      BY <3>1
  <2> HIDE DEF h
  <2>6. Is(h, k + 1)
    BY <2>4, <2>5
  <2>7. k + 1 \in 0..n
    OBVIOUS
  <2> HIDE DEF Is
  <2>8. QED
    BY <2>6, <2>7
<1>3. n \in G
  <2> HIDE DEF G
  <2> QED BY <1>1, <1>2, UpTo
<1>4. QED
  BY <1>3 DEF LoopFrom

(* A state that is in A before the loop and after each of its iterations.  *)
LEMMA LoopStays ==
    ASSUME NEW A, NEW n \in Nat, NEW c, c[0] \in A,
           \A i \in 1..n : c[i - 1] \in A => c[i] \in A
    PROVE  \A i \in 0..n : c[i] \in A
<1> DEFINE G == {i \in 0..n : c[i] \in A}
<1>1. 0 \in G
  OBVIOUS
<1>2. ASSUME NEW i \in 0..(n - 1), i \in G PROVE i + 1 \in G
  <2>1. i + 1 \in 1..n /\ (i + 1) - 1 = i /\ c[i] \in A
    BY <1>2
  <2>2. c[i + 1] \in A
    BY <2>1
  <2>3. QED
    BY <2>1, <2>2
<1>3. \A i \in 0..n : i \in G
  <2> HIDE DEF G
  <2> QED BY <1>1, <1>2, UpTo
<1>4. QED
  BY <1>3

(* One more element behind the others.                                     *)
LEMMA Appended ==
    ASSUME NEW S, NEW s \in Seq(S), NEW e \in S
    PROVE  /\ Append(s, e) \in Seq(S) /\ Append(s, e) # <<>>
           /\ Len(Append(s, e)) = Len(s) + 1
           /\ \A i \in 1..Len(s) : Append(s, e)[i] = s[i]
           /\ Append(s, e)[Len(s) + 1] = e
OBVIOUS

(* Another last element.                                                   *)
LEMMA Overwritten ==
    ASSUME NEW S, NEW s \in Seq(S), NEW d \in S, NEW e \in S
    PROVE  [Append(s, d) EXCEPT ![Len(s) + 1] = e] = Append(s, e)
<1> DEFINE n == Len(s) + 1
           a == Append(s, d)
           b == Append(s, e)
           c == [a EXCEPT ![n] = e]
<1>1. Len(s) \in Nat
  OBVIOUS
<1>2. /\ DOMAIN a = 1..n /\ DOMAIN b = 1..n /\ b[n] = e /\ n \in Nat
      /\ \A i \in 1..n : i # n => a[i] = b[i]
  OBVIOUS
<1>3. b = [i \in 1..n |-> b[i]] /\ a = [i \in 1..n |-> a[i]]
  <2>1. a \in Seq(S) /\ Len(a) = n /\ b \in Seq(S) /\ Len(b) = n
    OBVIOUS
  <2> HIDE DEF a, b, n
  <2>2. QED
    BY <2>1
<1> HIDE DEF a, b, n
<1>4. c = [i \in 1..n |-> IF i = n THEN e ELSE a[i]]
  BY <1>2, <1>3
<1>5. c = [i \in 1..n |-> b[i]]
  BY <1>2, <1>4
<1>6. QED
  BY <1>3, <1>5 DEF a, b, n

(* f[i] is what the first i sequences are in a row.                        *)
Flattens(f, q, S) == /\ f \in [1..Len(q) -> Seq(S)]
                     /\ FlattenSeq(q) = f[Len(q)]
                     /\ f[1] = q[1]
                     /\ \A i \in 2..Len(q) : f[i] = f[i - 1] \o q[i]

(* FlattenSeq is the last one of these.                                    *)
LEMMA Flattened ==
    ASSUME NEW S, NEW q \in Seq(Seq(S)), q # <<>>
    PROVE  \E f : Flattens(f, q, S)
<1> DEFINE L == Len(q)
           Is(f, m) == /\ f \in [1..m -> Seq(S)]
                       /\ f = [i \in 1..m |-> IF i = 1 THEN q[i] ELSE f[i - 1] \o q[i]]
           G == {m \in 0..L : m = 0 \/ \E f : Is(f, m)}
<1>1. L \in Nat \ {0} /\ \A i \in 1..L : q[i] \in Seq(S)
  OBVIOUS
<1> HIDE DEF L
<1>2. ASSUME NEW m \in 0..(L - 1), m \in G PROVE m + 1 \in G
  <2>1. CASE m = 0
    <3> DEFINE f == [i \in 1..1 |-> q[i]]
    <3>1. f = [i \in 1..1 |-> IF i = 1 THEN q[i] ELSE f[i - 1] \o q[i]]
      OBVIOUS
    <3>2. f \in [1..1 -> Seq(S)]
      BY <1>1
    <3>3. Is(f, m + 1)
      BY <2>1, <3>1, <3>2
    <3>4. m + 1 \in 0..L
      BY <1>1
    <3> HIDE DEF f, Is
    <3>5. QED
      BY <3>3, <3>4
  <2>2. CASE m # 0
    <3>1. PICK f : Is(f, m)
      BY <1>2, <2>2
    <3> DEFINE h == [i \in 1..m |-> IF i = 1 THEN q[i] ELSE f[i - 1] \o q[i]]
               g == [i \in 1..(m + 1) |-> IF i = 1 THEN q[i] ELSE f[i - 1] \o q[i]]
    <3>2. \A i \in 1..m : g[i] = f[i]
      <4>1. f = h
        BY <3>1
      <4>2. \A i \in 1..m : g[i] = h[i]
        BY SMT
      <4>3. QED
        BY <4>1, <4>2, Zenon
    <3>3. ASSUME NEW i \in 1..(m + 1), i # 1 PROVE g[i - 1] = f[i - 1]
      <4>1. i - 1 \in 1..m
        BY <3>3
      <4> HIDE DEF g
      <4>2. QED
        BY <3>2, <4>1
    <3>4. g = [i \in 1..(m + 1) |-> IF i = 1 THEN q[i] ELSE g[i - 1] \o q[i]]
      BY <3>3
    <3>5. g \in [1..(m + 1) -> Seq(S)]
      <4>1. ASSUME NEW i \in 1..(m + 1), i # 1 PROVE f[i - 1] \o q[i] \in Seq(S)
        <5>1. i - 1 \in 1..m /\ i \in 1..L
          BY <1>1, <4>1
        <5>2. f[i - 1] \in Seq(S) /\ q[i] \in Seq(S)
          BY <1>1, <3>1, <5>1
        <5>3. QED
          BY <5>2
      <4>2. q[1] \in Seq(S)
        BY <1>1
      <4>3. QED
        BY <4>1, <4>2
    <3> HIDE DEF g
    <3>6. Is(g, m + 1)
      BY <3>4, <3>5
    <3>7. m + 1 \in 0..L
      BY <1>1
    <3> HIDE DEF Is
    <3>8. QED
      BY <3>6, <3>7
  <2>3. QED
    BY <2>1, <2>2
<1>3. L \in G
  <2>1. 0 \in G /\ L \in Nat /\ L \in 0..L
    BY <1>1
  <2> HIDE DEF G
  <2>2. \A m \in 0..L : m \in G
    BY <1>2, <2>1, UpTo
  <2>3. QED
    BY <2>1, <2>2
<1>4. PICK f : Is(f, L)
  BY <1>1, <1>3
<1> DEFINE c == CHOOSE g : g = [i \in 1..L |-> IF i = 1 THEN q[i] ELSE g[i - 1] \o q[i]]
<1>5. c = [i \in 1..L |-> IF i = 1 THEN q[i] ELSE c[i - 1] \o q[i]]
  BY <1>4
<1>6. FlattenSeq(q) = c[L]
  BY <1>1 DEF FlattenSeq, L
<1> HIDE DEF c
<1> DEFINE h == [i \in 1..L |-> IF i = 1 THEN q[i] ELSE c[i - 1] \o q[i]]
<1>7. \A i \in 1..L : c[i] = IF i = 1 THEN q[i] ELSE c[i - 1] \o q[i]
  <2>1. \A i \in 1..L : h[i] = IF i = 1 THEN q[i] ELSE c[i - 1] \o q[i]
    OBVIOUS
  <2>2. c = h
    BY <1>5
  <2>3. QED
    BY <2>1, <2>2, Zenon
<1>8. \A m \in 0..L : m \in {n \in 0..L : n = 0 \/ c[n] \in Seq(S)}
  <2> DEFINE T == {n \in 0..L : n = 0 \/ c[n] \in Seq(S)}
  <2>1. 0 \in T
    BY <1>1
  <2>2. ASSUME NEW n \in 0..(L - 1), n \in T PROVE n + 1 \in T
    <3>1. n + 1 \in 1..L /\ (n + 1) - 1 = n
      BY <1>1
    <3>2. CASE n = 0
      BY <1>1, <1>7, <3>1, <3>2
    <3>3. CASE n # 0
      <4>1. c[n] \in Seq(S) /\ q[n + 1] \in Seq(S)
        BY <1>1, <2>2, <3>1, <3>3
      <4>2. c[n + 1] = c[n] \o q[n + 1]
        <5>1. n + 1 # 1
          BY <3>3
        <5>2. QED
          BY <1>7, <3>1, <5>1
      <4>3. c[n] \o q[n + 1] \in Seq(S)
        BY <4>1
      <4>4. n + 1 \in 0..L
        BY <1>1
      <4>5. QED
        BY <4>2, <4>3, <4>4
    <3>4. QED
      BY <3>2, <3>3
  <2> HIDE DEF T
  <2>3. \A m \in 0..L : m \in T
    BY <1>1, <2>1, <2>2, UpTo
  <2>4. QED
    BY <2>3 DEF T
<1>9. c \in [1..L -> Seq(S)]
  <2>1. \A i \in 1..L : c[i] \in Seq(S)
    BY <1>1, <1>8
  <2>2. c = [i \in 1..L |-> c[i]]
    BY <1>5
  <2>3. QED
    BY <2>1, <2>2
<1>10. c[1] = q[1] /\ \A i \in 2..L : c[i] = c[i - 1] \o q[i]
  <2>1. 1 \in 1..L /\ \A i \in 2..L : i \in 1..L /\ i # 1
    BY <1>1
  <2>2. QED
    BY <1>7, <2>1, Zenon
<1>11. QED
  BY <1>6, <1>9, <1>10 DEF L, Flattens

(* One more sequence behind a sequence of sequences.                       *)
LEMMA FlattenAppend ==
    ASSUME NEW S, NEW q \in Seq(Seq(S)), NEW x \in Seq(S)
    PROVE  /\ FlattenSeq(Append(q, x)) = FlattenSeq(q) \o x
           /\ FlattenSeq(q) \in Seq(S)
<1> DEFINE L == Len(q)
           r == Append(q, x)
<1>1. /\ L \in Nat /\ r \in Seq(Seq(S)) /\ Len(r) = L + 1 /\ r # <<>>
      /\ \A i \in 1..L : r[i] = q[i]
      /\ r[L + 1] = x
  <2>1. L \in Nat
    OBVIOUS
  <2>2. QED
    BY <2>1, Appended
<1>2. PICK g : Flattens(g, r, S)
  <2> HIDE DEF r
  <2>1. QED
    BY <1>1, Flattened
<1>3. CASE q = <<>>
  <2>1. L = 0 /\ FlattenSeq(q) = <<>>
    BY <1>3 DEF FlattenSeq
  <2>2. QED
    BY <1>1, <1>2, <2>1 DEF Flattens
<1>4. CASE q # <<>>
  <2>1. PICK f : Flattens(f, q, S)
    BY <1>4, Flattened
  <2>2. L # 0
    BY <1>4
  <2>3. /\ f \in [1..L -> Seq(S)] /\ FlattenSeq(q) = f[L] /\ f[1] = q[1]
        /\ \A i \in 2..L : f[i] = f[i - 1] \o q[i]
    BY <2>1 DEF Flattens
  <2>4. /\ g \in [1..(L + 1) -> Seq(S)] /\ FlattenSeq(r) = g[L + 1] /\ g[1] = q[1]
         /\ \A i \in 2..(L + 1) : g[i] = g[i - 1] \o r[i]
    <3>1. 1 \in 1..L
      BY <1>1, <2>2
    <3> HIDE DEF L, r
    <3>2. QED
      BY <1>1, <1>2, <3>1 DEF Flattens
  <2> HIDE DEF L, r
  <2> DEFINE G == {n \in 0..L : n = 0 \/ f[n] = g[n]}
  <2>5. ASSUME NEW n \in 0..(L - 1), n \in G PROVE n + 1 \in G
    <3>1. CASE n = 0
      BY <1>1, <2>2, <2>3, <2>4, <3>1
    <3>2. CASE n # 0
      <4>1. n + 1 \in 2..L /\ n + 1 \in 2..(L + 1) /\ (n + 1) - 1 = n /\ n + 1 \in 1..L
        BY <1>1, <3>2
      <4>2. f[n + 1] = f[n] \o q[n + 1] /\ g[n + 1] = g[n] \o r[n + 1]
        BY <2>3, <2>4, <4>1
      <4>3. r[n + 1] = q[n + 1] /\ f[n] = g[n]
        BY <1>1, <2>5, <3>2, <4>1
      <4>4. f[n + 1] = g[n + 1]
        BY <4>2, <4>3
      <4>5. QED
        BY <1>1, <4>4
    <3>3. QED
      BY <3>1, <3>2
  <2>6. 0 \in G
    BY <1>1
  <2>7. \A n \in 0..L : n \in G
    <3>1. L \in Nat
      BY <1>1
    <3> HIDE DEF G
    <3>2. QED
      BY <2>5, <2>6, <3>1, UpTo
  <2>8. f[L] = g[L] /\ L \in 1..L /\ L + 1 \in 2..(L + 1) /\ (L + 1) - 1 = L
    BY <1>1, <2>2, <2>7
  <2>9. g[L + 1] = g[L] \o x
    BY <1>1, <2>8, <2>4
  <2>10. QED
    BY <2>8, <2>9, <2>3, <2>4 DEF r
<1>5. QED
  BY <1>3, <1>4

(* Sequences of the same lengths are as long in a row.                     *)
LEMMA FlattenLengths ==
    ASSUME NEW S, NEW q \in Seq(Seq(S)), NEW r \in Seq(Seq(S)), Len(q) = Len(r),
           \A i \in 1..Len(q) : Len(q[i]) = Len(r[i])
    PROVE  Len(FlattenSeq(q)) = Len(FlattenSeq(r))
<1> DEFINE L == Len(q)
<1>1. L \in Nat /\ \A i \in 1..L : q[i] \in Seq(S) /\ r[i] \in Seq(S)
  OBVIOUS
<1>2. CASE L = 0
  <2>1. \A s \in Seq(Seq(S)) : Len(s) = 0 => s = <<>>
    OBVIOUS
  <2>2. q = <<>> /\ r = <<>>
    BY <1>2, <2>1
  <2>3. QED
    BY <2>2
<1>3. CASE L # 0
  <2>1. q # <<>> /\ r # <<>>
    BY <1>3
  <2>2. PICK f : Flattens(f, q, S)
    BY <2>1, Flattened
  <2>3. PICK g : Flattens(g, r, S)
    BY <2>1, Flattened
  <2>4. /\ f \in [1..L -> Seq(S)] /\ f[1] = q[1] /\ FlattenSeq(q) = f[L]
        /\ \A i \in 2..L : f[i] = f[i - 1] \o q[i]
    BY <2>2 DEF Flattens
  <2>5. /\ g \in [1..L -> Seq(S)] /\ g[1] = r[1] /\ FlattenSeq(r) = g[L]
        /\ \A i \in 2..L : g[i] = g[i - 1] \o r[i]
    BY <2>3 DEF Flattens
  <2>6. \A i \in 1..L : Len(q[i]) = Len(r[i])
    OBVIOUS
  <2> DEFINE G == {n \in 0..L : n = 0 \/ Len(f[n]) = Len(g[n])}
  <2> HIDE DEF L
  <2>7. 0 \in G
    BY <1>1
  <2>8. ASSUME NEW n \in 0..(L - 1), n \in G PROVE n + 1 \in G
    <3>1. n + 1 \in 0..L /\ n + 1 \in 1..L
      BY <1>1
    <3>2. CASE n = 0
      BY <2>4, <2>5, <2>6, <3>1, <3>2
    <3>3. CASE n # 0
      <4>1. n \in 1..L /\ n + 1 \in 2..L /\ (n + 1) - 1 = n
        BY <1>1, <3>3
      <4>2. /\ f[n] \in Seq(S) /\ g[n] \in Seq(S)
            /\ q[n + 1] \in Seq(S) /\ r[n + 1] \in Seq(S)
        BY <1>1, <2>4, <2>5, <3>1, <4>1
      <4>3. f[n + 1] = f[n] \o q[n + 1] /\ g[n + 1] = g[n] \o r[n + 1]
        BY <2>4, <2>5, <4>1
      <4>4. Len(f[n]) = Len(g[n]) /\ Len(q[n + 1]) = Len(r[n + 1])
        BY <2>6, <2>8, <3>1, <3>3
      <4>5. \A s, t \in Seq(S) : Len(s \o t) = Len(s) + Len(t)
        BY Concatenation
      <4> HIDE DEF G
      <4>6. /\ Len(f[n] \o q[n + 1]) = Len(f[n]) + Len(q[n + 1])
            /\ Len(g[n] \o r[n + 1]) = Len(g[n]) + Len(r[n + 1])
        BY <4>2, <4>5
      <4>7. Len(f[n + 1]) = Len(g[n + 1])
        BY <4>3, <4>4, <4>6, Zenon
      <4>8. QED
        BY <3>1, <4>7 DEF G
    <3>4. QED
      BY <3>2, <3>3
  <2>9. \A n \in 0..L : n \in G
    <3> HIDE DEF G
    <3> QED BY <1>1, <2>7, <2>8, UpTo
  <2>10. QED
    BY <1>1, <1>3, <2>4, <2>5, <2>9
<1>4. QED
  BY <1>2, <1>3

Mapped(g, s) == [i \in DOMAIN s |-> g[s[i]]]

(* The same when each element stands for a sequence of its own.            *)
LEMMA FlattenPushed ==
    ASSUME NEW S, NEW T, NEW g \in [T -> Seq(S)], NEW stack \in Seq(T), NEW s \in T
    PROVE  /\ FlattenSeq(Mapped(g, Append(stack, s))) = FlattenSeq(Mapped(g, stack)) \o g[s]
           /\ FlattenSeq(Mapped(g, stack)) \in Seq(S)
<1> DEFINE q == [i \in DOMAIN stack |-> g[stack[i]]]
           t == Append(stack, s)
           r == [i \in DOMAIN t |-> g[t[i]]]
           a == Append(q, g[s])
<1>1. Len(stack) \in Nat /\ DOMAIN stack = 1..Len(stack)
  OBVIOUS
<1>2. q \in Seq(Seq(S)) /\ Len(q) = Len(stack)
  BY <1>1
<1>3. \A i \in 1..Len(stack) : q[i] = g[stack[i]]
  BY <1>1
<1>4. /\ DOMAIN t = 1..(Len(stack) + 1)
      /\ \A i \in 1..Len(stack) : t[i] = stack[i]
      /\ t[Len(stack) + 1] = s
  BY <1>1, Appended
<1>5. /\ a \in Seq(Seq(S)) /\ Len(a) = Len(stack) + 1
      /\ \A i \in 1..Len(stack) : a[i] = q[i]
      /\ a[Len(stack) + 1] = g[s]
  <2>1. g[s] \in Seq(S)
    OBVIOUS
  <2> HIDE DEF q
  <2>2. QED
    BY <1>2, <2>1, Appended
<1>6. ASSUME NEW i \in 1..(Len(stack) + 1) PROVE a[i] = g[t[i]]
  <2>1. CASE i = Len(stack) + 1
    BY <1>4, <1>5, <2>1
  <2>2. CASE i # Len(stack) + 1
    <3>1. i \in 1..Len(stack)
      BY <1>1, <2>2
    <3> HIDE DEF a, q, t
    <3>2. QED
      BY <1>3, <1>4, <1>5, <3>1
  <2>3. QED
    BY <2>1, <2>2
<1> HIDE DEF a, t
<1>7. a = [i \in 1..(Len(stack) + 1) |-> a[i]]
  BY <1>5
<1>8. a = r
  BY <1>4, <1>6, <1>7
<1> HIDE DEF q
<1>9. FlattenSeq(Append(q, g[s])) = FlattenSeq(q) \o g[s] /\ FlattenSeq(q) \in Seq(S)
  BY <1>2, FlattenAppend
<1>10. QED
  BY <1>8, <1>9 DEF a, q, t, Mapped
=============================================================================
