--------------------------- MODULE MapEntriesProofs ---------------------------
(***************************************************************************)
(* What the operators of MapEntries do to an interim map, for every set K  *)
(* of objects that its keys and values come from.                          *)
(***************************************************************************)
EXTENDS MapEntries, ProofLemmas, TLAPS

EntriesOver(K) == [key : K, value : K, merged : BOOLEAN]

AccsOver(K) == [map : Seq(EntriesOver(K)), error : MapErrors,
                ignored : Nat, warned : Nat]

(* No key comes again but behind a NULL value, where the search ends.      *)
Hidden(map, i) == ~CoerceKeys /\ \E n \in 1..i : map[n].value = Null

Unambiguous(map) ==
    \A i, j \in DOMAIN map : i < j /\ map[i].key = map[j].key => Hidden(map, i)

(* What every operator keeps of a map in the making: it is one, no key is  *)
(* in it twice where the search sees it, and nothing that was in it moves  *)
(* or goes.                                                                *)
Grows(K, a, r) ==
    /\ r \in AccsOver(K)
    /\ Unambiguous(r.map)
    /\ \A i \in DOMAIN a.map : i \in DOMAIN r.map /\ r.map[i] = a.map[i]

NoneMerged(a) == \A i \in DOMAIN a.map : ~a.map[i].merged
Written(q, v) == Entry(KeyOf(q), v, FALSE)
Holds(a, e) == \E i \in DOMAIN a.map : a.map[i] = e

(* What handle_map_entry makes of it with the pair [q, v].                 *)
TakesPair(K, a, q, v, r) ==
    /\ Grows(K, a, r)
    /\ r.error \in {a.error, "Duplicate map key"}
    /\ NoneMerged(a) => NoneMerged(r)
    /\ NoneMerged(a) => r.error = "Duplicate map key" \/ Holds(r, Written(q, v))

(* handle_map_entry does one of three things, and only adds a pair whose   *)
(* key the search did not find.                                            *)
LEMMA MapEntryCases ==
    ASSUME NEW K, NEW a \in AccsOver(K), NEW k, NEW v
    PROVE  LET r == HandleMapEntry(a, k, v) IN
           \/ /\ Matches(a.map, KeyOf(k)) = {}
              /\ r = Add(a, Entry(KeyOf(k), v, FALSE))
           \/ /\ \E i \in DOMAIN a.map : a.map[i].merged
              /\ r = Ignore(a)
           \/ r = [a EXCEPT !.error = "Duplicate map key"]
<1> DEFINE found == Matches(a.map, KeyOf(k))
           first == CHOOSE i \in found : \A j \in found : i <= j
<1>1. CASE found = {}
  BY <1>1 DEF HandleMapEntry
<1>2. CASE found # {}
  <2>1. found \subseteq DOMAIN a.map
    BY DEF Matches, Visited
  <2>2. DOMAIN a.map \subseteq Nat
    BY DEF AccsOver
  <2>3. \E i \in found : \A j \in found : i <= j
    BY <1>2, <2>1, <2>2, LeastExists
  <2>4. first \in DOMAIN a.map
    BY <2>1, <2>3
  <2>5. QED
    BY <1>2, <2>4 DEF HandleMapEntry
<1>3. QED
  BY <1>1, <1>2

(* So does an iteration of expand_merge, with two.                         *)
LEMMA MergeEntryCases ==
    ASSUME NEW a, NEW k, NEW v
    PROVE  LET r == ExpandMergeEntry(a, k, v) IN
           \/ /\ Matches(a.map, k) = {}
              /\ r = Add(a, Entry(k, v, TRUE))
           \/ r = Ignore(a)
BY DEF ExpandMergeEntry

(* Adding an entry whose key the search did not find: it stays an interim  *)
(* map, keys stay unique, and what was in the map stays where it was.      *)
LEMMA AddProperties ==
    ASSUME NEW K, NEW a \in AccsOver(K), NEW k \in K, NEW v \in K,
           NEW m \in BOOLEAN,
           Matches(a.map, k) = {}, Unambiguous(a.map)
    PROVE  LET r == Add(a, Entry(k, v, m)) IN
           /\ r \in AccsOver(K)
           /\ r.error = a.error
           /\ Unambiguous(r.map)
           /\ DOMAIN r.map = 1..(Len(a.map) + 1)
           /\ DOMAIN a.map = 1..Len(a.map)
           /\ \A i \in DOMAIN a.map : r.map[i] = a.map[i]
           /\ r.map[Len(a.map) + 1] = Entry(k, v, m)
<1> DEFINE e == Entry(k, v, m)
           r == Add(a, e)
<1>1. e \in EntriesOver(K) /\ e.key = k /\ e.value = v
  BY DEF EntriesOver, Entry
<1>2. a.map \in Seq(EntriesOver(K))
  BY DEF AccsOver
<1>3. r.map = Append(a.map, e) /\ r.error = a.error /\ r \in AccsOver(K)
  BY <1>1, <1>2 DEF Add, AccsOver
<1>4. /\ DOMAIN r.map = 1..(Len(a.map) + 1)
      /\ DOMAIN a.map = 1..Len(a.map)
      /\ \A i \in DOMAIN a.map : r.map[i] = a.map[i]
      /\ r.map[Len(a.map) + 1] = e
  BY <1>1, <1>2, <1>3
<1>5. Len(a.map) \in Nat
  BY <1>2
<1> HIDE DEF e, r
<1>6. ASSUME NEW i \in DOMAIN r.map, NEW j \in DOMAIN r.map,
             i < j, r.map[i].key = r.map[j].key
      PROVE  Hidden(r.map, i)
  <2>1. i \in DOMAIN a.map /\ 1..i \subseteq DOMAIN a.map /\ r.map[i] = a.map[i]
    BY <1>4, <1>5, <1>6
  <2>2. Hidden(a.map, i) => Hidden(r.map, i)
    BY <1>4, <2>1 DEF Hidden
  <2>3. CASE j \in DOMAIN a.map
    <3>1. r.map[j] = a.map[j]
      BY <1>4, <2>3
    <3>2. Hidden(a.map, i)
      BY <1>6, <2>1, <2>3, <3>1 DEF Unambiguous
    <3>3. QED
      BY <2>2, <3>2
  <2>4. CASE j \notin DOMAIN a.map
    <3>1. a.map[i].key = k
      BY <1>1, <1>4, <1>5, <1>6, <2>1, <2>4
    <3>2. i \notin Visited(a.map)
      BY <2>1, <3>1 DEF Matches
    <3>3. QED
      BY <2>1, <2>2, <3>2 DEF Visited, Hidden
  <2>5. QED
    BY <2>3, <2>4
<1>7. Unambiguous(r.map)
  BY <1>6 DEF Unambiguous
<1>8. QED
  BY <1>3, <1>4, <1>7 DEF e, r

(* A pair that is ignored leaves the map alone.                            *)
LEMMA IgnoreProperties ==
    ASSUME NEW K, NEW a \in AccsOver(K)
    PROVE  /\ Ignore(a) \in AccsOver(K)
           /\ Ignore(a).map = a.map
           /\ Ignore(a).error = a.error
<1> DEFINE w == IF MergeWarning THEN a.warned + 1 ELSE a.warned
<1>1. a.ignored + 1 \in Nat /\ w \in Nat
  BY OptionsAssumption DEF AccsOver
<1>2. Ignore(a) = [a EXCEPT !.ignored = a.ignored + 1, !.warned = w]
  BY DEF Ignore
<1> HIDE DEF w
<1>3. QED
  BY <1>1, <1>2 DEF AccsOver

(* So does a pair that sets an error.                                      *)
LEMMA ErrorProperties ==
    ASSUME NEW K, NEW a \in AccsOver(K), NEW m \in MapErrors
    PROVE  /\ [a EXCEPT !.error = m] \in AccsOver(K)
           /\ [a EXCEPT !.error = m].map = a.map
           /\ [a EXCEPT !.error = m].error = m
BY DEF AccsOver
(* What a plain pair does to a map that is being assembled.                *)
LEMMA HandleMapEntryProperties ==
    ASSUME NEW K, NEW a \in AccsOver(K), NEW v \in K, NEW q,
           KeyOf(q) \in K, Unambiguous(a.map)
    PROVE  TakesPair(K, a, q, v, HandleMapEntry(a, q, v))
<1> USE DEF Grows, NoneMerged, Holds, Written, TakesPair
<1> DEFINE k == KeyOf(q)
           r == HandleMapEntry(a, q, v)
<1>1. v \in K /\ k \in K
  OBVIOUS
<1>2. Len(a.map) \in Nat
  BY DEF AccsOver
<1>3. CASE Matches(a.map, k) = {} /\ r = Add(a, Entry(k, v, FALSE))
  <2> HIDE DEF r, k
  <2>1. /\ r \in AccsOver(K)
        /\ r.error = a.error
        /\ Unambiguous(r.map)
        /\ DOMAIN r.map = 1..(Len(a.map) + 1)
        /\ DOMAIN a.map = 1..Len(a.map)
        /\ \A i \in DOMAIN a.map : r.map[i] = a.map[i]
        /\ r.map[Len(a.map) + 1] = Entry(k, v, FALSE)
    <3> DEFINE m == FALSE
    <3>1. m \in BOOLEAN
      OBVIOUS
    <3>2. r = Add(a, Entry(k, v, m)) /\ Matches(a.map, k) = {}
      BY <1>3
    <3> HIDE DEF m
    <3>3. /\ r \in AccsOver(K)
          /\ r.error = a.error
          /\ Unambiguous(r.map)
          /\ DOMAIN r.map = 1..(Len(a.map) + 1)
          /\ DOMAIN a.map = 1..Len(a.map)
          /\ \A i \in DOMAIN a.map : r.map[i] = a.map[i]
          /\ r.map[Len(a.map) + 1] = Entry(k, v, m)
      BY <1>1, <3>1, <3>2, AddProperties
    <3>4. QED
      BY <3>3 DEF m
  <2>2. ~Entry(k, v, FALSE).merged
    BY DEF Entry
  <2>3. \A i \in DOMAIN r.map : i \in DOMAIN a.map \/ i = Len(a.map) + 1
    BY <1>2, <2>1
  <2>4. Len(a.map) + 1 \in DOMAIN r.map /\ DOMAIN a.map \subseteq DOMAIN r.map
    BY <1>2, <2>1
  <2>5. QED
    BY <2>1, <2>2, <2>3, <2>4 DEF r, k
<1>4. CASE (\E i \in DOMAIN a.map : a.map[i].merged) /\ r = Ignore(a)
  <2> HIDE DEF r
  <2>1. r \in AccsOver(K) /\ r.map = a.map /\ r.error = a.error
    BY <1>4, IgnoreProperties
  <2>2. QED
    BY <1>4, <2>1 DEF r
<1>5. CASE r = [a EXCEPT !.error = "Duplicate map key"]
  <2> HIDE DEF r
  <2>1. r \in AccsOver(K) /\ r.map = a.map /\ r.error = "Duplicate map key"
    <3> DEFINE m == "Duplicate map key"
    <3>1. m \in MapErrors
      BY DEF MapErrors
    <3>2. r = [a EXCEPT !.error = m]
      BY <1>5
    <3> HIDE DEF m
    <3>3. r \in AccsOver(K) /\ r.map = a.map /\ r.error = m
      BY <3>1, <3>2, ErrorProperties
    <3>4. QED
      BY <3>3 DEF m
  <2>2. QED
    BY <2>1 DEF r
<1>6. QED
  BY <1>1, <1>3, <1>4, <1>5, MapEntryCases

(* What a merged entry does to it.                                         *)
LEMMA ExpandMergeEntryProperties ==
    ASSUME NEW K, NEW a \in AccsOver(K), NEW k \in K, NEW v \in K,
           Unambiguous(a.map)
    PROVE  LET r == ExpandMergeEntry(a, k, v) IN
           Grows(K, a, r) /\ r.error = a.error
<1> USE DEF Grows
<1> DEFINE r == ExpandMergeEntry(a, k, v)
<1>1. k \in K /\ v \in K
  OBVIOUS
<1>2. Len(a.map) \in Nat
  BY DEF AccsOver
<1>3. CASE Matches(a.map, k) = {} /\ r = Add(a, Entry(k, v, TRUE))
  <2> HIDE DEF r
  <2>1. /\ r \in AccsOver(K)
        /\ r.error = a.error
        /\ Unambiguous(r.map)
        /\ DOMAIN r.map = 1..(Len(a.map) + 1)
        /\ DOMAIN a.map = 1..Len(a.map)
        /\ \A i \in DOMAIN a.map : r.map[i] = a.map[i]
    <3> DEFINE m == TRUE
    <3>1. m \in BOOLEAN
      OBVIOUS
    <3>2. r = Add(a, Entry(k, v, m)) /\ Matches(a.map, k) = {}
      BY <1>3
    <3> HIDE DEF m
    <3>3. QED
      BY <1>1, <3>1, <3>2, AddProperties
  <2>2. DOMAIN a.map \subseteq DOMAIN r.map
    BY <1>2, <2>1
  <2>3. QED
    BY <2>1, <2>2 DEF r
<1>4. CASE r = Ignore(a)
  <2> HIDE DEF r
  <2>1. r \in AccsOver(K) /\ r.map = a.map /\ r.error = a.error
    BY <1>4, IgnoreProperties
  <2>2. QED
    BY <2>1 DEF r
<1>5. QED
  BY <1>1, <1>3, <1>4, MergeEntryCases
-----------------------------------------------------------------------------
(* f[i] is the state after i iterations, and the last one is the result.   *)
ExpandMergeStates(A, acc, m, f) ==
    /\ f \in [0..Len(m.items) -> A]
    /\ f[0] = acc
    /\ \A i \in 1..Len(m.items) :
          f[i] = ExpandMergeEntry(f[i - 1], m.keys[i], m.items[i])
    /\ ExpandMerge(acc, m) = f[Len(m.items)]

(* The loop of expand_merge, for any set that its iterations stay in.      *)
LEMMA ExpandMergeLoop ==
    ASSUME NEW A, NEW acc \in A, NEW m, Len(m.items) \in Nat,
           \A b \in A : \A i \in 1..Len(m.items) :
              ExpandMergeEntry(b, m.keys[i], m.items[i]) \in A
    PROVE  \E f : ExpandMergeStates(A, acc, m, f)
<1> DEFINE n == Len(m.items)
           Step(b, i) == ExpandMergeEntry(b, m.keys[i], m.items[i])
           g == [x \in A \X (1..n) |-> Step(x[1], x[2])]
           Is(f) == f = [i \in 0..n |-> IF i = 0 THEN acc ELSE Step(f[i - 1], i)]
           c == CHOOSE f : Is(f)
<1>1. n \in Nat /\ \A b \in A : \A i \in 1..n : Step(b, i) \in A
  OBVIOUS
<1>2. ExpandMerge(acc, m) = c[n]
  BY DEF ExpandMerge
<1> HIDE DEF n, Step
<1>3. g \in [A \X (1..n) -> A] /\ \A b \in A : \A i \in 1..n : g[<<b, i>>] = Step(b, i)
  BY <1>1
<1> HIDE DEF g
<1>4. PICK f : LoopFrom(A, n, acc, g, f)
  BY <1>1, <1>3, LoopExists
<1>5. ASSUME NEW i \in 0..n, i # 0 PROVE g[<<f[i - 1], i>>] = Step(f[i - 1], i)
  <2>1. i - 1 \in 0..n /\ i \in 1..n
    BY <1>1, <1>5
  <2>2. f[i - 1] \in A
    BY <1>4, <2>1 DEF LoopFrom
  <2>3. QED
    BY <1>3, <2>1, <2>2
<1>6. Is(f)
  BY <1>4, <1>5 DEF LoopFrom
<1>7. Is(c)
  <2> HIDE DEF Is
  <2> QED BY <1>6
<1> HIDE DEF c
<1>8. c[0] = acc /\ \A i \in 1..n : c[i] = Step(c[i - 1], i)
  <2> DEFINE e == [i \in 0..n |-> IF i = 0 THEN acc ELSE Step(c[i - 1], i)]
  <2>1. e[0] = acc /\ \A i \in 1..n : e[i] = Step(c[i - 1], i)
    BY <1>1
  <2>2. c = e
    BY <1>7
  <2>3. QED
    BY <2>1, <2>2, Zenon
<1>9. \A i \in 0..n : c[i] \in A
  <2>1. \A i \in 1..n : c[i - 1] \in A => c[i] \in A
    BY <1>1, <1>8
  <2>2. QED
    BY <1>1, <1>8, <2>1, LoopStays
<1>10. c \in [0..n -> A]
  <2>1. c = [i \in 0..n |-> IF i = 0 THEN acc ELSE Step(c[i - 1], i)]
    BY <1>7
  <2>2. c = [i \in 0..n |-> c[i]]
    BY <2>1
  <2>3. QED
    BY <1>9, <2>2
<1> HIDE DEF Is
<1>11. QED
  BY <1>2, <1>8, <1>10 DEF Step, n, ExpandMergeStates
(* f[i] is the state after i iterations, and the last one is the result.   *)
MergeElementsStates(A, acc, maps, f) ==
    /\ f \in [0..Len(maps) -> A]
    /\ f[0] = acc
    /\ \A i \in 1..Len(maps) :
          f[i] = MergeElement(f[i - 1], maps[i])
    /\ MergeElements(acc, maps) = f[Len(maps)]

(* The loop of handle_merge over the elements of a list.                   *)
LEMMA MergeElementsLoop ==
    ASSUME NEW A, NEW acc \in A, NEW maps, Len(maps) \in Nat,
           \A b \in A : \A i \in 1..Len(maps) :
              MergeElement(b, maps[i]) \in A
    PROVE  \E f : MergeElementsStates(A, acc, maps, f)
<1> DEFINE n == Len(maps)
           Step(b, i) == MergeElement(b, maps[i])
           g == [x \in A \X (1..n) |-> Step(x[1], x[2])]
           Is(f) == f = [i \in 0..n |-> IF i = 0 THEN acc ELSE Step(f[i - 1], i)]
           c == CHOOSE f : Is(f)
<1>1. n \in Nat /\ \A b \in A : \A i \in 1..n : Step(b, i) \in A
  OBVIOUS
<1>2. MergeElements(acc, maps) = c[n]
  BY DEF MergeElements
<1> HIDE DEF n, Step
<1>3. g \in [A \X (1..n) -> A] /\ \A b \in A : \A i \in 1..n : g[<<b, i>>] = Step(b, i)
  BY <1>1
<1> HIDE DEF g
<1>4. PICK f : LoopFrom(A, n, acc, g, f)
  BY <1>1, <1>3, LoopExists
<1>5. ASSUME NEW i \in 0..n, i # 0 PROVE g[<<f[i - 1], i>>] = Step(f[i - 1], i)
  <2>1. i - 1 \in 0..n /\ i \in 1..n
    BY <1>1, <1>5
  <2>2. f[i - 1] \in A
    BY <1>4, <2>1 DEF LoopFrom
  <2>3. QED
    BY <1>3, <2>1, <2>2
<1>6. Is(f)
  BY <1>4, <1>5 DEF LoopFrom
<1>7. Is(c)
  <2> HIDE DEF Is
  <2> QED BY <1>6
<1> HIDE DEF c
<1>8. c[0] = acc /\ \A i \in 1..n : c[i] = Step(c[i - 1], i)
  <2> DEFINE e == [i \in 0..n |-> IF i = 0 THEN acc ELSE Step(c[i - 1], i)]
  <2>1. e[0] = acc /\ \A i \in 1..n : e[i] = Step(c[i - 1], i)
    BY <1>1
  <2>2. c = e
    BY <1>7
  <2>3. QED
    BY <2>1, <2>2, Zenon
<1>9. \A i \in 0..n : c[i] \in A
  <2>1. \A i \in 1..n : c[i - 1] \in A => c[i] \in A
    BY <1>1, <1>8
  <2>2. QED
    BY <1>1, <1>8, <2>1, LoopStays
<1>10. c \in [0..n -> A]
  <2>1. c = [i \in 0..n |-> IF i = 0 THEN acc ELSE Step(c[i - 1], i)]
    BY <1>7
  <2>2. c = [i \in 0..n |-> c[i]]
    BY <2>1
  <2>3. QED
    BY <1>9, <2>2
<1> HIDE DEF Is
<1>11. QED
  BY <1>2, <1>8, <1>10 DEF Step, n, MergeElementsStates
(* f[i] is the state after i iterations, and the last one is the result.   *)
HandlePairsStates(A, acc, pairs, kinds, f) ==
    /\ f \in [0..Len(pairs) -> A]
    /\ f[0] = acc
    /\ \A i \in 1..Len(pairs) :
          f[i] = HandlePair(f[i - 1], pairs[i], kinds)
    /\ HandlePairs(acc, pairs, kinds) = f[Len(pairs)]

(* The loops of handle_map over the pairs.                                 *)
LEMMA HandlePairsLoop ==
    ASSUME NEW A, NEW acc \in A, NEW pairs, NEW kinds, Len(pairs) \in Nat,
           \A b \in A : \A i \in 1..Len(pairs) :
              HandlePair(b, pairs[i], kinds) \in A
    PROVE  \E f : HandlePairsStates(A, acc, pairs, kinds, f)
<1> DEFINE n == Len(pairs)
           Step(b, i) == HandlePair(b, pairs[i], kinds)
           g == [x \in A \X (1..n) |-> Step(x[1], x[2])]
           Is(f) == f = [i \in 0..n |-> IF i = 0 THEN acc ELSE Step(f[i - 1], i)]
           c == CHOOSE f : Is(f)
<1>1. n \in Nat /\ \A b \in A : \A i \in 1..n : Step(b, i) \in A
  OBVIOUS
<1>2. HandlePairs(acc, pairs, kinds) = c[n]
  BY DEF HandlePairs
<1> HIDE DEF n, Step
<1>3. g \in [A \X (1..n) -> A] /\ \A b \in A : \A i \in 1..n : g[<<b, i>>] = Step(b, i)
  BY <1>1
<1> HIDE DEF g
<1>4. PICK f : LoopFrom(A, n, acc, g, f)
  BY <1>1, <1>3, LoopExists
<1>5. ASSUME NEW i \in 0..n, i # 0 PROVE g[<<f[i - 1], i>>] = Step(f[i - 1], i)
  <2>1. i - 1 \in 0..n /\ i \in 1..n
    BY <1>1, <1>5
  <2>2. f[i - 1] \in A
    BY <1>4, <2>1 DEF LoopFrom
  <2>3. QED
    BY <1>3, <2>1, <2>2
<1>6. Is(f)
  BY <1>4, <1>5 DEF LoopFrom
<1>7. Is(c)
  <2> HIDE DEF Is
  <2> QED BY <1>6
<1> HIDE DEF c
<1>8. c[0] = acc /\ \A i \in 1..n : c[i] = Step(c[i - 1], i)
  <2> DEFINE e == [i \in 0..n |-> IF i = 0 THEN acc ELSE Step(c[i - 1], i)]
  <2>1. e[0] = acc /\ \A i \in 1..n : e[i] = Step(c[i - 1], i)
    BY <1>1
  <2>2. c = e
    BY <1>7
  <2>3. QED
    BY <2>1, <2>2, Zenon
<1>9. \A i \in 0..n : c[i] \in A
  <2>1. \A i \in 1..n : c[i - 1] \in A => c[i] \in A
    BY <1>1, <1>8
  <2>2. QED
    BY <1>1, <1>8, <2>1, LoopStays
<1>10. c \in [0..n -> A]
  <2>1. c = [i \in 0..n |-> IF i = 0 THEN acc ELSE Step(c[i - 1], i)]
    BY <1>7
  <2>2. c = [i \in 0..n |-> c[i]]
    BY <2>1
  <2>3. QED
    BY <1>9, <2>2
<1> HIDE DEF Is
<1>11. QED
  BY <1>2, <1>8, <1>10 DEF Step, n, HandlePairsStates
-----------------------------------------------------------------------------
(* A set of objects with all their parts, and with the keys made of them.  *)
ClosedUnderParts(K) ==
    \A v \in K : /\ v.items \in Seq(K)
                 /\ v.keys \in Seq(K)
                 /\ IsMap(v) => Len(v.keys) = Len(v.items)
                 /\ KeyOf(v) \in K

(* Interim maps without two entries for a key and without the error that   *)
(* handle_map reserves for a state that cannot be.                         *)
SaneAccs(K) == {a \in AccsOver(K) : /\ Unambiguous(a.map)
                                    /\ a.error # "Merge override failed"}

(* expand_merge keeps an interim map sane.                                 *)
LEMMA ExpandMergeStays ==
    ASSUME NEW K, ClosedUnderParts(K), NEW acc \in SaneAccs(K), NEW m \in K, IsMap(m)
    PROVE  ExpandMerge(acc, m) \in SaneAccs(K)
<1> DEFINE A == SaneAccs(K)
           n == Len(m.items)
<1>1. /\ n \in Nat /\ n = Len(m.keys)
      /\ \A i \in 1..n : m.keys[i] \in K /\ m.items[i] \in K
  <2>1. m.items \in Seq(K) /\ m.keys \in Seq(K) /\ Len(m.keys) = Len(m.items)
    BY DEF ClosedUnderParts
  <2>2. QED
    BY <2>1
<1>2. ASSUME NEW b \in A, NEW i \in 1..n
      PROVE  ExpandMergeEntry(b, m.keys[i], m.items[i]) \in A
  <2> DEFINE k == m.keys[i]
             v == m.items[i]
  <2>1. k \in K /\ v \in K /\ b \in AccsOver(K) /\ Unambiguous(b.map)
    BY <1>1 DEF SaneAccs
  <2> HIDE DEF k, v
  <2>2. Grows(K, b, ExpandMergeEntry(b, k, v)) /\ ExpandMergeEntry(b, k, v).error = b.error
    BY <2>1, ExpandMergeEntryProperties
  <2>3. QED
    BY <2>2 DEF Grows, SaneAccs, k, v
<1> HIDE DEF A
<1>3. PICK f : ExpandMergeStates(A, acc, m, f)
  <2>1. acc \in A
    BY DEF A
  <2>2. QED
    BY <1>1, <1>2, <2>1, ExpandMergeLoop
<1>4. f[n] \in A /\ ExpandMerge(acc, m) = f[n]
  BY <1>1, <1>3 DEF ExpandMergeStates
<1>5. QED
  BY <1>4 DEF A

(* So does handle_merge.                                                   *)
LEMMA IllegalMergeStays ==
    ASSUME NEW K, NEW acc \in SaneAccs(K)
    PROVE  [acc EXCEPT !.error = "Illegal merge"] \in SaneAccs(K)
<1> DEFINE m == "Illegal merge"
           r == [acc EXCEPT !.error = m]
<1>1. m \in MapErrors /\ m # "Merge override failed" /\ acc \in AccsOver(K)
  BY DEF MapErrors, SaneAccs
<1> HIDE DEF m
<1>2. r \in AccsOver(K) /\ r.map = acc.map /\ r.error = m
  BY <1>1 DEF AccsOver
<1>3. QED
  BY <1>1, <1>2 DEF SaneAccs, m

(* handle_merge does so with a map, with a list of maps, and with what it  *)
(* refuses.                                                                *)
LEMMA HandleMergeStays ==
    ASSUME NEW K, ClosedUnderParts(K), NEW acc \in SaneAccs(K), NEW value \in K
    PROVE  HandleMerge(acc, value) \in SaneAccs(K)
<1> DEFINE A == SaneAccs(K)
           s == value.items
<1>1. s \in Seq(K) /\ Len(s) \in Nat /\ \A i \in 1..Len(s) : s[i] \in K
  <2>1. s \in Seq(K)
    BY DEF ClosedUnderParts
  <2> HIDE DEF s
  <2>2. QED
    BY <2>1
<1>2. ASSUME NEW b \in A, NEW i \in 1..Len(s) PROVE MergeElement(b, s[i]) \in A
  <2> DEFINE m == s[i]
  <2>1. m \in K
    BY <1>1
  <2> HIDE DEF m
  <2>2. MergeElement(b, m) \in A
    BY <2>1, ExpandMergeStays, IllegalMergeStays DEF MergeElement
  <2>3. QED
    BY <2>2 DEF m
<1>3. MergeElements(acc, s) \in A
  <2> HIDE DEF A, s
  <2>1. acc \in A
    BY DEF A
  <2>2. PICK f : MergeElementsStates(A, acc, s, f)
    BY <1>1, <1>2, <2>1, MergeElementsLoop
  <2>3. QED
    BY <1>1, <2>2 DEF MergeElementsStates
<1>4. QED
  BY <1>3, ExpandMergeStays, IllegalMergeStays DEF HandleMerge

(* So do the loops of handle_map, from the empty map on.                   *)
LEMMA HandlePairStays ==
    ASSUME NEW K, ClosedUnderParts(K), NEW acc \in SaneAccs(K), NEW pair,
           pair.key \in K, pair.value \in K, NEW kinds
    PROVE  HandlePair(acc, pair, kinds) \in SaneAccs(K)
<1> DEFINE q == pair.key
           v == pair.value
           r == HandleMapEntry(acc, q, v)
<1>1. /\ acc \in AccsOver(K) /\ Unambiguous(acc.map)
      /\ KeyOf(q) \in K /\ v \in K
  BY DEF SaneAccs, ClosedUnderParts
<1>2. TakesPair(K, acc, q, v, r)
  <2> HIDE DEF q, v
  <2> QED BY <1>1, HandleMapEntryProperties
<1>3. r \in SaneAccs(K)
  <2> HIDE DEF r, q, v
  <2> QED BY <1>2 DEF TakesPair, Grows, SaneAccs
<1>4. HandleMerge(acc, v) \in SaneAccs(K)
  BY HandleMergeStays
<1>5. QED
  BY <1>3, <1>4 DEF HandlePair

(* A pass over the pairs does so, whatever kinds it takes.                 *)
LEMMA HandlePairsStays ==
    ASSUME NEW K, ClosedUnderParts(K), NEW acc \in SaneAccs(K), NEW pairs,
           Len(pairs) \in Nat,
           \A i \in 1..Len(pairs) : pairs[i].key \in K /\ pairs[i].value \in K,
           NEW kinds
    PROVE  HandlePairs(acc, pairs, kinds) \in SaneAccs(K)
<1> DEFINE A == SaneAccs(K)
<1>1. ASSUME NEW b \in A, NEW i \in 1..Len(pairs)
      PROVE  HandlePair(b, pairs[i], kinds) \in A
  BY HandlePairStays
<1>2. acc \in A
  OBVIOUS
<1> HIDE DEF A
<1>3. PICK f : HandlePairsStates(A, acc, pairs, kinds, f)
  BY <1>1, <1>2, HandlePairsLoop
<1>4. QED
  BY <1>3 DEF HandlePairsStates, A

(* Whatever the pairs, handle_map ends with a sane interim map.            *)
LEMMA AssembleMapIsSane ==
    ASSUME NEW K, ClosedUnderParts(K), NEW pairs, Len(pairs) \in Nat,
           \A i \in 1..Len(pairs) : pairs[i].key \in K /\ pairs[i].value \in K
    PROVE  AssembleMap(pairs) \in SaneAccs(K)
<1>1. EmptyMap \in SaneAccs(K)
  <2>1. <<>> \in Seq(EntriesOver(K)) /\ "" \in MapErrors /\ 0 \in Nat /\ DOMAIN <<>> = {}
    BY DEF MapErrors
  <2>2. QED
    BY <2>1 DEF EmptyMap, SaneAccs, AccsOver, Unambiguous
<1>2. QED
  BY <1>1, HandlePairsStays DEF AssembleMap
-----------------------------------------------------------------------------
(* A loop over a sequence as the function of its step: what MapEntries'    *)
(* loops are, so that one can be unrolled at either end.                   *)
Folded(g, a, s) ==
    LET after[i \in 0..Len(s)] ==
            IF i = 0 THEN a ELSE g[<<after[i - 1], s[i]>>]
    IN  after[Len(s)]

(* f holds the states of such a loop.                                      *)
FoldStates(A, g, a, s, f) ==
    /\ f \in [0..Len(s) -> A]
    /\ f[0] = a
    /\ \A i \in 1..Len(s) : f[i] = g[<<f[i - 1], s[i]>>]
    /\ Folded(g, a, s) = f[Len(s)]

(* The states are there, and the last of them is the result.               *)
LEMMA FoldLoop ==
    ASSUME NEW A, NEW T, NEW g \in [A \X T -> A], NEW a \in A, NEW s \in Seq(T)
    PROVE  \E f : FoldStates(A, g, a, s, f)
<1> DEFINE n == Len(s)
           h == [x \in A \X (1..n) |-> g[<<x[1], s[x[2]]>>]]
           Is(f) == f = [i \in 0..n |-> IF i = 0 THEN a ELSE g[<<f[i - 1], s[i]>>]]
           c == CHOOSE f : Is(f)
<1>1. n \in Nat /\ \A i \in 1..n : s[i] \in T
  OBVIOUS
<1>2. Folded(g, a, s) = c[n]
  BY DEF Folded
<1> HIDE DEF n
<1>3. h \in [A \X (1..n) -> A] /\ \A b \in A : \A i \in 1..n : h[<<b, i>>] = g[<<b, s[i]>>]
  BY <1>1
<1> HIDE DEF h
<1>4. PICK f : LoopFrom(A, n, a, h, f)
  BY <1>1, <1>3, LoopExists
<1>5. ASSUME NEW i \in 0..n, i # 0 PROVE h[<<f[i - 1], i>>] = g[<<f[i - 1], s[i]>>]
  <2>1. i - 1 \in 0..n /\ i \in 1..n
    BY <1>1, <1>5
  <2>2. f[i - 1] \in A
    BY <1>4, <2>1 DEF LoopFrom
  <2>3. QED
    BY <1>3, <2>1, <2>2
<1>6. Is(f)
  BY <1>4, <1>5 DEF LoopFrom
<1>7. Is(c)
  <2> HIDE DEF Is
  <2> QED BY <1>6
<1> HIDE DEF c
<1>8. c[0] = a /\ \A i \in 1..n : c[i] = g[<<c[i - 1], s[i]>>]
  <2> DEFINE e == [i \in 0..n |-> IF i = 0 THEN a ELSE g[<<c[i - 1], s[i]>>]]
  <2>1. e[0] = a /\ \A i \in 1..n : e[i] = g[<<c[i - 1], s[i]>>]
    BY <1>1
  <2>2. c = e
    BY <1>7
  <2>3. QED
    BY <2>1, <2>2, Zenon
<1>9. \A i \in 0..n : c[i] \in A
  <2>1. \A i \in 1..n : c[i - 1] \in A => c[i] \in A
    BY <1>1, <1>8
  <2>2. QED
    BY <1>1, <1>8, <2>1, LoopStays
<1>10. c \in [0..n -> A]
  <2>1. c = [i \in 0..n |-> IF i = 0 THEN a ELSE g[<<c[i - 1], s[i]>>]]
    BY <1>7
  <2>2. c = [i \in 0..n |-> c[i]]
    BY <2>1
  <2>3. QED
    BY <1>9, <2>2
<1> HIDE DEF Is
<1>11. QED
  BY <1>2, <1>8, <1>10 DEF n, FoldStates

(* There is only one function of the states, whatever step it is made      *)
(* with, as long as that step agrees on the elements of the sequence.      *)
LEMMA StatesAgree ==
    ASSUME NEW n \in Nat, NEW e, NEW f, e[0] = f[0],
           \A i \in 1..n : e[i - 1] = f[i - 1] => e[i] = f[i]
    PROVE  e[n] = f[n]
<1> DEFINE G == {i \in 0..n : e[i] = f[i]}
<1>1. 0 \in G
  OBVIOUS
<1>2. ASSUME NEW i \in 0..(n - 1), i \in G PROVE i + 1 \in G
  <2>1. i + 1 \in 1..n /\ (i + 1) - 1 = i /\ e[i] = f[i]
    BY <1>2
  <2>2. e[i + 1] = f[i + 1]
    BY <2>1
  <2>3. QED
    BY <2>1, <2>2
<1>3. \A i \in 0..n : i \in G
  <2> HIDE DEF G
  <2> QED BY <1>1, <1>2, UpTo
<1>4. QED
  BY <1>3

(* The result from the states of a loop.                                   *)
StepsOf(A, g, a, s, f) ==
    /\ f[0] = a
    /\ \A i \in 1..Len(s) : f[i - 1] \in A => f[i] = g[<<f[i - 1], s[i]>>]

EndsWith(g, a, s, f) == Folded(g, a, s) = f[Len(s)]

(* The states of such a loop end with its result.                          *)
LEMMA FoldIs ==
    ASSUME NEW A, NEW T, NEW g \in [A \X T -> A], NEW s \in Seq(T), NEW a \in A,
           NEW f, StepsOf(A, g, a, s, f)
    PROVE  EndsWith(g, a, s, f)
<1>1. PICK e : FoldStates(A, g, a, s, e)
  BY FoldLoop
<1> DEFINE n == Len(s)
<1>2. ASSUME NEW i \in 1..n, e[i - 1] = f[i - 1] PROVE e[i] = f[i]
  <2>1. i - 1 \in 0..n
    OBVIOUS
  <2>2. e[i - 1] \in A /\ e[i] = g[<<e[i - 1], s[i]>>]
    BY <1>1, <2>1 DEF FoldStates
  <2>3. QED
    BY <1>2, <2>2 DEF StepsOf
<1>3. e[0] = f[0] /\ n \in Nat
  BY <1>1 DEF FoldStates, StepsOf
<1>4. e[n] = f[n]
  <2> HIDE DEF n
  <2> QED BY <1>2, <1>3, StatesAgree
<1>5. QED
  BY <1>1, <1>4 DEF FoldStates, EndsWith

(* A loop over nothing, and a loop that ends with one more element.        *)
LastStep(A, T, g, a, s) ==
    /\ Folded(g, a, s) \in A
    /\ s = <<>> => Folded(g, a, s) = a
    /\ \A t \in T : Folded(g, a, Append(s, t)) = g[<<Folded(g, a, s), t>>]

(* What the loop does there.                                               *)
LEMMA FoldEnd ==
    ASSUME NEW A, NEW T, NEW g \in [A \X T -> A], NEW a \in A, NEW s \in Seq(T)
    PROVE  LastStep(A, T, g, a, s)
<1> DEFINE n == Len(s)
<1>1. n \in Nat /\ \A i \in 1..n : s[i] \in T
  OBVIOUS
<1>2. PICK f : FoldStates(A, g, a, s, f)
  BY FoldLoop
<1>3. /\ f \in [0..n -> A] /\ f[0] = a
      /\ \A i \in 1..n : f[i] = g[<<f[i - 1], s[i]>>]
      /\ Folded(g, a, s) = f[n]
  BY <1>2 DEF FoldStates
<1>4. f[n] \in A /\ (s = <<>> => n = 0)
  BY <1>1, <1>3
<1>5. ASSUME NEW t \in T PROVE Folded(g, a, Append(s, t)) = g[<<f[n], t>>]
  <2> DEFINE r == Append(s, t)
             h == [i \in 0..(n + 1) |-> IF i = n + 1 THEN g[<<f[n], t>>] ELSE f[i]]
  <2>1. /\ r \in Seq(T) /\ Len(r) = n + 1 /\ r[n + 1] = t
        /\ \A i \in 1..n : r[i] = s[i]
    OBVIOUS
  <2>2. h[n + 1] = g[<<f[n], t>>] /\ \A i \in 0..n : h[i] = f[i]
    BY <1>1
  <2> HIDE DEF n, h, r
  <2>3. h[0] = a /\ n + 1 \in Nat
    BY <1>1, <1>3, <2>2
  <2>4. ASSUME NEW i \in 1..(n + 1) PROVE h[i] = g[<<h[i - 1], r[i]>>]
    <3>1. CASE i = n + 1
      <4>1. i - 1 = n /\ n \in 0..n
        BY <1>1, <3>1
      <4>2. h[i - 1] = f[n]
        BY <2>2, <4>1
      <4>3. QED
        BY <2>1, <2>2, <3>1, <4>2
    <3>2. CASE i # n + 1
      <4>1. i \in 1..n /\ i \in 0..n /\ i - 1 \in 0..n
        BY <1>1, <3>2
      <4>2. QED
        BY <1>3, <2>1, <2>2, <4>1
    <3>3. QED
      BY <3>1, <3>2
  <2>5. Folded(g, a, r) = h[n + 1]
    <3>1. StepsOf(A, g, a, r, h)
      BY <2>1, <2>3, <2>4 DEF StepsOf
    <3>2. r \in Seq(T)
      BY <2>1
    <3>3. EndsWith(g, a, r, h)
      BY <3>1, <3>2, FoldIs
    <3>4. QED
      BY <2>1, <3>3 DEF EndsWith
  <2>6. QED
    BY <2>2, <2>3, <2>5 DEF r
<1>6. QED
  BY <1>3, <1>4, <1>5 DEF LastStep

(* A loop that begins with one element.                                    *)
FirstStep(A, T, g, a, s) ==
    /\ Head(s) \in T /\ Tail(s) \in Seq(T)
    /\ g[<<a, Head(s)>>] \in A
    /\ Folded(g, a, s) = Folded(g, g[<<a, Head(s)>>], Tail(s))

(* What the loop does there.                                               *)
LEMMA FoldHead ==
    ASSUME NEW A, NEW T, NEW g \in [A \X T -> A], NEW a \in A,
           NEW s \in Seq(T), s # <<>>
    PROVE  FirstStep(A, T, g, a, s)
<1> DEFINE n == Len(s)
           r == Tail(s)
           b == g[<<a, Head(s)>>]
<1>1. n \in Nat \ {0} /\ n - 1 \in Nat /\ \A i \in 1..n : s[i] \in T
  OBVIOUS
<1>2. /\ r \in Seq(T) /\ Len(r) = n - 1 /\ \A i \in 1..(n - 1) : r[i] = s[i + 1]
      /\ Head(s) = s[1] /\ s[1] \in T
  OBVIOUS
<1>3. b \in A
  BY <1>2
<1> HIDE DEF r
<1>4. PICK f : FoldStates(A, g, b, r, f)
  BY <1>2, <1>3, FoldLoop
<1> HIDE DEF n
<1>5. /\ f \in [0..(n - 1) -> A] /\ f[0] = b
      /\ \A i \in 1..(n - 1) : f[i] = g[<<f[i - 1], r[i]>>]
  BY <1>2, <1>4 DEF FoldStates
<1>11. Folded(g, b, r) = f[n - 1]
  BY <1>2, <1>4 DEF FoldStates
<1> DEFINE h == [i \in 0..n |-> IF i = 0 THEN a ELSE f[i - 1]]
<1>6. h[0] = a /\ \A i \in 1..n : h[i] = f[i - 1]
  BY <1>1
<1> HIDE DEF h, b
<1>7. ASSUME NEW i \in 1..n PROVE h[i] = g[<<h[i - 1], s[i]>>]
  <2>1. CASE i = 1
    <3>1. h[1] = f[0] /\ h[i - 1] = a /\ s[i] = Head(s)
      BY <1>1, <1>2, <1>6, <2>1
    <3>2. QED
      BY <1>5, <2>1, <3>1 DEF b
  <2>2. CASE i # 1
    <3>1. i - 1 \in 1..(n - 1) /\ i - 1 \in 1..n /\ (i - 1) + 1 = i
      BY <1>1, <2>2
    <3>2. f[i - 1] = g[<<f[(i - 1) - 1], r[i - 1]>>] /\ r[i - 1] = s[i]
      BY <1>2, <1>5, <3>1
    <3>3. h[i] = f[i - 1] /\ h[i - 1] = f[(i - 1) - 1]
      BY <1>6, <3>1
    <3>4. QED
      BY <3>2, <3>3
  <2>3. QED
    BY <2>1, <2>2
<1>8. Folded(g, a, s) = h[n]
  <2>1. StepsOf(A, g, a, s, h)
    BY <1>6, <1>7 DEF StepsOf, n
  <2>2. EndsWith(g, a, s, h)
    BY <2>1, FoldIs
  <2>3. QED
    BY <2>2 DEF n, EndsWith
<1>9. h[n] = f[n - 1]
  BY <1>1, <1>6
<1>10. QED
  BY <1>2, <1>3, <1>8, <1>9, <1>11 DEF b, r, FirstStep

-----------------------------------------------------------------------------
(* The three loops as folds.                                               *)
PairsOver(K) == [key : K, value : K]

PairStep(K, kinds) ==
    [x \in SaneAccs(K) \X PairsOver(K) |-> HandlePair(x[1], x[2], kinds)]
ElementStep(K) == [x \in SaneAccs(K) \X K |-> MergeElement(x[1], x[2])]
EntryStep(K) == [x \in SaneAccs(K) \X PairsOver(K) |->
                    ExpandMergeEntry(x[1], x[2].key, x[2].value)]

(* The entries of a map, and what expand_merge makes of some of them.      *)
EntriesOf(m) == [i \in DOMAIN m.items |-> [key |-> m.keys[i], value |-> m.items[i]]]
ExpandEntries(K, acc, s) == Folded(EntryStep(K), acc, s)

(* Their steps stay among the sane maps.                                   *)
LEMMA StepsAreSane ==
    ASSUME NEW K, ClosedUnderParts(K), NEW kinds
    PROVE  /\ PairStep(K, kinds) \in [SaneAccs(K) \X PairsOver(K) -> SaneAccs(K)]
           /\ ElementStep(K) \in [SaneAccs(K) \X K -> SaneAccs(K)]
           /\ EntryStep(K) \in [SaneAccs(K) \X PairsOver(K) -> SaneAccs(K)]
           /\ \A a \in SaneAccs(K) : \A p \in PairsOver(K) :
                 /\ PairStep(K, kinds)[<<a, p>>] = HandlePair(a, p, kinds)
                 /\ EntryStep(K)[<<a, p>>] = ExpandMergeEntry(a, p.key, p.value)
           /\ \A a \in SaneAccs(K) : \A m \in K :
                 ElementStep(K)[<<a, m>>] = MergeElement(a, m)
<1> DEFINE A == SaneAccs(K)
           T == PairsOver(K)
<1>1. ASSUME NEW a \in A, NEW p \in T
      PROVE  HandlePair(a, p, kinds) \in A /\ ExpandMergeEntry(a, p.key, p.value) \in A
  <2>1. p.key \in K /\ p.value \in K
    BY DEF PairsOver
  <2>2. HandlePair(a, p, kinds) \in A
    BY <2>1, HandlePairStays
  <2> DEFINE k == p.key
             v == p.value
  <2>3. a \in AccsOver(K) /\ Unambiguous(a.map) /\ k \in K /\ v \in K
    BY <2>1 DEF SaneAccs
  <2> HIDE DEF k, v
  <2>4. Grows(K, a, ExpandMergeEntry(a, k, v)) /\ ExpandMergeEntry(a, k, v).error = a.error
    BY <2>3, ExpandMergeEntryProperties
  <2>5. ExpandMergeEntry(a, k, v) \in A
    BY <2>4 DEF Grows, SaneAccs
  <2>6. QED
    BY <2>2, <2>5 DEF k, v
<1>2. ASSUME NEW a \in A, NEW m \in K PROVE MergeElement(a, m) \in A
  BY ExpandMergeStays, IllegalMergeStays DEF MergeElement
<1> HIDE DEF A, T
<1>3. \A x \in A \X T : x[1] \in A /\ x[2] \in T
  OBVIOUS
<1>4. \A x \in A \X K : x[1] \in A /\ x[2] \in K
  OBVIOUS
<1>5. /\ PairStep(K, kinds) = [x \in A \X T |-> HandlePair(x[1], x[2], kinds)]
      /\ EntryStep(K) = [x \in A \X T |-> ExpandMergeEntry(x[1], x[2].key, x[2].value)]
      /\ ElementStep(K) = [x \in A \X K |-> MergeElement(x[1], x[2])]
  BY DEF PairStep, EntryStep, ElementStep, A, T
<1>6. PairStep(K, kinds) \in [A \X T -> A] /\ EntryStep(K) \in [A \X T -> A]
  BY <1>1, <1>3, <1>5
<1>7. ElementStep(K) \in [A \X K -> A]
  BY <1>2, <1>4, <1>5
<1>8. \A a \in A : \A p \in T : /\ PairStep(K, kinds)[<<a, p>>] = HandlePair(a, p, kinds)
                                /\ EntryStep(K)[<<a, p>>] = ExpandMergeEntry(a, p.key, p.value)
  BY <1>5
<1>9. \A a \in A : \A m \in K : ElementStep(K)[<<a, m>>] = MergeElement(a, m)
  BY <1>5
<1>10. QED
  BY <1>6, <1>7, <1>8, <1>9 DEF A, T

(* A pass over the pairs is a fold.                                        *)
LEMMA PairsFold ==
    ASSUME NEW K, ClosedUnderParts(K), NEW acc \in SaneAccs(K),
           NEW s \in Seq(PairsOver(K)), NEW kinds
    PROVE  HandlePairs(acc, s, kinds) = Folded(PairStep(K, kinds), acc, s)
<1> DEFINE A == SaneAccs(K)
           g == PairStep(K, kinds)
<1>1. /\ Len(s) \in Nat /\ \A i \in 1..Len(s) : s[i] \in PairsOver(K)
  OBVIOUS
<1>2. /\ g \in [A \X PairsOver(K) -> A]
      /\ \A a \in A : \A p \in PairsOver(K) : g[<<a, p>>] = HandlePair(a, p, kinds)
  BY StepsAreSane
<1>3. ASSUME NEW b \in A, NEW i \in 1..Len(s) PROVE HandlePair(b, s[i], kinds) \in A
  <2>1. s[i] \in PairsOver(K)
    BY <1>1
  <2>2. s[i].key \in K /\ s[i].value \in K
    BY <2>1 DEF PairsOver
  <2>3. QED
    BY <2>2, HandlePairStays
<1>4. acc \in A
  OBVIOUS
<1> HIDE DEF A, g
<1>5. PICK f : HandlePairsStates(A, acc, s, kinds, f)
  BY <1>1, <1>3, <1>4, HandlePairsLoop
<1>6. f[0] = acc /\ HandlePairs(acc, s, kinds) = f[Len(s)]
  BY <1>5 DEF HandlePairsStates
<1>7. StepsOf(A, g, acc, s, f)
  BY <1>1, <1>2, <1>5, <1>6 DEF StepsOf, HandlePairsStates
<1>8. EndsWith(g, acc, s, f)
  BY <1>2, <1>4, <1>7, FoldIs
<1>9. QED
  BY <1>6, <1>8 DEF EndsWith, g

(* So is the loop over the elements of a list.                             *)
LEMMA ElementsFold ==
    ASSUME NEW K, ClosedUnderParts(K), NEW acc \in SaneAccs(K), NEW s \in Seq(K)
    PROVE  MergeElements(acc, s) = Folded(ElementStep(K), acc, s)
<1> DEFINE A == SaneAccs(K)
           g == ElementStep(K)
<1>1. /\ Len(s) \in Nat /\ \A i \in 1..Len(s) : s[i] \in K
  OBVIOUS
<1>2. /\ g \in [A \X K -> A]
      /\ \A a \in A : \A m \in K : g[<<a, m>>] = MergeElement(a, m)
  BY StepsAreSane
<1>3. acc \in A
  OBVIOUS
<1> HIDE DEF A, g
<1>4. ASSUME NEW b \in A, NEW i \in 1..Len(s) PROVE MergeElement(b, s[i]) \in A
  BY <1>1, <1>2
<1>5. PICK f : MergeElementsStates(A, acc, s, f)
  BY <1>1, <1>3, <1>4, MergeElementsLoop
<1>6. f[0] = acc /\ MergeElements(acc, s) = f[Len(s)]
  BY <1>5 DEF MergeElementsStates
<1>7. StepsOf(A, g, acc, s, f)
  BY <1>1, <1>2, <1>5, <1>6 DEF StepsOf, MergeElementsStates
<1>8. EndsWith(g, acc, s, f)
  BY <1>2, <1>3, <1>7, FoldIs
<1>9. QED
  BY <1>6, <1>8 DEF EndsWith, g

(* And expand_merge, over the entries of its map.                          *)
LEMMA ExpandMergeFold ==
    ASSUME NEW K, ClosedUnderParts(K), NEW acc \in SaneAccs(K), NEW m \in K, IsMap(m)
    PROVE  /\ EntriesOf(m) \in Seq(PairsOver(K))
           /\ ExpandMerge(acc, m) = ExpandEntries(K, acc, EntriesOf(m))
<1> DEFINE A == SaneAccs(K)
           g == EntryStep(K)
           n == Len(m.items)
           s == EntriesOf(m)
<1>1. /\ n \in Nat /\ DOMAIN m.items = 1..n
      /\ \A i \in 1..n : m.keys[i] \in K /\ m.items[i] \in K
  <2>1. m.items \in Seq(K) /\ m.keys \in Seq(K) /\ Len(m.keys) = Len(m.items)
    BY DEF ClosedUnderParts
  <2>2. QED
    BY <2>1
<1>2. /\ g \in [A \X PairsOver(K) -> A]
      /\ \A a \in A : \A p \in PairsOver(K) :
            g[<<a, p>>] = ExpandMergeEntry(a, p.key, p.value)
  BY StepsAreSane
<1>3. acc \in A
  OBVIOUS
<1>4. /\ s \in Seq(PairsOver(K)) /\ Len(s) = n
      /\ \A i \in 1..n : s[i] = [key |-> m.keys[i], value |-> m.items[i]]
  <2> HIDE DEF n
  <2>1. s = [i \in 1..n |-> [key |-> m.keys[i], value |-> m.items[i]]]
    BY <1>1 DEF EntriesOf
  <2>2. \A i \in 1..n : [key |-> m.keys[i], value |-> m.items[i]] \in PairsOver(K)
    BY <1>1 DEF PairsOver
  <2> HIDE DEF s
  <2>3. QED
    BY <1>1, <2>1, <2>2
<1> HIDE DEF s, n
<1>5. \A i \in 1..n : s[i] \in PairsOver(K) /\ s[i].key = m.keys[i] /\ s[i].value = m.items[i]
  <2>1. \A i \in 1..n : s[i] \in PairsOver(K)
    BY <1>4
  <2>2. \A i \in 1..n : s[i].key = m.keys[i] /\ s[i].value = m.items[i]
    BY <1>4
  <2>3. QED
    BY <2>1, <2>2
<1> HIDE DEF A, g
<1>6. ASSUME NEW b \in A, NEW i \in 1..n
      PROVE  /\ ExpandMergeEntry(b, m.keys[i], m.items[i]) \in A
             /\ g[<<b, s[i]>>] = ExpandMergeEntry(b, m.keys[i], m.items[i])
  <2>1. g[<<b, s[i]>>] = ExpandMergeEntry(b, s[i].key, s[i].value) /\ g[<<b, s[i]>>] \in A
    BY <1>2, <1>5
  <2>2. QED
    BY <1>5, <2>1
<1>7. PICK f : ExpandMergeStates(A, acc, m, f)
  BY <1>1, <1>3, <1>6, ExpandMergeLoop DEF n
<1>8. f[0] = acc /\ ExpandMerge(acc, m) = f[n]
  BY <1>7 DEF ExpandMergeStates, n
<1>9. StepsOf(A, g, acc, s, f)
  BY <1>4, <1>6, <1>7, <1>8 DEF StepsOf, ExpandMergeStates, n
<1>10. EndsWith(g, acc, s, f)
  BY <1>2, <1>3, <1>4, <1>9, FoldIs
<1>11. QED
  BY <1>4, <1>8, <1>10 DEF EndsWith, ExpandEntries, g, s

-----------------------------------------------------------------------------
(* A pass taken apart at its first pair and at its last one.               *)
PassUnrolled(K, acc, s, kinds) ==
    /\ HandlePairs(acc, s, kinds) \in SaneAccs(K)
    /\ s = <<>> => HandlePairs(acc, s, kinds) = acc
    /\ s # <<>> => /\ Head(s) \in PairsOver(K) /\ Tail(s) \in Seq(PairsOver(K))
                   /\ HandlePair(acc, Head(s), kinds) \in SaneAccs(K)
                   /\ HandlePairs(acc, s, kinds) =
                         HandlePairs(HandlePair(acc, Head(s), kinds), Tail(s), kinds)
    /\ \A p \in PairsOver(K) : HandlePairs(acc, Append(s, p), kinds) =
                                  HandlePair(HandlePairs(acc, s, kinds), p, kinds)

(* HandlePairs can be.                                                     *)
LEMMA UnrollPass ==
    ASSUME NEW K, ClosedUnderParts(K), NEW acc \in SaneAccs(K),
           NEW s \in Seq(PairsOver(K)), NEW kinds
    PROVE  PassUnrolled(K, acc, s, kinds)
<1> DEFINE A == SaneAccs(K)
           T == PairsOver(K)
           g == PairStep(K, kinds)
           Run(a, q) == HandlePairs(a, q, kinds)
<1>1. /\ g \in [A \X T -> A]
      /\ \A a \in A : \A p \in T : g[<<a, p>>] = HandlePair(a, p, kinds)
  BY StepsAreSane
<1>2. \A a \in A : \A q \in Seq(T) : Run(a, q) = Folded(g, a, q)
  BY PairsFold
<1>3. acc \in A /\ s \in Seq(T)
  OBVIOUS
<1> HIDE DEF A, T, g, Run
<1>4. /\ Folded(g, acc, s) \in A
      /\ s = <<>> => Folded(g, acc, s) = acc
      /\ \A t \in T : Folded(g, acc, Append(s, t)) = g[<<Folded(g, acc, s), t>>]
  <2>1. LastStep(A, T, g, acc, s)
    BY <1>1, <1>3, FoldEnd
  <2>2. QED
    BY <2>1 DEF LastStep
<1>5. Run(acc, s) \in A /\ (s = <<>> => Run(acc, s) = acc)
  BY <1>2, <1>3, <1>4
<1>6. ASSUME NEW p \in T PROVE Run(acc, Append(s, p)) = HandlePair(Run(acc, s), p, kinds)
  <2>1. Append(s, p) \in Seq(T)
    BY <1>3
  <2>2. Run(acc, Append(s, p)) = g[<<Run(acc, s), p>>]
    BY <1>2, <1>3, <1>4, <2>1
  <2>3. QED
    BY <1>1, <1>5, <2>2
<1>7. ASSUME s # <<>>
      PROVE  /\ Head(s) \in T /\ Tail(s) \in Seq(T)
             /\ HandlePair(acc, Head(s), kinds) \in A
             /\ Run(acc, s) = Run(HandlePair(acc, Head(s), kinds), Tail(s))
  <2>1. /\ Head(s) \in T /\ Tail(s) \in Seq(T)
        /\ g[<<acc, Head(s)>>] \in A
        /\ Folded(g, acc, s) = Folded(g, g[<<acc, Head(s)>>], Tail(s))
    <3>1. FirstStep(A, T, g, acc, s)
      BY <1>1, <1>3, <1>7, FoldHead
    <3>2. QED
      BY <3>1 DEF FirstStep
  <2>2. g[<<acc, Head(s)>>] = HandlePair(acc, Head(s), kinds)
    BY <1>1, <1>3, <2>1
  <2>3. QED
    BY <1>2, <1>3, <2>1, <2>2
<1>8. QED
  BY <1>5, <1>6, <1>7 DEF PassUnrolled, A, T, Run

(* A loop whose step leaves a alone ends with it.                          *)
Idle(T, g, a) == \A t \in T : g[<<a, t>>] = a
StopsAt(A, T, g, a, s) == Folded(g, a, s) = a

(* It does whatever it goes over.                                          *)
LEMMA FoldStops ==
    ASSUME NEW A, NEW T, NEW g \in [A \X T -> A], NEW a \in A, NEW s \in Seq(T),
           Idle(T, g, a)
    PROVE  StopsAt(A, T, g, a, s)
<1> DEFINE f == [i \in 0..Len(s) |-> a]
<1>1. Len(s) \in Nat /\ \A i \in 1..Len(s) : s[i] \in T
  OBVIOUS
<1>2. \A i \in 0..Len(s) : f[i] = a
  OBVIOUS
<1> HIDE DEF f
<1>3. StepsOf(A, g, a, s, f)
  BY <1>1, <1>2 DEF StepsOf, Idle
<1>4. EndsWith(g, a, s, f)
  BY <1>3, FoldIs
<1>5. QED
  BY <1>1, <1>2, <1>4 DEF EndsWith, StopsAt

(* After an error a pass over the pairs and the loop over the elements of  *)
(* a list change nothing.                                                  *)
LEMMA ErrorEndsLoops ==
    ASSUME NEW K, ClosedUnderParts(K), NEW acc \in SaneAccs(K), acc.error # ""
    PROVE  /\ \A s \in Seq(PairsOver(K)) : \A kinds : HandlePairs(acc, s, kinds) = acc
           /\ \A s \in Seq(K) : MergeElements(acc, s) = acc
<1> DEFINE A == SaneAccs(K)
<1>1. acc \in A
  OBVIOUS
<1>2. ASSUME NEW s \in Seq(PairsOver(K)), NEW kinds PROVE HandlePairs(acc, s, kinds) = acc
  <2> DEFINE g == PairStep(K, kinds)
  <2>1. /\ g \in [A \X PairsOver(K) -> A]
        /\ \A p \in PairsOver(K) : g[<<acc, p>>] = HandlePair(acc, p, kinds)
    BY StepsAreSane
  <2>5. \A p \in PairsOver(K) : HandlePair(acc, p, kinds) = acc
    BY DEF HandlePair
  <2>6. Idle(PairsOver(K), g, acc)
    BY <2>1, <2>5 DEF Idle
  <2>2. HandlePairs(acc, s, kinds) = Folded(g, acc, s)
    BY PairsFold
  <2> HIDE DEF A, g
  <2>3. StopsAt(A, PairsOver(K), g, acc, s)
    BY <1>1, <2>1, <2>6, FoldStops
  <2>4. QED
    BY <2>2, <2>3 DEF StopsAt
<1>3. ASSUME NEW s \in Seq(K) PROVE MergeElements(acc, s) = acc
  <2> DEFINE g == ElementStep(K)
  <2>1. g \in [A \X K -> A] /\ \A m \in K : g[<<acc, m>>] = MergeElement(acc, m)
    BY StepsAreSane
  <2>5. \A m \in K : MergeElement(acc, m) = acc
    BY DEF MergeElement
  <2>6. Idle(K, g, acc)
    BY <2>1, <2>5 DEF Idle
  <2>2. MergeElements(acc, s) = Folded(g, acc, s)
    BY ElementsFold
  <2> HIDE DEF A, g
  <2>3. StopsAt(A, K, g, acc, s)
    BY <1>1, <2>1, <2>6, FoldStops
  <2>4. QED
    BY <2>2, <2>3 DEF StopsAt
<1>4. QED
  BY <1>2, <1>3

(* The loop over the elements of a list, taken apart at its first element. *)
ElementsUnrolled(K, acc, s) ==
    /\ MergeElements(acc, s) \in SaneAccs(K)
    /\ s = <<>> => MergeElements(acc, s) = acc
    /\ s # <<>> => /\ Head(s) \in K /\ Tail(s) \in Seq(K)
                   /\ MergeElement(acc, Head(s)) \in SaneAccs(K)
                   /\ MergeElements(acc, s) =
                         MergeElements(MergeElement(acc, Head(s)), Tail(s))

(* MergeElements can be.                                                   *)
LEMMA UnrollElements ==
    ASSUME NEW K, ClosedUnderParts(K), NEW acc \in SaneAccs(K), NEW s \in Seq(K)
    PROVE  ElementsUnrolled(K, acc, s)
<1> DEFINE A == SaneAccs(K)
           g == ElementStep(K)
<1>1. /\ g \in [A \X K -> A]
      /\ \A a \in A : \A m \in K : g[<<a, m>>] = MergeElement(a, m)
  BY StepsAreSane
<1>2. \A a \in A : \A q \in Seq(K) : MergeElements(a, q) = Folded(g, a, q)
  BY ElementsFold
<1>3. acc \in A
  OBVIOUS
<1> HIDE DEF A, g
<1>4. Folded(g, acc, s) \in A /\ (s = <<>> => Folded(g, acc, s) = acc)
  <2>1. LastStep(A, K, g, acc, s)
    BY <1>1, <1>3, FoldEnd
  <2>2. QED
    BY <2>1 DEF LastStep
<1>5. ASSUME s # <<>>
      PROVE  /\ Head(s) \in K /\ Tail(s) \in Seq(K)
             /\ MergeElement(acc, Head(s)) \in A
             /\ MergeElements(acc, s) =
                   MergeElements(MergeElement(acc, Head(s)), Tail(s))
  <2>1. /\ Head(s) \in K /\ Tail(s) \in Seq(K)
        /\ g[<<acc, Head(s)>>] \in A
        /\ Folded(g, acc, s) = Folded(g, g[<<acc, Head(s)>>], Tail(s))
    <3>1. FirstStep(A, K, g, acc, s)
      BY <1>1, <1>3, <1>5, FoldHead
    <3>2. QED
      BY <3>1 DEF FirstStep
  <2>2. g[<<acc, Head(s)>>] = MergeElement(acc, Head(s))
    BY <1>1, <1>3, <2>1
  <2>3. QED
    BY <1>2, <1>3, <2>1, <2>2
<1>6. QED
  BY <1>2, <1>3, <1>4, <1>5 DEF ElementsUnrolled, A

(* The loop over the entries of a map, likewise.                           *)
EntriesUnrolled(K, acc, s) ==
    /\ ExpandEntries(K, acc, s) \in SaneAccs(K)
    /\ s = <<>> => ExpandEntries(K, acc, s) = acc
    /\ s # <<>> => /\ Head(s) \in PairsOver(K) /\ Tail(s) \in Seq(PairsOver(K))
                   /\ ExpandMergeEntry(acc, Head(s).key, Head(s).value) \in SaneAccs(K)
                   /\ ExpandEntries(K, acc, s) =
                         ExpandEntries(K, ExpandMergeEntry(acc, Head(s).key, Head(s).value),
                                       Tail(s))

(* ExpandEntries can be.                                                   *)
LEMMA UnrollEntries ==
    ASSUME NEW K, ClosedUnderParts(K), NEW acc \in SaneAccs(K),
           NEW s \in Seq(PairsOver(K))
    PROVE  EntriesUnrolled(K, acc, s)
<1> DEFINE A == SaneAccs(K)
           T == PairsOver(K)
           g == EntryStep(K)
<1>1. /\ g \in [A \X T -> A]
      /\ \A a \in A : \A p \in T : g[<<a, p>>] = ExpandMergeEntry(a, p.key, p.value)
  BY StepsAreSane
<1>2. acc \in A /\ s \in Seq(T)
  OBVIOUS
<1> HIDE DEF A, T, g
<1>3. Folded(g, acc, s) \in A /\ (s = <<>> => Folded(g, acc, s) = acc)
  <2>1. LastStep(A, T, g, acc, s)
    BY <1>1, <1>2, FoldEnd
  <2>2. QED
    BY <2>1 DEF LastStep
<1>4. ASSUME s # <<>>
      PROVE  /\ Head(s) \in T /\ Tail(s) \in Seq(T)
             /\ g[<<acc, Head(s)>>] \in A
             /\ Folded(g, acc, s) = Folded(g, g[<<acc, Head(s)>>], Tail(s))
             /\ g[<<acc, Head(s)>>] = ExpandMergeEntry(acc, Head(s).key, Head(s).value)
  <2>1. /\ Head(s) \in T /\ Tail(s) \in Seq(T)
        /\ g[<<acc, Head(s)>>] \in A
        /\ Folded(g, acc, s) = Folded(g, g[<<acc, Head(s)>>], Tail(s))
    <3>1. FirstStep(A, T, g, acc, s)
      BY <1>1, <1>2, <1>4, FoldHead
    <3>2. QED
      BY <3>1 DEF FirstStep
  <2>2. g[<<acc, Head(s)>>] = ExpandMergeEntry(acc, Head(s).key, Head(s).value)
    BY <1>1, <1>2, <2>1
  <2>3. QED
    BY <2>1, <2>2
<1>5. QED
  BY <1>3, <1>4 DEF EntriesUnrolled, ExpandEntries, A, T, g

(* Where there are only merge pairs, a pass that takes only those does     *)
(* what a pass that takes all pairs does.                                  *)
LEMMA MergePassTakesAll ==
    ASSUME NEW K, ClosedUnderParts(K), NEW acc \in SaneAccs(K),
           NEW s \in Seq(PairsOver(K)), \A i \in 1..Len(s) : IsMergePair(s[i])
    PROVE  HandlePairs(acc, s, {"merge"}) = HandlePairs(acc, s, {"plain", "merge"})
<1> DEFINE A == SaneAccs(K)
           T == PairsOver(K)
           merges == {"merge"}
           all == {"plain", "merge"}
           g == PairStep(K, merges)
           h == PairStep(K, all)
<1>1. "merge" \in merges /\ "merge" \in all
  OBVIOUS
<1> HIDE DEF merges, all
<1>2. /\ g \in [A \X T -> A] /\ h \in [A \X T -> A]
      /\ \A a \in A : \A p \in T : /\ g[<<a, p>>] = HandlePair(a, p, merges)
                                   /\ h[<<a, p>>] = HandlePair(a, p, all)
  BY StepsAreSane
<1>3. /\ HandlePairs(acc, s, merges) = Folded(g, acc, s)
      /\ HandlePairs(acc, s, all) = Folded(h, acc, s)
  BY PairsFold
<1>4. acc \in A /\ s \in Seq(T) /\ \A i \in 1..Len(s) : s[i] \in T
  OBVIOUS
<1> HIDE DEF A, T, g, h
<1>5. ASSUME NEW a \in A, NEW i \in 1..Len(s) PROVE h[<<a, s[i]>>] = g[<<a, s[i]>>]
  <2>1. HandlePair(a, s[i], merges) = HandlePair(a, s[i], all)
    BY <1>1, <1>4 DEF HandlePair, KindOf
  <2>2. QED
    BY <1>2, <1>4, <2>1
<1>6. PICK f : FoldStates(A, g, acc, s, f)
  BY <1>2, <1>4, FoldLoop
<1>7. StepsOf(A, h, acc, s, f)
  <2>1. /\ f[0] = acc /\ Len(s) \in Nat
        /\ \A i \in 1..Len(s) : f[i] = g[<<f[i - 1], s[i]>>]
    BY <1>4, <1>6 DEF FoldStates
  <2>2. ASSUME NEW i \in 1..Len(s), f[i - 1] \in A PROVE f[i] = h[<<f[i - 1], s[i]>>]
    BY <1>5, <2>1, <2>2
  <2>3. QED
    BY <2>1, <2>2 DEF StepsOf
<1>8. EndsWith(h, acc, s, f)
  BY <1>2, <1>4, <1>7, FoldIs
<1>9. Folded(g, acc, s) = Folded(h, acc, s)
  BY <1>6, <1>8 DEF FoldStates, EndsWith
<1>10. QED
  BY <1>3, <1>9 DEF merges, all
=============================================================================
