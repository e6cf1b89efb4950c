-------------------------- MODULE MapAssemblyProofs --------------------------
(***************************************************************************)
(* Proofs about handle_map's loops, for every set of objects, every        *)
(* mapping and every choice of the options.                                *)
(***************************************************************************)
EXTENDS MapAssembly, MapEntriesProofs

Accs == AccsOver(Objects)

-----------------------------------------------------------------------------
(* The inductive invariant.  The first loop has merged nothing, so it can  *)
(* ignore no pair: each plain pair it has passed is in the map.  What it   *)
(* leaves on the stack are merge pairs, all that the second loop then sees *)
(* when merge_override is set.                                             *)
Untaken == \A i \in DOMAIN pairs :
              ~IsMergePair(pairs[i]) =>
                 InMap(pairs[i]) \/ \E j \in DOMAIN todo : todo[j] = pairs[i]

OnlyMerges(s) == \A j \in DOMAIN s : IsMergePair(s[j])

FirstLoopInv == pass = "plain" =>
                   /\ MergeOverride
                   /\ \A i \in DOMAIN acc.map : ~acc.map[i].merged
                   /\ Untaken
                   /\ OnlyMerges(left)

SecondLoopInv == pass \in {"all", "done"} /\ MergeOverride =>
                    /\ \A i \in DOMAIN pairs :
                          ~IsMergePair(pairs[i]) => InMap(pairs[i])
                    /\ OnlyMerges(todo)

IInv == /\ TypeOK
        /\ Unambiguous(acc.map)
        /\ FirstLoopInv
        /\ SecondLoopInv
        /\ NoInternalError

-----------------------------------------------------------------------------
(* An entry that is in the map stays in it when entries are only added.    *)
LEMMA InMapStays ==
    ASSUME NEW p,
           \A i \in DOMAIN acc.map :
              i \in DOMAIN acc'.map /\ acc'.map[i] = acc.map[i],
           InMap(p)
    PROVE  \E i \in DOMAIN acc'.map :
              acc'.map[i] = Entry(KeyOf(p.key), p.value, FALSE)
BY DEF InMap
-----------------------------------------------------------------------------
(* The invariant holds when the first pair has not been taken.             *)
LEMMA InitIInv == Init => IInv
<1> SUFFICES ASSUME Init PROVE IInv
  OBVIOUS
<1>1. pairs \in Inputs /\ pairs \in Seq(Pairs) /\ todo = pairs
  BY InputsAssumption DEF Init
<1>2. acc.map = <<>> /\ acc.error = "" /\ acc.ignored = 0 /\ acc.warned = 0
  BY DEF Init, EmptyMap
<1>3. acc \in [map : Seq(Entries), error : MapErrors, ignored : Nat, warned : Nat]
  <2>1. <<>> \in Seq(Entries) /\ "" \in MapErrors /\ 0 \in Nat
    BY DEF MapErrors
  <2>2. QED
    BY <2>1 DEF Init, EmptyMap
<1>4. TypeOK
  <2>1. pass \in Passes
    BY OptionsAssumption DEF Init, Passes
  <2>2. QED
    BY <1>1, <1>3, <2>1 DEF Init, TypeOK
<1>5. DOMAIN acc.map = {} /\ DOMAIN left = {}
  <2>1. \A s : s = <<>> => DOMAIN s = {}
    OBVIOUS
  <2>2. QED
    BY <1>2, <2>1 DEF Init
<1>6. Unambiguous(acc.map)
  BY <1>5 DEF Unambiguous
<1>7. FirstLoopInv
  <2>1. pass = "plain" => MergeOverride
    BY OptionsAssumption DEF Init
  <2>2. Untaken
    BY <1>1 DEF Untaken
  <2>3. QED
    BY <1>5, <2>1, <2>2 DEF FirstLoopInv, OnlyMerges
<1>8. SecondLoopInv
  BY OptionsAssumption DEF Init, SecondLoopInv
<1>9. NoInternalError
  BY <1>2 DEF NoInternalError
<1>10. QED
  BY <1>4, <1>6, <1>7, <1>8, <1>9 DEF IInv

(* The first loop takes a plain pair.                                      *)
LEMMA PlainPassIInv == IInv /\ PlainPass => IInv'
<1> SUFFICES ASSUME IInv, PlainPass PROVE IInv'
  OBVIOUS
<1> USE DEF IInv, TypeOK
<1> DEFINE p == Head(todo)
<1>1. /\ acc \in Accs /\ p \in Pairs /\ Tail(todo) \in Seq(Pairs)
      /\ \A i \in DOMAIN todo : \/ todo[i] = p
                                \/ \E j \in DOMAIN Tail(todo) : Tail(todo)[j] = todo[i]
  BY TailProperties DEF PlainPass, Accs, AccsOver, EntriesOver, Entries
<1>2. acc' = HandleMapEntry(acc, p.key, p.value)
  BY DEF PlainPass
<1>3. /\ acc' \in Accs
      /\ Unambiguous(acc'.map)
      /\ acc'.error \in {acc.error, "Duplicate map key"}
      /\ \A i \in DOMAIN acc.map : i \in DOMAIN acc'.map /\ acc'.map[i] = acc.map[i]
      /\ (\A i \in DOMAIN acc.map : ~acc.map[i].merged) =>
            /\ \A i \in DOMAIN acc'.map : ~acc'.map[i].merged
            /\ \/ acc'.error = "Duplicate map key"
               \/ \E i \in DOMAIN acc'.map :
                     acc'.map[i] = Entry(KeyOf(p.key), p.value, FALSE)
  <2>1. KeyOf(p.key) \in Objects /\ p.value \in Objects
    BY <1>1, ObjectsAssumption DEF Pairs
  <2>2. acc \in AccsOver(Objects) /\ Unambiguous(acc.map)
    BY <1>1 DEF Accs
  <2> HIDE DEF p, IInv, TypeOK
  <2>3. TakesPair(Objects, acc, p.key, p.value, acc')
    BY <1>2, <2>1, <2>2, HandleMapEntryProperties
  <2>4. QED
    BY <2>3 DEF Accs, TakesPair, Grows, NoneMerged, Holds, Written
<1>4. pass = "plain" /\ pass' \in {"plain", "failed"}
      /\ (pass' = "plain" => acc'.error = "")
  BY DEF PlainPass, PassAfter
<1>5. TypeOK'
  BY <1>1, <1>3, <1>4 DEF PlainPass, Passes, Accs, AccsOver, EntriesOver, Entries
<1>6. FirstLoopInv'
  <2> SUFFICES ASSUME pass' = "plain" PROVE FirstLoopInv'
    BY DEF FirstLoopInv
  <2>1. /\ \A i \in DOMAIN acc'.map : ~acc'.map[i].merged
        /\ \E i \in DOMAIN acc'.map :
              acc'.map[i] = Entry(KeyOf(p.key), p.value, FALSE)
    BY <1>3, <1>4 DEF FirstLoopInv
  <2>2. ASSUME NEW i \in DOMAIN pairs, ~IsMergePair(pairs[i])
        PROVE  InMap(pairs[i])' \/ \E j \in DOMAIN todo' : todo'[j] = pairs[i]
    <3>1. CASE InMap(pairs[i])
      BY <1>3, <3>1, InMapStays DEF InMap, PlainPass
    <3>2. CASE \E j \in DOMAIN todo : todo[j] = pairs[i]
      <4>1. \/ pairs[i] = p
            \/ \E j \in DOMAIN Tail(todo) : Tail(todo)[j] = pairs[i]
        BY <1>1, <3>2
      <4>2. QED
        BY <2>1, <4>1 DEF InMap, PlainPass
    <3>3. QED
      BY <1>4, <2>2, <3>1, <3>2 DEF FirstLoopInv, Untaken
  <2>3. QED
    BY <1>4, <2>1, <2>2 DEF FirstLoopInv, Untaken, OnlyMerges, PlainPass
<1>7. SecondLoopInv'
  BY <1>4 DEF SecondLoopInv
<1>8. NoInternalError'
  BY <1>3 DEF NoInternalError
<1>9. QED
  BY <1>3, <1>5, <1>6, <1>7, <1>8

(* It leaves a merge pair where it is.                                     *)
LEMMA SkipMergeIInv == IInv /\ SkipMerge => IInv'
<1> SUFFICES ASSUME IInv, SkipMerge PROVE IInv'
  OBVIOUS
<1> USE DEF IInv, TypeOK, SkipMerge
<1> DEFINE p == Head(todo)
<1>1. /\ p \in Pairs /\ Tail(todo) \in Seq(Pairs)
      /\ \A i \in DOMAIN todo : \/ todo[i] = p
                                \/ \E j \in DOMAIN Tail(todo) : Tail(todo)[j] = todo[i]
  BY TailProperties
<1>2. TypeOK'
  BY <1>1
<1>3. FirstLoopInv'
  <2>1. Untaken'
    <3>1. ASSUME NEW i \in DOMAIN pairs, ~IsMergePair(pairs[i])
          PROVE  InMap(pairs[i]) \/ \E j \in DOMAIN Tail(todo) : Tail(todo)[j] = pairs[i]
      BY <1>1, <3>1 DEF FirstLoopInv, Untaken
    <3>2. QED
      BY <3>1 DEF Untaken, InMap
  <2>2. OnlyMerges(left')
    <3>1. OnlyMerges(left) /\ IsMergePair(p) /\ left' = Append(left, p)
      BY DEF FirstLoopInv
    <3>2. QED
      BY <1>1, <3>1 DEF OnlyMerges
  <2>3. QED
    BY <2>1, <2>2 DEF FirstLoopInv
<1>4. QED
  BY <1>2, <1>3 DEF SecondLoopInv, NoInternalError

(* The second loop begins with what is left.                               *)
LEMMA StartSecondPassIInv == IInv /\ StartSecondPass => IInv'
<1> SUFFICES ASSUME IInv, StartSecondPass PROVE IInv'
  OBVIOUS
<1> USE DEF IInv, TypeOK, StartSecondPass
<1>1. TypeOK'
  BY DEF Passes
<1>2. SecondLoopInv'
  <2>1. DOMAIN todo = {}
    <3>1. \A s : s = <<>> => DOMAIN s = {}
      OBVIOUS
    <3>2. QED
      BY <3>1
  <2>2. \A i \in DOMAIN pairs : ~IsMergePair(pairs[i]) => InMap(pairs[i])
    BY <2>1 DEF FirstLoopInv, Untaken
  <2>3. OnlyMerges(todo')
    BY DEF FirstLoopInv, OnlyMerges
  <2>4. QED
    BY <2>2, <2>3 DEF SecondLoopInv, InMap
<1>3. QED
  BY <1>1, <1>2 DEF FirstLoopInv, NoInternalError

(* The second loop meets a plain pair only when merge_override is not set. *)
LEMMA PlainEntryIInv == IInv /\ PlainEntry => IInv'
<1> SUFFICES ASSUME IInv, PlainEntry PROVE IInv'
  OBVIOUS
<1> USE DEF IInv, TypeOK
<1> DEFINE p == Head(todo)
<1>1. acc \in Accs /\ p \in Pairs /\ Tail(todo) \in Seq(Pairs)
  BY TailProperties DEF PlainEntry, Accs, AccsOver, EntriesOver, Entries
<1>2. ~MergeOverride
  <2>1. 1 \in DOMAIN todo /\ todo[1] = p
    BY TailProperties DEF PlainEntry
  <2>2. QED
    BY <2>1 DEF PlainEntry, SecondLoopInv, OnlyMerges
<1>3. acc' = HandleMapEntry(acc, p.key, p.value)
  BY <1>2 DEF PlainEntry
<1>4. /\ acc' \in Accs
      /\ Unambiguous(acc'.map)
      /\ acc'.error \in {acc.error, "Duplicate map key"}
  <2>1. KeyOf(p.key) \in Objects /\ p.value \in Objects
    BY <1>1, ObjectsAssumption DEF Pairs
  <2>2. acc \in AccsOver(Objects) /\ Unambiguous(acc.map)
    BY <1>1 DEF Accs
  <2> HIDE DEF p, IInv, TypeOK
  <2>3. QED
    BY <1>3, <2>1, <2>2, HandleMapEntryProperties DEF Accs, TakesPair, Grows
<1>5. pass' \in {"all", "failed"}
  BY DEF PlainEntry, PassAfter
<1>6. TypeOK'
  BY <1>1, <1>4, <1>5 DEF PlainEntry, Passes, Accs, AccsOver, EntriesOver, Entries
<1>7. QED
  BY <1>2, <1>4, <1>5, <1>6 DEF FirstLoopInv, SecondLoopInv, NoInternalError

(* handle_merge begins, with a map, a list or an error.                    *)
LEMMA StartMergeIInv == IInv /\ StartMerge => IInv'
<1> SUFFICES ASSUME IInv, StartMerge PROVE IInv'
  OBVIOUS
<1> USE DEF IInv, TypeOK
<1> DEFINE value == Head(todo).value
<1>1. /\ acc \in Accs /\ Head(todo) \in Pairs /\ Tail(todo) \in Seq(Pairs)
      /\ \A j \in DOMAIN Tail(todo) : \E i \in DOMAIN todo : Tail(todo)[j] = todo[i]
  BY TailProperties DEF StartMerge, Accs, AccsOver, EntriesOver, Entries
<1>2. value \in Objects /\ value.items \in Seq(Objects)
  BY <1>1, ObjectsAssumption DEF Pairs
<1>3. pass = "all" /\ pass' \in {"all", "failed"} /\ todo' = Tail(todo)
  BY DEF StartMerge
<1>4. sources' \in Seq(Objects)
  <2>1. <<value>> \in Seq(Objects)
    BY <1>2
  <2>2. sources' \in {<<value>>, value.items, sources}
    BY DEF StartMerge
  <2> HIDE DEF value
  <2>3. QED
    BY <1>2, <2>1, <2>2
<1>5. acc' \in Accs /\ acc'.map = acc.map /\ acc'.error \in {acc.error, "Illegal merge"}
  <2>1. CASE acc' = acc
    BY <1>1, <2>1
  <2>2. CASE acc' = [acc EXCEPT !.error = "Illegal merge"]
    <3>1. "Illegal merge" \in MapErrors
      BY DEF MapErrors
    <3>2. QED
      BY <1>1, <2>2, <3>1, ErrorProperties DEF Accs
  <2>3. QED
    BY <2>1, <2>2 DEF StartMerge
<1>6. TypeOK'
  BY <1>1, <1>3, <1>4, <1>5 DEF StartMerge, Passes, Accs, AccsOver, EntriesOver, Entries
<1>7. SecondLoopInv'
  <2>1. OnlyMerges(todo) => OnlyMerges(todo')
    BY <1>1, <1>3 DEF OnlyMerges
  <2>2. \A i \in DOMAIN pairs : InMap(pairs[i]) <=> InMap(pairs[i])'
    BY <1>5 DEF InMap, StartMerge
  <2>3. QED
    BY <1>3, <2>1, <2>2 DEF SecondLoopInv, StartMerge
<1>8. QED
  BY <1>3, <1>5, <1>6, <1>7 DEF FirstLoopInv, NoInternalError

(* The next element of a list of maps.                                     *)
LEMMA StartExpansionIInv == IInv /\ StartExpansion => IInv'
<1> SUFFICES ASSUME IInv, StartExpansion PROVE IInv'
  OBVIOUS
<1> USE DEF IInv, TypeOK
<1> DEFINE m == Head(sources)
<1>1. acc \in Accs /\ m \in Objects /\ Tail(sources) \in Seq(Objects)
  BY TailProperties DEF StartExpansion, Accs, AccsOver, EntriesOver, Entries
<1>2. pass = "all" /\ pass' \in {"all", "failed"} /\ UNCHANGED <<pairs, todo, left>>
  BY DEF StartExpansion
<1>3. entries' \in Seq(Pairs)
  <2>1. CASE IsMap(m)
    <3>1. /\ m.items \in Seq(Objects) /\ m.keys \in Seq(Objects)
          /\ Len(m.keys) = Len(m.items)
      BY <1>1, <2>1, ObjectsAssumption
    <3>2. \A i \in 1..Len(m.items) : Pair(m.keys[i], m.items[i]) \in Pairs
      BY <3>1 DEF Pair, Pairs
    <3>3. entries' = [i \in 1..Len(m.items) |-> Pair(m.keys[i], m.items[i])]
      <4>1. DOMAIN m.items = 1..Len(m.items)
        BY <3>1
      <4>2. entries' = [i \in DOMAIN m.items |-> Pair(m.keys[i], m.items[i])]
        BY <2>1 DEF StartExpansion
      <4>3. QED
        BY <4>1, <4>2
    <3>4. QED
      BY <3>1, <3>2, <3>3
  <2>2. CASE ~IsMap(m)
    BY <2>2 DEF StartExpansion
  <2>3. QED
    BY <2>1, <2>2
<1>4. acc' \in Accs /\ acc'.map = acc.map /\ acc'.error \in {acc.error, "Illegal merge"}
  <2>1. CASE acc' = acc
    BY <1>1, <2>1
  <2>2. CASE acc' = [acc EXCEPT !.error = "Illegal merge"]
    <3>1. "Illegal merge" \in MapErrors
      BY DEF MapErrors
    <3>2. QED
      BY <1>1, <2>2, <3>1, ErrorProperties DEF Accs
  <2>3. QED
    BY <2>1, <2>2 DEF StartExpansion
<1>5. TypeOK'
  BY <1>1, <1>2, <1>3, <1>4 DEF StartExpansion, Passes, Accs, AccsOver, EntriesOver, Entries
<1>6. SecondLoopInv'
  <2>1. \A i \in DOMAIN pairs : InMap(pairs[i]) <=> InMap(pairs[i])'
    BY <1>2, <1>4 DEF InMap
  <2>2. QED
    BY <1>2, <2>1 DEF SecondLoopInv
<1>7. QED
  BY <1>2, <1>4, <1>5, <1>6 DEF FirstLoopInv, NoInternalError

(* One merged entry.                                                       *)
LEMMA MergeEntryIInv == IInv /\ MergeEntry => IInv'
<1> SUFFICES ASSUME IInv, MergeEntry PROVE IInv'
  OBVIOUS
<1> USE DEF IInv, TypeOK
<1> DEFINE p == Head(entries)
<1>1. acc \in Accs /\ p \in Pairs /\ Tail(entries) \in Seq(Pairs)
  BY TailProperties DEF MergeEntry, Accs, AccsOver, EntriesOver, Entries
<1>2. acc' = ExpandMergeEntry(acc, p.key, p.value)
  BY DEF MergeEntry
<1>3. /\ acc' \in Accs
      /\ Unambiguous(acc'.map)
      /\ acc'.error = acc.error
      /\ \A i \in DOMAIN acc.map : i \in DOMAIN acc'.map /\ acc'.map[i] = acc.map[i]
  <2>1. /\ p.key \in Objects /\ p.value \in Objects
        /\ acc \in AccsOver(Objects) /\ Unambiguous(acc.map)
    BY <1>1 DEF Pairs, Accs
  <2> HIDE DEF p, IInv, TypeOK
  <2>2. QED
    BY <1>2, <2>1, ExpandMergeEntryProperties DEF Accs, Grows
<1>4. pass = "all" /\ UNCHANGED <<pairs, pass, todo, left, sources>>
  BY DEF MergeEntry
<1>5. TypeOK'
  BY <1>1, <1>3, <1>4 DEF MergeEntry, Accs, AccsOver, EntriesOver, Entries
<1>6. SecondLoopInv'
  <2>1. \A i \in DOMAIN pairs : InMap(pairs[i]) => InMap(pairs[i])'
    BY <1>3, <1>4, InMapStays DEF InMap
  <2>2. QED
    BY <1>4, <2>1 DEF SecondLoopInv
<1>7. QED
  BY <1>3, <1>4, <1>5, <1>6 DEF FirstLoopInv, NoInternalError
-----------------------------------------------------------------------------
(* The invariant is inductive.                                             *)
LEMMA NextIInv == IInv /\ [Next]_vars => IInv'
<1> SUFFICES ASSUME IInv, [Next]_vars PROVE IInv'
  OBVIOUS
<1>1. CASE Finish
  BY <1>1 DEF Finish, IInv, TypeOK, Passes, FirstLoopInv, SecondLoopInv,
              NoInternalError, InMap, OnlyMerges
<1>2. CASE UNCHANGED vars
  BY <1>2 DEF vars, IInv, TypeOK, FirstLoopInv, SecondLoopInv,
              NoInternalError, InMap, OnlyMerges, Untaken
<1>3. QED
  BY <1>1, <1>2, PlainPassIInv, SkipMergeIInv, StartSecondPassIInv,
     PlainEntryIInv, StartMergeIInv, StartExpansionIInv, MergeEntryIInv
     DEF Next

(* The inductive invariant holds in every state of every assembly.         *)
THEOREM SpecIInv == Spec => []IInv
BY InitIInv, NextIInv, PTL DEF Spec

(* Every variable of handle_map's loops keeps its type.                    *)
THEOREM TypeCorrect == Spec => []TypeOK
<1>1. IInv => TypeOK
  BY DEF IInv
<1>2. QED
  BY <1>1, SpecIInv, PTL

(* No key is twice in the interim map, at any point of the assembly; but   *)
(* without as.named.list a key may come again behind a NULL value, where   *)
(* find_map_entry stops (r_parse.c:648).                                   *)
THEOREM KeysAreUnique == Spec => []UniqueKeys
<1>1. IInv => UniqueKeys
  BY DEF IInv, Unambiguous, Hidden, UniqueKeys, HiddenByNull
<1>2. QED
  BY <1>1, SpecIInv, PTL

(* With merge.precedence = "override" each pair written out in the mapping *)
(* is in the result with its own value.                                    *)
THEOREM OverrideIsHonoured == Spec => []PlainPairsWin
<1>1. IInv => PlainPairsWin
  BY DEF IInv, SecondLoopInv, PlainPairsWin
<1>2. QED
  BY <1>1, SpecIInv, PTL

(* The first loop leaves no plain pair for the second one to stumble over: *)
(* the error "Merge override failed" cannot occur.                         *)
THEOREM OverrideNeverFails == Spec => []NoInternalError
<1>1. IInv => NoInternalError
  BY DEF IInv
<1>2. QED
  BY <1>1, SpecIInv, PTL
-----------------------------------------------------------------------------
(* The loops compute AssembleMap: what is left of them to do, applied to   *)
(* the interim map they have made so far, always gives AssembleMap(pairs). *)
AllKinds == {"plain", "merge"}

(* The rest of the second loop, from the interim map a on.                 *)
SecondLoopFrom(a, es, ss, ps) ==
    HandlePairs(MergeElements(ExpandEntries(Objects, a, es), ss), ps, AllKinds)

(* The first loop has put off the merge pairs among those it has passed.   *)
PutOff == \A x \in SaneAccs(Objects) :
             HandlePairs(x, pairs, {"merge"}) =
                HandlePairs(HandlePairs(x, left, {"merge"}), todo, {"merge"})

FirstLoopComputes ==
    pass = "plain" =>
       /\ acc.error = "" /\ sources = <<>> /\ entries = <<>>
       /\ HandlePairs(acc, todo, {"plain"}) = HandlePairs(EmptyMap, pairs, {"plain"})
       /\ PutOff

SecondLoopComputes ==
    pass = "all" =>
       /\ acc.error = ""
       /\ SecondLoopFrom(acc, entries, sources, todo) = AssembleMap(pairs)

EndComputes ==
    /\ pass = "done"   => acc = AssembleMap(pairs)
    /\ pass = "failed" => acc.error # "" /\ acc = AssembleMap(pairs)

Computes == FirstLoopComputes /\ SecondLoopComputes /\ EndComputes

(* The types, in the terms of the lemmas about MapEntries.                 *)
LEMMA SaneState ==
    ASSUME IInv
    PROVE  /\ ClosedUnderParts(Objects)
           /\ Pairs = PairsOver(Objects)
           /\ acc \in SaneAccs(Objects)
           /\ pairs \in Seq(PairsOver(Objects)) /\ todo \in Seq(PairsOver(Objects))
           /\ left \in Seq(PairsOver(Objects)) /\ entries \in Seq(PairsOver(Objects))
           /\ sources \in Seq(Objects)
<1>1. ClosedUnderParts(Objects)
  BY ObjectsAssumption DEF ClosedUnderParts
<1>2. Pairs = PairsOver(Objects)
  BY DEF Pairs, PairsOver
<1>3. acc \in SaneAccs(Objects)
  BY DEF IInv, TypeOK, NoInternalError, SaneAccs, AccsOver, Entries, EntriesOver
<1>4. QED
  BY <1>1, <1>2, <1>3, InputsAssumption DEF IInv, TypeOK

(* The empty map is sane, and nothing is done with an empty sequence.      *)
LEMMA NothingToDo ==
    ASSUME ClosedUnderParts(Objects), NEW a \in SaneAccs(Objects)
    PROVE  /\ \A kinds : HandlePairs(a, <<>>, kinds) = a
           /\ MergeElements(a, <<>>) = a
           /\ ExpandEntries(Objects, a, <<>>) = a
<1>1. <<>> \in Seq(PairsOver(Objects)) /\ <<>> \in Seq(Objects)
  OBVIOUS
<1>2. ASSUME NEW kinds PROVE HandlePairs(a, <<>>, kinds) = a
  <2>1. PassUnrolled(Objects, a, <<>>, kinds)
    BY <1>1, UnrollPass
  <2>2. QED
    BY <2>1 DEF PassUnrolled
<1>3. MergeElements(a, <<>>) = a
  <2>1. ElementsUnrolled(Objects, a, <<>>)
    BY <1>1, UnrollElements
  <2>2. QED
    BY <2>1 DEF ElementsUnrolled
<1>4. ExpandEntries(Objects, a, <<>>) = a
  <2>1. EntriesUnrolled(Objects, a, <<>>)
    BY <1>1, UnrollEntries
  <2>2. QED
    BY <2>1 DEF EntriesUnrolled
<1>5. QED
  BY <1>2, <1>3, <1>4

(* At the start everything is left to do.                                  *)
LEMMA InitComputes == Init => Computes
<1> SUFFICES ASSUME Init PROVE Computes
  OBVIOUS
<1>1. IInv
  BY InitIInv
<1>2. /\ ClosedUnderParts(Objects) /\ acc \in SaneAccs(Objects) /\ acc = EmptyMap
      /\ sources = <<>> /\ entries = <<>> /\ left = <<>> /\ todo = pairs
      /\ acc.error = "" /\ pairs \in Seq(PairsOver(Objects))
      /\ pass = IF MergeOverride THEN "plain" ELSE "all"
  BY <1>1, SaneState DEF Init, EmptyMap
<1>3. SecondLoopFrom(acc, entries, sources, todo) = HandlePairs(acc, todo, AllKinds)
  <2>1. ExpandEntries(Objects, acc, <<>>) = acc /\ MergeElements(acc, <<>>) = acc
    BY <1>2, NothingToDo
  <2>2. QED
    BY <1>2, <2>1 DEF SecondLoopFrom
<1>4. PutOff
  <2>1. \A x \in SaneAccs(Objects) : HandlePairs(x, <<>>, {"merge"}) = x
    BY <1>2, NothingToDo
  <2>2. QED
    BY <1>2, <2>1 DEF PutOff
<1>5. FirstLoopComputes
  BY <1>2, <1>4 DEF FirstLoopComputes
<1>6. SecondLoopComputes
  BY <1>2, <1>3, OptionsAssumption DEF SecondLoopComputes, AssembleMap, AllKinds
<1>7. EndComputes
  BY <1>2, OptionsAssumption DEF EndComputes
<1>8. QED
  BY <1>5, <1>6, <1>7 DEF Computes

(* The first loop takes a plain pair.                                      *)
LEMMA PlainPassComputes == IInv /\ IInv' /\ Computes /\ PlainPass => Computes'
<1> SUFFICES ASSUME IInv, IInv', Computes, PlainPass PROVE Computes'
  OBVIOUS
<1> DEFINE p == Head(todo)
           t == Tail(todo)
           plain == {"plain"}
           merge == {"merge"}
<1>1. /\ ClosedUnderParts(Objects) /\ acc \in SaneAccs(Objects)
      /\ pairs \in Seq(PairsOver(Objects)) /\ todo \in Seq(PairsOver(Objects))
      /\ left \in Seq(PairsOver(Objects))
  BY SaneState
<1>2. /\ pass = "plain" /\ todo # <<>> /\ ~IsMergePair(p)
      /\ acc' = HandleMapEntry(acc, p.key, p.value)
      /\ pass' = IF acc'.error = "" THEN "plain" ELSE "failed"
      /\ todo' = t
      /\ UNCHANGED <<pairs, left, sources, entries>>
  BY DEF PlainPass, PassAfter
<1>3. /\ acc.error = "" /\ sources = <<>> /\ entries = <<>>
      /\ HandlePairs(acc, todo, plain) = HandlePairs(EmptyMap, pairs, plain)
      /\ PutOff /\ MergeOverride
  BY <1>2 DEF Computes, FirstLoopComputes, IInv, FirstLoopInv
<1>4. HandlePair(acc, p, plain) = acc' /\ \A x : HandlePair(x, p, merge) = x
  BY <1>2, <1>3 DEF HandlePair, KindOf
<1> HIDE DEF plain, merge
<1>5. /\ t \in Seq(PairsOver(Objects)) /\ acc' \in SaneAccs(Objects)
      /\ HandlePairs(acc, todo, plain) = HandlePairs(acc', t, plain)
  <2>1. PassUnrolled(Objects, acc, todo, plain)
    BY <1>1, UnrollPass
  <2>2. QED
    BY <1>2, <1>4, <2>1 DEF PassUnrolled
<1>6. ASSUME NEW x \in SaneAccs(Objects)
      PROVE  HandlePairs(x, todo, merge) = HandlePairs(x, t, merge)
  <2>1. PassUnrolled(Objects, x, todo, merge)
    BY <1>1, UnrollPass
  <2>2. QED
    BY <1>2, <1>4, <2>1 DEF PassUnrolled
<1>7. ASSUME NEW x \in SaneAccs(Objects)
      PROVE  HandlePairs(x, left, merge) \in SaneAccs(Objects)
  <2>1. PassUnrolled(Objects, x, left, merge)
    BY <1>1, UnrollPass
  <2>2. QED
    BY <2>1 DEF PassUnrolled
<1>8. PutOff'
  <2>1. \A x \in SaneAccs(Objects) :
           HandlePairs(x, pairs, merge) = HandlePairs(HandlePairs(x, left, merge), todo, merge)
    BY <1>3 DEF PutOff, merge
  <2>2. \A x \in SaneAccs(Objects) :
           HandlePairs(x, pairs, merge) = HandlePairs(HandlePairs(x, left, merge), t, merge)
    BY <1>6, <1>7, <2>1
  <2>3. QED
    BY <1>2, <2>2 DEF PutOff, merge
<1>9. CASE acc'.error = ""
  BY <1>2, <1>3, <1>5, <1>8, <1>9
     DEF Computes, FirstLoopComputes, SecondLoopComputes, EndComputes, plain
<1>10. CASE acc'.error # ""
  <2>1. HandlePairs(acc', t, plain) = acc' /\ HandlePairs(acc', pairs, merge) = acc'
    BY <1>1, <1>5, <1>10, ErrorEndsLoops
  <2>2. AssembleMap(pairs) = acc'
    BY <1>3, <1>5, <2>1 DEF AssembleMap, plain, merge
  <2>3. QED
    BY <1>2, <1>10, <2>2 DEF Computes, FirstLoopComputes, SecondLoopComputes, EndComputes
<1>11. QED
  BY <1>9, <1>10

(* It leaves a merge pair where it is.                                     *)
LEMMA SkipMergeComputes == IInv /\ Computes /\ SkipMerge => Computes'
<1> SUFFICES ASSUME IInv, Computes, SkipMerge PROVE Computes'
  OBVIOUS
<1> DEFINE p == Head(todo)
           t == Tail(todo)
           plain == {"plain"}
           merge == {"merge"}
<1>1. /\ ClosedUnderParts(Objects) /\ acc \in SaneAccs(Objects)
      /\ pairs \in Seq(PairsOver(Objects)) /\ todo \in Seq(PairsOver(Objects))
      /\ left \in Seq(PairsOver(Objects))
  BY SaneState
<1>2. /\ pass = "plain" /\ todo # <<>> /\ IsMergePair(p)
      /\ todo' = t /\ left' = Append(left, p)
      /\ UNCHANGED <<pairs, pass, sources, entries, acc>>
  BY DEF SkipMerge
<1>3. /\ acc.error = "" /\ sources = <<>> /\ entries = <<>>
      /\ HandlePairs(acc, todo, plain) = HandlePairs(EmptyMap, pairs, plain)
      /\ PutOff
  BY <1>2 DEF Computes, FirstLoopComputes
<1>4. HandlePair(acc, p, plain) = acc
  BY <1>2 DEF HandlePair, KindOf
<1> HIDE DEF plain, merge
<1>5. /\ t \in Seq(PairsOver(Objects)) /\ p \in PairsOver(Objects)
      /\ HandlePairs(acc, todo, plain) = HandlePairs(acc, t, plain)
  <2>1. PassUnrolled(Objects, acc, todo, plain)
    BY <1>1, UnrollPass
  <2>2. QED
    BY <1>2, <1>4, <2>1 DEF PassUnrolled
<1>6. ASSUME NEW x \in SaneAccs(Objects)
      PROVE  HandlePairs(x, todo, merge) = HandlePairs(HandlePair(x, p, merge), t, merge)
  <2>1. PassUnrolled(Objects, x, todo, merge)
    BY <1>1, UnrollPass
  <2>2. QED
    BY <1>2, <2>1 DEF PassUnrolled
<1>7. ASSUME NEW x \in SaneAccs(Objects)
      PROVE  /\ HandlePairs(x, left, merge) \in SaneAccs(Objects)
             /\ HandlePairs(x, Append(left, p), merge) =
                   HandlePair(HandlePairs(x, left, merge), p, merge)
  <2>1. PassUnrolled(Objects, x, left, merge)
    BY <1>1, UnrollPass
  <2>2. QED
    BY <1>5, <2>1 DEF PassUnrolled
<1>8. PutOff'
  <2>1. \A x \in SaneAccs(Objects) :
           HandlePairs(x, pairs, merge) = HandlePairs(HandlePairs(x, left, merge), todo, merge)
    BY <1>3 DEF PutOff, merge
  <2>2. \A x \in SaneAccs(Objects) :
           HandlePairs(x, pairs, merge) =
              HandlePairs(HandlePairs(x, Append(left, p), merge), t, merge)
    BY <1>6, <1>7, <2>1
  <2>3. QED
    BY <1>2, <2>2 DEF PutOff, merge
<1>9. QED
  BY <1>2, <1>3, <1>5, <1>8
     DEF Computes, FirstLoopComputes, SecondLoopComputes, EndComputes, plain

(* The second loop begins with what is left.                               *)
LEMMA StartSecondPassComputes == IInv /\ Computes /\ StartSecondPass => Computes'
<1> SUFFICES ASSUME IInv, Computes, StartSecondPass PROVE Computes'
  OBVIOUS
<1> DEFINE merge == {"merge"}
           plain == {"plain"}
<1>1. /\ ClosedUnderParts(Objects) /\ acc \in SaneAccs(Objects)
      /\ pairs \in Seq(PairsOver(Objects)) /\ left \in Seq(PairsOver(Objects))
  BY SaneState
<1>2. /\ pass = "plain" /\ todo = <<>> /\ pass' = "all" /\ todo' = left
      /\ UNCHANGED <<pairs, sources, entries, acc>>
  BY DEF StartSecondPass
<1>3. /\ acc.error = "" /\ sources = <<>> /\ entries = <<>>
      /\ HandlePairs(acc, todo, plain) = HandlePairs(EmptyMap, pairs, plain)
      /\ PutOff /\ MergeOverride /\ OnlyMerges(left)
  BY <1>2 DEF Computes, FirstLoopComputes, IInv, FirstLoopInv
<1>4. HandlePairs(acc, left, merge) = HandlePairs(acc, left, AllKinds)
  <2>3. DOMAIN left = 1..Len(left)
    BY <1>1
  <2>1. \A i \in 1..Len(left) : IsMergePair(left[i])
    BY <1>3, <2>3 DEF OnlyMerges
  <2>2. QED
    BY <1>1, <2>1, MergePassTakesAll DEF AllKinds
<1>5. HandlePairs(acc, left, merge) \in SaneAccs(Objects)
  <2> HIDE DEF merge
  <2>1. PassUnrolled(Objects, acc, left, merge)
    BY <1>1, UnrollPass
  <2>2. QED
    BY <2>1 DEF PassUnrolled
<1> HIDE DEF plain
<1>6. HandlePairs(EmptyMap, pairs, plain) = acc
  BY <1>1, <1>2, <1>3, NothingToDo
<1>7. HandlePairs(acc, pairs, merge) = HandlePairs(acc, left, merge)
  <2>1. HandlePairs(acc, pairs, merge) = HandlePairs(HandlePairs(acc, left, merge), todo, merge)
    BY <1>1, <1>3 DEF PutOff
  <2> HIDE DEF merge
  <2>2. QED
    BY <1>1, <1>2, <1>5, <2>1, NothingToDo
<1>8. AssembleMap(pairs) = HandlePairs(acc, left, AllKinds)
  BY <1>3, <1>4, <1>6, <1>7 DEF AssembleMap, plain
<1>9. SecondLoopFrom(acc, <<>>, <<>>, left) = HandlePairs(acc, left, AllKinds)
  BY <1>1, NothingToDo DEF SecondLoopFrom
<1>10. QED
  BY <1>2, <1>3, <1>8, <1>9 DEF Computes, FirstLoopComputes, SecondLoopComputes, EndComputes

(* The second loop meets a plain pair.                                     *)
LEMMA PlainEntryComputes == IInv /\ IInv' /\ Computes /\ PlainEntry => Computes'
<1> SUFFICES ASSUME IInv, IInv', Computes, PlainEntry PROVE Computes'
  OBVIOUS
<1> DEFINE p == Head(todo)
           t == Tail(todo)
<1>1. /\ ClosedUnderParts(Objects) /\ acc \in SaneAccs(Objects)
      /\ todo \in Seq(PairsOver(Objects))
  BY SaneState
<1>2. acc'.error # "Merge override failed"
  BY DEF IInv, NoInternalError
<1>3. /\ pass = "all" /\ todo # <<>> /\ ~IsMergePair(p)
      /\ sources = <<>> /\ entries = <<>>
      /\ acc' = HandleMapEntry(acc, p.key, p.value)
      /\ pass' = IF acc'.error = "" THEN "all" ELSE "failed"
      /\ todo' = t
      /\ UNCHANGED <<pairs, sources, entries>>
  <2>1. ~MergeOverride
    <3>1. [acc EXCEPT !.error = "Merge override failed"].error = "Merge override failed"
      BY <1>1 DEF SaneAccs, AccsOver
    <3>2. QED
      BY <1>2, <3>1 DEF PlainEntry
  <2>2. QED
    BY <2>1 DEF PlainEntry, PassAfter, Expanding
<1>4. /\ acc.error = ""
      /\ SecondLoopFrom(acc, <<>>, <<>>, todo) = AssembleMap(pairs)
  BY <1>3 DEF Computes, SecondLoopComputes
<1>5. HandlePair(acc, p, AllKinds) = acc'
  BY <1>3, <1>4 DEF HandlePair, KindOf, AllKinds
<1>6. /\ t \in Seq(PairsOver(Objects)) /\ acc' \in SaneAccs(Objects)
      /\ HandlePairs(acc, todo, AllKinds) = HandlePairs(acc', t, AllKinds)
  <2>1. PassUnrolled(Objects, acc, todo, AllKinds)
    BY <1>1, UnrollPass
  <2>2. QED
    BY <1>3, <1>5, <2>1 DEF PassUnrolled
<1>7. HandlePairs(acc', t, AllKinds) = AssembleMap(pairs)
  BY <1>1, <1>4, <1>6, NothingToDo DEF SecondLoopFrom
<1>8. CASE acc'.error = ""
  <2>1. SecondLoopFrom(acc', <<>>, <<>>, t) = HandlePairs(acc', t, AllKinds)
    BY <1>1, <1>6, NothingToDo DEF SecondLoopFrom
  <2>2. QED
    BY <1>3, <1>7, <1>8, <2>1
       DEF Computes, FirstLoopComputes, SecondLoopComputes, EndComputes
<1>9. CASE acc'.error # ""
  <2>1. HandlePairs(acc', t, AllKinds) = acc'
    BY <1>1, <1>6, <1>9, ErrorEndsLoops
  <2>2. QED
    BY <1>3, <1>7, <1>9, <2>1
       DEF Computes, FirstLoopComputes, SecondLoopComputes, EndComputes
<1>10. QED
  BY <1>8, <1>9

(* An error is set and remembered.                                         *)
LEMMA IllegalMergeIsSet ==
    ASSUME NEW K, NEW a \in SaneAccs(K)
    PROVE  [a EXCEPT !.error = "Illegal merge"].error # ""
<1>1. [a EXCEPT !.error = "Illegal merge"].error = "Illegal merge"
  BY DEF SaneAccs, AccsOver
<1>2. QED
  BY <1>1

(* handle_merge begins.                                                    *)
LEMMA StartMergeComputes == IInv /\ Computes /\ StartMerge => Computes'
<1> SUFFICES ASSUME IInv, Computes, StartMerge PROVE Computes'
  OBVIOUS
<1> DEFINE p == Head(todo)
           t == Tail(todo)
           v == p.value
           r == HandleMerge(acc, v)
<1>1. /\ ClosedUnderParts(Objects) /\ acc \in SaneAccs(Objects)
      /\ todo \in Seq(PairsOver(Objects))
  BY SaneState
<1>2. /\ pass = "all" /\ todo # <<>> /\ IsMergePair(p)
      /\ sources = <<>> /\ entries = <<>>
      /\ todo' = t
      /\ UNCHANGED <<pairs, entries>>
  BY DEF StartMerge, Expanding
<1>3. /\ acc.error = ""
      /\ SecondLoopFrom(acc, <<>>, <<>>, todo) = AssembleMap(pairs)
  BY <1>2 DEF Computes, SecondLoopComputes
<1>4. HandlePair(acc, p, AllKinds) = r
  BY <1>2, <1>3 DEF HandlePair, KindOf, AllKinds
<1>5. /\ p \in PairsOver(Objects) /\ t \in Seq(PairsOver(Objects))
      /\ r \in SaneAccs(Objects)
      /\ HandlePairs(acc, todo, AllKinds) = HandlePairs(r, t, AllKinds)
  <2>1. PassUnrolled(Objects, acc, todo, AllKinds)
    BY <1>1, UnrollPass
  <2>2. QED
    BY <1>2, <1>4, <2>1 DEF PassUnrolled
<1>6. v \in Objects /\ v.items \in Seq(Objects)
  <2>1. v \in Objects
    BY <1>5 DEF PairsOver
  <2>2. QED
    BY <1>1, <2>1 DEF ClosedUnderParts
<1>7. HandlePairs(r, t, AllKinds) = AssembleMap(pairs)
  BY <1>1, <1>3, <1>5, NothingToDo DEF SecondLoopFrom
<1>8. CASE pass' = "all"
  <2>1. acc' = acc /\ MergeElements(acc, sources') = r
    <3>1. CASE IsMap(v)
      <4>1. acc' = acc /\ sources' = <<v>>
        BY <1>8, <3>1 DEF StartMerge, IsMap
      <4>2. r = ExpandMerge(acc, v) /\ MergeElement(acc, v) = r
        BY <1>3, <3>1 DEF HandleMerge, MergeElement, IsMap
      <4> HIDE DEF v, r
      <4>3. <<v>> \in Seq(Objects) /\ Head(<<v>>) = v /\ Tail(<<v>>) = <<>> /\ <<v>> # <<>>
        BY <1>6
      <4>4. ElementsUnrolled(Objects, acc, <<v>>)
        BY <1>1, <4>3, UnrollElements
      <4>5. MergeElements(acc, <<v>>) = MergeElements(r, <<>>)
        BY <4>2, <4>3, <4>4 DEF ElementsUnrolled
      <4>6. MergeElements(r, <<>>) = r
        BY <1>1, <1>5, NothingToDo
      <4>7. QED
        BY <4>1, <4>5, <4>6
    <3>2. CASE v.type = "list"
      BY <3>2 DEF StartMerge, HandleMerge, IsMap
    <3>3. CASE ~IsMap(v) /\ v.type # "list"
      BY <1>8, <3>3 DEF StartMerge
    <3>4. QED
      BY <3>1, <3>2, <3>3
  <2> HIDE DEF r
  <2>2. SecondLoopFrom(acc, <<>>, sources', t) = HandlePairs(r, t, AllKinds)
    BY <1>1, <2>1, NothingToDo DEF SecondLoopFrom
  <2>3. QED
    BY <1>2, <1>3, <1>7, <1>8, <2>1, <2>2
       DEF Computes, FirstLoopComputes, SecondLoopComputes, EndComputes
<1>9. CASE pass' # "all"
  <2>1. ~IsMap(v) /\ v.type # "list" /\ pass' = "failed"
        /\ acc' = [acc EXCEPT !.error = "Illegal merge"]
    BY <1>2, <1>9 DEF StartMerge
  <2>2. r = acc'
    BY <2>1 DEF HandleMerge
  <2>3. acc'.error # ""
    BY <1>1, <2>1, IllegalMergeIsSet
  <2> HIDE DEF r
  <2>4. HandlePairs(r, t, AllKinds) = acc'
    BY <1>1, <1>5, <2>2, <2>3, ErrorEndsLoops
  <2>5. QED
    BY <1>2, <1>7, <2>1, <2>3, <2>4
       DEF Computes, FirstLoopComputes, SecondLoopComputes, EndComputes
<1>10. QED
  BY <1>8, <1>9

(* The next element of a list of maps.                                     *)
LEMMA StartExpansionComputes == IInv /\ Computes /\ StartExpansion => Computes'
<1> SUFFICES ASSUME IInv, Computes, StartExpansion PROVE Computes'
  OBVIOUS
<1> DEFINE m == Head(sources)
           s == Tail(sources)
           r == MergeElement(acc, m)
<1>1. /\ ClosedUnderParts(Objects) /\ acc \in SaneAccs(Objects)
      /\ todo \in Seq(PairsOver(Objects)) /\ sources \in Seq(Objects)
  BY SaneState
<1>2. /\ pass = "all" /\ entries = <<>> /\ sources # <<>> /\ sources' = s
      /\ UNCHANGED <<pairs, todo>>
  BY DEF StartExpansion
<1>3. /\ acc.error = ""
      /\ SecondLoopFrom(acc, <<>>, sources, todo) = AssembleMap(pairs)
  BY <1>2 DEF Computes, SecondLoopComputes
<1>4. /\ m \in Objects /\ s \in Seq(Objects) /\ r \in SaneAccs(Objects)
      /\ MergeElements(acc, sources) = MergeElements(r, s)
  <2>1. ElementsUnrolled(Objects, acc, sources)
    BY <1>1, UnrollElements
  <2>2. QED
    BY <1>2, <2>1 DEF ElementsUnrolled
<1>5. HandlePairs(MergeElements(r, s), todo, AllKinds) = AssembleMap(pairs)
  BY <1>1, <1>3, <1>4, NothingToDo DEF SecondLoopFrom
<1>6. CASE IsMap(m)
  <2>1. /\ acc' = acc /\ pass' = "all"
        /\ entries' = [i \in DOMAIN m.items |-> Pair(m.keys[i], m.items[i])]
    BY <1>2, <1>6 DEF StartExpansion
  <2>2. entries' = EntriesOf(m)
    BY <2>1 DEF EntriesOf, Pair
  <2>3. r = ExpandMerge(acc, m)
    BY <1>3, <1>6 DEF MergeElement
  <2> HIDE DEF m, r
  <2>4. r = ExpandEntries(Objects, acc, entries')
    BY <1>1, <1>4, <1>6, <2>2, <2>3, ExpandMergeFold
  <2>5. QED
    BY <1>2, <1>3, <1>5, <2>1, <2>4
       DEF Computes, FirstLoopComputes, SecondLoopComputes, EndComputes, SecondLoopFrom
<1>7. CASE ~IsMap(m)
  <2>1. acc' = [acc EXCEPT !.error = "Illegal merge"] /\ pass' = "failed"
    BY <1>7 DEF StartExpansion
  <2>2. r = acc'
    BY <1>3, <1>7, <2>1 DEF MergeElement
  <2>3. acc'.error # ""
    BY <1>1, <2>1, IllegalMergeIsSet
  <2> HIDE DEF r, s
  <2>4. MergeElements(r, s) = acc' /\ HandlePairs(acc', todo, AllKinds) = acc'
    BY <1>1, <1>4, <2>2, <2>3, ErrorEndsLoops
  <2>5. QED
    BY <1>2, <1>5, <2>1, <2>3, <2>4
       DEF Computes, FirstLoopComputes, SecondLoopComputes, EndComputes
<1>8. QED
  BY <1>6, <1>7

(* One merged entry.                                                       *)
LEMMA MergeEntryComputes == IInv /\ Computes /\ MergeEntry => Computes'
<1> SUFFICES ASSUME IInv, Computes, MergeEntry PROVE Computes'
  OBVIOUS
<1> DEFINE p == Head(entries)
           e == Tail(entries)
<1>1. /\ ClosedUnderParts(Objects) /\ acc \in SaneAccs(Objects)
      /\ entries \in Seq(PairsOver(Objects))
  BY SaneState
<1>2. /\ pass = "all" /\ entries # <<>> /\ entries' = e
      /\ acc' = ExpandMergeEntry(acc, p.key, p.value)
      /\ UNCHANGED <<pairs, pass, todo, sources>>
  BY DEF MergeEntry
<1>3. /\ acc.error = ""
      /\ SecondLoopFrom(acc, entries, sources, todo) = AssembleMap(pairs)
  BY <1>2 DEF Computes, SecondLoopComputes
<1>4. ExpandEntries(Objects, acc, entries) = ExpandEntries(Objects, acc', e)
  <2>1. EntriesUnrolled(Objects, acc, entries)
    BY <1>1, UnrollEntries
  <2>2. QED
    BY <1>2, <2>1 DEF EntriesUnrolled
<1>5. acc'.error = ""
  <2>1. p \in PairsOver(Objects)
    BY <1>1, <1>2, TailProperties
  <2>2. /\ p.key \in Objects /\ p.value \in Objects
        /\ acc \in AccsOver(Objects) /\ Unambiguous(acc.map)
    BY <1>1, <2>1 DEF PairsOver, SaneAccs
  <2> HIDE DEF p
  <2>3. acc'.error = acc.error
    BY <1>2, <2>2, ExpandMergeEntryProperties
  <2>4. QED
    BY <1>3, <2>3
<1>6. QED
  BY <1>2, <1>3, <1>4, <1>5
     DEF Computes, FirstLoopComputes, SecondLoopComputes, EndComputes, SecondLoopFrom

(* Nothing is left to do.                                                  *)
LEMMA FinishComputes == IInv /\ Computes /\ Finish => Computes'
<1> SUFFICES ASSUME IInv, Computes, Finish PROVE Computes'
  OBVIOUS
<1>1. ClosedUnderParts(Objects) /\ acc \in SaneAccs(Objects)
  BY SaneState
<1>2. /\ pass = "all" /\ todo = <<>> /\ sources = <<>> /\ entries = <<>>
      /\ pass' = "done" /\ UNCHANGED <<pairs, acc>>
  BY DEF Finish, Expanding
<1>3. SecondLoopFrom(acc, <<>>, <<>>, <<>>) = AssembleMap(pairs)
  BY <1>2 DEF Computes, SecondLoopComputes
<1>4. acc = AssembleMap(pairs)
  BY <1>1, <1>3, NothingToDo DEF SecondLoopFrom
<1>5. QED
  BY <1>2, <1>4 DEF Computes, FirstLoopComputes, SecondLoopComputes, EndComputes

(* What is left to do always leads to the same map.                        *)
LEMMA NextComputes == IInv /\ IInv' /\ Computes /\ [Next]_vars => Computes'
<1> SUFFICES ASSUME IInv, IInv', Computes, [Next]_vars PROVE Computes'
  OBVIOUS
<1>1. CASE UNCHANGED vars
  BY <1>1 DEF vars, Computes, FirstLoopComputes, SecondLoopComputes, EndComputes,
              SecondLoopFrom, PutOff
<1>2. QED
  BY <1>1, PlainPassComputes, SkipMergeComputes, StartSecondPassComputes,
     PlainEntryComputes, StartMergeComputes, StartExpansionComputes,
     MergeEntryComputes, FinishComputes DEF Next


(* The loops of handle_map, with their early ends, compute AssembleMap,    *)
(* the operator that stands for all of handle_map in the event loop.       *)
THEOREM LoopsCompute == Spec => []LoopsComputeAssembleMap
<1>1. Spec => []Computes
  BY InitComputes, NextComputes, SpecIInv, PTL DEF Spec
<1>2. Computes => LoopsComputeAssembleMap
  BY DEF Computes, EndComputes, Finished, LoopsComputeAssembleMap
<1>3. QED
  BY <1>1, <1>2, PTL
=============================================================================
