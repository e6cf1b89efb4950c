----------------------------- MODULE MapAssembly -----------------------------
(***************************************************************************)
(* handle_map of r_parse.c, one action per iteration of its loops: the     *)
(* pass that moves the plain pairs off the stack when merge_override is    *)
(* set, the pass over what is left, and inside it the expansion of a merge *)
(* value, entry by entry.  What MapEntries states as one operator, this    *)
(* module performs in the order of the code, on the stack it shrinks.      *)
(***************************************************************************)
EXTENDS MapEntries

CONSTANTS Objects,   \* the R objects that may occur, with all their parts
          Inputs     \* the sequences of pairs a mapping may hold

Pair(key, value) == [key |-> key, value |-> value]
Pairs   == [key : Objects, value : Objects]
Entries == [key : Objects, value : Objects, merged : BOOLEAN]

ASSUME ObjectsAssumption ==
    \A v \in Objects :
        /\ v.type \in Types
        /\ v.items \in Seq(Objects)
        /\ v.keys \in Seq(Objects)
        /\ IsMap(v) => Len(v.keys) = Len(v.items)
        /\ KeyOf(v) \in Objects

ASSUME InputsAssumption == Inputs \subseteq Seq(Pairs)

VARIABLES pairs,    \* what the mapping held when its end event came
          pass,     \* "plain", "all", "done" or "failed"
          todo,     \* the pairs from s_curr on
          left,     \* pairs the plain pass has left on the stack behind s_curr
          sources,  \* maps of the current merge value still to be expanded
          entries,  \* entries of the map being expanded still to be looked at
          acc       \* the interim map, the error and the warnings

vars == <<pairs, pass, todo, left, sources, entries, acc>>

Passes == {"plain", "all", "done", "failed"}

Init == /\ pairs \in Inputs
        /\ pass = IF MergeOverride THEN "plain" ELSE "all"
        /\ todo = pairs
        /\ left = <<>>
        /\ sources = <<>>
        /\ entries = <<>>
        /\ acc = EmptyMap

Expanding == sources # <<>> \/ entries # <<>>

(* Mutant: the error in the place of the state.                            *)
PassAfterError(a) == IF a.error = "" THEN pass ELSE a.error

(* handle_map gives up as soon as a callee has set an error.               *)
PassAfter(a) == IF a.error = "" THEN pass ELSE "failed"

(* Mutant: the pair is also left on the stack.                             *)
PlainPassKeeping ==
    /\ pass = "plain" /\ todo # <<>> /\ ~IsMergePair(Head(todo))
    /\ acc' = HandleMapEntry(acc, Head(todo).key, Head(todo).value)
    /\ pass' = PassAfter(acc')
    /\ todo' = Tail(todo)
    /\ left' = Append(left, Head(todo))
    /\ UNCHANGED <<pairs, sources, entries>>

(* First loop, a plain pair: into the map and off the stack.               *)
PlainPass ==
    /\ pass = "plain" /\ todo # <<>> /\ ~IsMergePair(Head(todo))
    /\ acc' = HandleMapEntry(acc, Head(todo).key, Head(todo).value)
    /\ pass' = PassAfter(acc')
    /\ todo' = Tail(todo)
    /\ UNCHANGED <<pairs, left, sources, entries>>

(* First loop, a merge pair: it stays on the stack.                        *)
SkipMerge ==
    /\ pass = "plain" /\ todo # <<>> /\ IsMergePair(Head(todo))
    /\ left' = Append(left, Head(todo))
    /\ todo' = Tail(todo)
    /\ UNCHANGED <<pairs, pass, sources, entries, acc>>

(* The second loop starts over at s_mapping_start.                         *)
StartSecondPass ==
    /\ pass = "plain" /\ todo = <<>>
    /\ pass' = "all"
    /\ todo' = left
    /\ left' = <<>>
    /\ UNCHANGED <<pairs, sources, entries, acc>>

(* Second loop, a plain pair: with merge_override it should be gone.       *)
PlainEntry ==
    /\ pass = "all" /\ ~Expanding /\ todo # <<>> /\ ~IsMergePair(Head(todo))
    /\ acc' = IF MergeOverride
              THEN [acc EXCEPT !.error = "Merge override failed"]
              ELSE HandleMapEntry(acc, Head(todo).key, Head(todo).value)
    /\ pass' = PassAfter(acc')
    /\ todo' = Tail(todo)
    /\ UNCHANGED <<pairs, left, sources, entries>>

(* Second loop, a merge pair: handle_merge with a map or a list.           *)
StartMerge ==
    /\ pass = "all" /\ ~Expanding /\ todo # <<>> /\ IsMergePair(Head(todo))
    /\ LET value == Head(todo).value IN
       \/ /\ IsMap(value)
          /\ sources' = <<value>>
          /\ UNCHANGED <<pass, acc>>
       \/ /\ value.type = "list"
          /\ sources' = value.items
          /\ UNCHANGED <<pass, acc>>
       \/ /\ ~IsMap(value) /\ value.type # "list"
          /\ acc' = [acc EXCEPT !.error = "Illegal merge"]
          /\ pass' = "failed"
          /\ UNCHANGED sources
    /\ todo' = Tail(todo)
    /\ UNCHANGED <<pairs, left, entries>>

(* Mutant: the elements of the list are not checked.                       *)
StartExpansionUnchecked ==
    /\ pass = "all" /\ entries = <<>> /\ sources # <<>>
    /\ LET m == Head(sources)
       IN  entries' = [i \in DOMAIN m.items |-> Pair(m.keys[i], m.items[i])]
    /\ sources' = Tail(sources)
    /\ UNCHANGED <<pairs, pass, todo, left, acc>>

(* handle_merge goes to the next element of the list, which has to be a    *)
(* map.                                                                    *)
StartExpansion ==
    /\ pass = "all" /\ entries = <<>> /\ sources # <<>>
    /\ LET m == Head(sources) IN
       \/ /\ IsMap(m)
          /\ entries' = [i \in DOMAIN m.items |-> Pair(m.keys[i], m.items[i])]
          /\ UNCHANGED <<pass, acc>>
       \/ /\ ~IsMap(m)
          /\ acc' = [acc EXCEPT !.error = "Illegal merge"]
          /\ pass' = "failed"
          /\ UNCHANGED entries
    /\ sources' = Tail(sources)
    /\ UNCHANGED <<pairs, todo, left>>

(* One iteration of expand_merge.                                          *)
MergeEntry ==
    /\ pass = "all" /\ entries # <<>>
    /\ acc' = ExpandMergeEntry(acc, Head(entries).key, Head(entries).value)
    /\ entries' = Tail(entries)
    /\ UNCHANGED <<pairs, pass, todo, left, sources>>

(* Nothing is left between the start of the mapping and the stack's end.   *)
Finish ==
    /\ pass = "all" /\ ~Expanding /\ todo = <<>>
    /\ pass' = "done"
    /\ UNCHANGED <<pairs, todo, left, sources, entries, acc>>

Next == \/ PlainPass \/ SkipMerge \/ StartSecondPass
        \/ PlainEntry \/ StartMerge \/ StartExpansion \/ MergeEntry
        \/ Finish

Spec == Init /\ [][Next]_vars
-----------------------------------------------------------------------------
Finished == pass \in {"done", "failed"}

(* Type invariant: an entry of the map is made of objects that occur.      *)
TypeOK == /\ pairs \in Inputs
          /\ pass \in Passes
          /\ todo \in Seq(Pairs)
          /\ left \in Seq(Pairs)
          /\ entries \in Seq(Pairs)
          /\ sources \in Seq(Objects)
          /\ acc \in [map : Seq(Entries), error : MapErrors,
                      ignored : Nat, warned : Nat]

(* At no point of the assembly do two entries of the interim map have the  *)
(* same key, whatever mixture of plain and merge pairs is processed        *)
(* (handle_map_entry, expand_merge); but without as.named.list a key may   *)
(* come again when its first entry, or one in front of that, holds NULL,   *)
(* where the search ends (r_parse.c:648).                                  *)
HiddenByNull(i) == ~CoerceKeys /\ \E k \in 1..i : acc.map[k].value = Null

UniqueKeys ==
    \A i, j \in DOMAIN acc.map :
        i < j /\ acc.map[i].key = acc.map[j].key => HiddenByNull(i)

(* The same without the exception: what "If not, it's a duplicate key      *)
(* error" of r_parse.c:755 promises for every map.                         *)
NoDuplicateKey ==
    \A i, j \in DOMAIN acc.map :
        acc.map[i].key = acc.map[j].key => i = j

(* With merge.precedence = "override" every pair written out in the        *)
(* mapping is in the result with its own value, wherever the merge keys    *)
(* stand and whatever they bring (man/yaml.load.Rd, merge.precedence).     *)
InMap(p) == \E i \in DOMAIN acc.map :
               acc.map[i] = Entry(KeyOf(p.key), p.value, FALSE)

PlainPairsWin ==
    MergeOverride /\ pass = "done" =>
        \A i \in DOMAIN pairs : ~IsMergePair(pairs[i]) => InMap(pairs[i])

(* The internal check of the second loop never fires: the first loop has   *)
(* taken every plain pair off the stack (r_parse.c:929-934).               *)
NoInternalError == acc.error # "Merge override failed"

(* The loops, the one that unlinks pairs from the stack under way and all  *)
(* early ends included, compute AssembleMap, the operator the event loop's *)
(* model uses for the whole of handle_map.                                 *)
LoopsComputeAssembleMap == Finished => acc = AssembleMap(pairs)
=============================================================================
