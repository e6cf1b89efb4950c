----------------------------- MODULE MapEntries -----------------------------
(***************************************************************************)
(* How handle_map turns the key/value pairs of one mapping into a map: the *)
(* interim map, the search for an entry, plain entries, merge entries      *)
(* ("<<") and the two orders of precedence.  These are the functions of    *)
(* r_parse.c as operators on an accumulator                                *)
(*                                                                         *)
(*   [map     : the interim map, a sequence of [key, value, merged],       *)
(*    error   : "" or the kind of the error message that was set,          *)
(*    ignored : how many entries were dropped for an existing key,         *)
(*    warned  : how many "Duplicate map key ignored" warnings were given]  *)
(***************************************************************************)
EXTENDS RValues, SequencesExt

CONSTANTS CoerceKeys,      \* as.named.list
          MergeOverride,   \* merge.precedence = "override"
          MergeWarning     \* merge.warning

ASSUME OptionsAssumption ==
    /\ CoerceKeys \in BOOLEAN
    /\ MergeOverride \in BOOLEAN
    /\ MergeWarning \in BOOLEAN

Entry(key, value, merged) == [key |-> key, value |-> value, merged |-> merged]

EmptyMap == [map |-> <<>>, error |-> "", ignored |-> 0, warned |-> 0]

MapErrors == {"", "Duplicate map key", "Illegal merge", "Merge override failed"}

(* With coerce_keys a key becomes the first string of its vector.          *)
KeyOf(k) == IF CoerceKeys THEN ChrOf(FirstAsCharacter(k)) ELSE k

(* The entries that find_map_entry visits: all of them when keys are       *)
(* strings, else only those in front of the first entry whose value is     *)
(* NULL, because that loop ends on CAR(s_curr) == R_NilValue.              *)
Visited(map) ==
    {i \in DOMAIN map : CoerceKeys \/ \A j \in 1..i : map[j].value # Null}

Matches(map, key) == {i \in Visited(map) : map[i].key = key}

(* A matching entry is left alone: the new pair is dropped, with a warning *)
(* if the caller asked for it.                                             *)
Ignore(acc) == [acc EXCEPT !.ignored = @ + 1,
                           !.warned = IF MergeWarning THEN @ + 1 ELSE @]

Add(acc, entry) == [acc EXCEPT !.map = Append(@, entry)]

(* Mutants of expand_merge: no search for the key; the merged value wins.  *)
ExpandMergeUnchecked(acc, key, value) == Add(acc, Entry(key, value, TRUE))

ExpandMergeReplacing(acc, key, value) ==
    LET found == Matches(acc.map, key)
    IN  IF found = {} THEN Add(acc, Entry(key, value, TRUE))
        ELSE [acc EXCEPT !.map = [i \in DOMAIN @ |->
                 IF i \in found THEN Entry(key, value, TRUE) ELSE @[i]]]

(* One iteration of expand_merge.                                          *)
ExpandMergeEntry(acc, key, value) ==
    IF Matches(acc.map, key) # {}
    THEN Ignore(acc)
    ELSE Add(acc, Entry(key, value, TRUE))

(* Mutant of handle_map_entry: every key found is a duplicate.             *)
HandleMapEntryStrict(acc, k, value) ==
    IF Matches(acc.map, KeyOf(k)) = {}
    THEN Add(acc, Entry(KeyOf(k), value, FALSE))
    ELSE [acc EXCEPT !.error = "Duplicate map key"]

(* handle_map_entry: the first entry with the key decides between a        *)
(* duplicate (it was written out) and a pair to ignore (it was merged).    *)
HandleMapEntry(acc, k, value) ==
    LET key == KeyOf(k)
        found == Matches(acc.map, key)
        first == CHOOSE i \in found : \A j \in found : i <= j
    IN  IF found = {}
        THEN Add(acc, Entry(key, value, FALSE))
        ELSE IF acc.map[first].merged
             THEN Ignore(acc)
             ELSE [acc EXCEPT !.error = "Duplicate map key"]

(* expand_merge over all the entries of one mergeable map.                 *)
ExpandMerge(acc, m) ==
    LET after[i \in 0..Len(m.items)] ==
            IF i = 0 THEN acc
            ELSE ExpandMergeEntry(after[i - 1], m.keys[i], m.items[i])
    IN  after[Len(m.items)]

(* handle_merge over the elements of a list, which have to be maps.        *)
MergeElement(acc, m) ==
    IF acc.error # "" THEN acc
    ELSE IF IsMap(m) THEN ExpandMerge(acc, m)
    ELSE [acc EXCEPT !.error = "Illegal merge"]

MergeElements(acc, maps) ==
    LET after[i \in 0..Len(maps)] ==
            IF i = 0 THEN acc ELSE MergeElement(after[i - 1], maps[i])
    IN  after[Len(maps)]

(* handle_merge: a map, or a list of maps; anything else is illegal.       *)
HandleMerge(acc, value) ==
    CASE IsMap(value)         -> ExpandMerge(acc, value)
      [] value.type = "list"  -> MergeElements(acc, value.items)
      [] OTHER                -> [acc EXCEPT !.error = "Illegal merge"]

IsMergePair(pair) == HasClass(pair.key, "_yaml.merge_")
KindOf(pair) == IF IsMergePair(pair) THEN "merge" ELSE "plain"

(* One pair, in a pass that takes the pairs of some kinds and stops when   *)
(* an error is set; and a pass over the pairs on the stack.                *)
HandlePair(acc, pair, kinds) ==
    IF acc.error # "" \/ KindOf(pair) \notin kinds THEN acc
    ELSE IF IsMergePair(pair) THEN HandleMerge(acc, pair.value)
    ELSE HandleMapEntry(acc, pair.key, pair.value)

HandlePairs(acc, pairs, kinds) ==
    LET after[i \in 0..Len(pairs)] ==
            IF i = 0 THEN acc ELSE HandlePair(after[i - 1], pairs[i], kinds)
    IN  after[Len(pairs)]

(* The two loops of handle_map.  With merge_override the plain pairs go    *)
(* first.                                                                  *)
AssembleMap(pairs) ==
    IF MergeOverride
    THEN HandlePairs(HandlePairs(EmptyMap, pairs, {"plain"}), pairs, {"merge"})
    ELSE HandlePairs(EmptyMap, pairs, {"plain", "merge"})

(* The list that handle_map builds from the interim map.                   *)
MapValue(acc) == MapOf([i \in DOMAIN acc.map |-> acc.map[i].key],
                       [i \in DOMAIN acc.map |-> acc.map[i].value])
=============================================================================
