---------------------------- MODULE MCMapAssembly ----------------------------
(***************************************************************************)
(* Instance of MapAssembly: every sequence of at most MaxPairs pairs over  *)
(* two keys that collide as strings ("1" and 1), a third key, scalar and   *)
(* NULL values, and merge values that are a map, a list of maps, an empty  *)
(* list, a list with a scalar in it, or a scalar.                          *)
(***************************************************************************)
EXTENDS MapAssembly

CONSTANT MaxPairs

MCPlainKeys == {ChrOf("a"), ChrOf("1"), IntOf("1")}
MCPlainValues == {ChrOf("x"), Null}

MCBase(k) == MapOf(<<KeyOf(k)>>, <<ChrOf("y")>>)
MCTwo == MapOf(<<ChrOf("a"), ChrOf("1")>>, <<ChrOf("z"), ChrOf("y")>>)
MCMergeValues ==
    {MCTwo, List(<<MCBase(ChrOf("a")), MCTwo>>), List(<<>>),
     List(<<MCBase(IntOf("1")), ChrOf("x")>>), ChrOf("x"), Null}

MCPairs == {Pair(k, v) : k \in MCPlainKeys, v \in MCPlainValues}
           \cup {Pair(MergeKey, v) : v \in MCMergeValues}

MCInputs == UNION {[1..n -> MCPairs] : n \in 0..MaxPairs}

MCObjects == MCPlainKeys \cup MCPlainValues \cup MCMergeValues
             \cup {MergeKey, ChrOf("_yaml.merge_"), ChrOf("y"), ChrOf("z"),
                   ChrOf(""), ChrOf("deparsed")}
             \cup {MCBase(ChrOf("a")), MCBase(IntOf("1"))}

-----------------------------------------------------------------------------
(* What the documentation says the result is: the entries of the mapping   *)
(* in document order, merge values spread out in place; with "override"    *)
(* the plain ones in front of the merged ones.  Of each key the first      *)
(* entry counts.  An entry that cannot be there is kept as "illegal".      *)
Ref(key, value, kind) == [key |-> key, value |-> value, kind |-> kind]

SpreadMap(m) == [i \in DOMAIN m.items |-> Ref(m.keys[i], m.items[i], "merged")]

Spread(value) ==
    LET one(m) == IF IsMap(m) THEN SpreadMap(m)
                  ELSE <<Ref(Null, Null, "illegal")>>
    IN  IF value.type = "list"
        THEN FlattenSeq([i \in DOMAIN value.items |-> one(value.items[i])])
        ELSE one(value)

InDocumentOrder ==
    FlattenSeq([i \in DOMAIN pairs |->
        IF IsMergePair(pairs[i]) THEN Spread(pairs[i].value)
        ELSE <<Ref(KeyOf(pairs[i].key), pairs[i].value, "plain")>>])

InPrecedenceOrder ==
    LET plain(r) == r.kind = "plain"
        other(r) == r.kind # "plain"
    IN  IF MergeOverride
        THEN SelectSeq(InDocumentOrder, plain) \o SelectSeq(InDocumentOrder, other)
        ELSE InDocumentOrder

FirstWithKey(s, i) == CHOOSE j \in DOMAIN s :
    s[j].key = s[i].key /\ \A k \in 1..(j - 1) : s[k].key # s[i].key

IsBad(s, i) == \/ s[i].kind = "illegal"
               \/ /\ s[i].kind = "plain"
                  /\ FirstWithKey(s, i) # i
                  /\ s[FirstWithKey(s, i)].kind = "plain"

(* When handle_map is done, its map is exactly the first entry of each key *)
(* in the documented order of precedence, and each entry left out has been *)
(* warned about if merge.warning is set; it fails if and only if a pair    *)
(* repeats a key that is written out, or a merge value is not a map.  Where *)
(* a NULL hides entries (MapAssembly!HiddenByNull) none of this is said.   *)
MatchesDocumentation ==
    LET ref == InPrecedenceOrder
        firsts == SelectSeq([i \in DOMAIN ref |-> <<i, ref[i]>>],
                            LAMBDA p : FirstWithKey(ref, p[1]) = p[1])
        hidden(r) == ~CoerceKeys /\ r.kind # "illegal" /\ r.value = Null
    IN  Finished /\ (\A i \in DOMAIN ref : ~hidden(ref[i])) =>
        /\ pass = "failed" <=> \E i \in DOMAIN ref : IsBad(ref, i)
        /\ pass = "done" =>
             /\ acc.map = [i \in DOMAIN firsts |->
                    Entry(firsts[i][2].key, firsts[i][2].value,
                          firsts[i][2].kind = "merged")]
             /\ MergeWarning => acc.warned = Len(ref) - Len(firsts)
=============================================================================
