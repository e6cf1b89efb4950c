------------------------------ MODULE RValues ------------------------------
(***************************************************************************)
(* The R objects that r_parse.c puts on its stack, reduced to what its     *)
(* decisions look at: the type, the class attribute, the length, the       *)
(* elements and the names (or the "keys" attribute) of a map.              *)
(*                                                                         *)
(* A scalar of R is a vector of length 1, so "chr" and "int" values carry  *)
(* a sequence of atoms.  A character vector stands for the four atomic     *)
(* types with "int" as the second one, enough for a mixed sequence.  A     *)
(* "sym" value is one of the two symbols the event loop uses as markers.   *)
(* All values are records with the same five fields, so that any two can   *)
(* be compared.                                                            *)
(***************************************************************************)
EXTENDS Naturals, Sequences

Types == {"null", "chr", "int", "list", "map", "sym"}

AtomicTypes == {"chr", "int"}

RObject(type, class, atoms, items, keys) ==
    [type |-> type, class |-> class, atoms |-> atoms,
     items |-> items, keys |-> keys]

ChrOf(a) == RObject("chr", "", <<a>>, <<>>, <<>>)
IntOf(a) == RObject("int", "", <<a>>, <<>>, <<>>)
Null     == RObject("null", "", <<>>, <<>>, <<>>)
List(s)  == RObject("list", "", <<>>, s, <<>>)
Sym(s)   == RObject("sym", s, <<>>, <<>>, <<>>)

(* ScalarString("_yaml.merge_") with the class of the same name.           *)
MergeKey  == RObject("chr", "_yaml.merge_", <<"_yaml.merge_">>, <<>>, <<>>)
(* What handle_alias pushes for an anchor it does not know.                *)
BadAnchor == RObject("chr", "_yaml.bad-anchor_", <<"_yaml.bad-anchor_">>,
                     <<>>, <<>>)

(* The symbols sequence.start and mapping.start, the markers of the stack. *)
SequenceStart == Sym("sequence.start")
MappingStart  == Sym("mapping.start")
IsMarker(v)   == v = SequenceStart \/ v = MappingStart

(* A map: a named list, or a list with a "keys" attribute when the caller  *)
(* asked for as.named.list = FALSE.  Its keys are values either way.       *)
MapOf(keys, items) == RObject("map", "", <<>>, items, keys)
IsMap(v)           == v.type = "map"
HasClass(v, name)  == v.class = name
IsAtomic(v)        == v.type \in AtomicTypes

RLength(v) == IF IsAtomic(v) THEN Len(v.atoms) ELSE Len(v.items)

(* AS_CHARACTER followed by the choice of the first element; an element of *)
(* a list that is not a scalar is deparsed, which no decision looks into.  *)
FirstAsCharacter(v) ==
    IF RLength(v) = 0 THEN ""
    ELSE IF IsAtomic(v) THEN v.atoms[1]
    ELSE IF IsAtomic(v.items[1]) /\ RLength(v.items[1]) = 1
         THEN v.items[1].atoms[1]
    ELSE "deparsed"

(* handle_sequence converts a list to a vector when every child is a       *)
(* length-1 vector of one and the same atomic type.                        *)
Coerced(s) ==
    LET UniformOf(t) == /\ s # <<>>
                        /\ \A i \in DOMAIN s : s[i].type = t /\ RLength(s[i]) = 1
    IN  IF \E t \in AtomicTypes : UniformOf(t)
        THEN RObject(CHOOSE t \in AtomicTypes : UniformOf(t), "",
                     [i \in DOMAIN s |-> s[i].atoms[1]], <<>>, <<>>)
        ELSE List(s)
=============================================================================
