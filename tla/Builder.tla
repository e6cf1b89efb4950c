------------------------------- MODULE Builder -------------------------------
(***************************************************************************)
(* The event loop of Ryaml_unserialize_from_yaml (r_parse.c): it asks the  *)
(* parser for one event at a time and builds R objects on a stack.  A      *)
(* collection is a marker followed by the cells of its children; its end   *)
(* event searches the marker, folds the children into one object and puts  *)
(* it in the marker's place.  The parser's side is the EventStream         *)
(* contract; each step below is one call of yaml_parser_parse together     *)
(* with everything the switch does with the event it returned.             *)
(*                                                                         *)
(* R code runs inside the loop: custom handlers and "!expr" scalars.  What *)
(* they compute is external; HandlerOutcomes says what may come back.  A   *)
(* handler may itself call yaml.load or as.yaml, which write the one       *)
(* global Ryaml_error_msg.                                                 *)
(***************************************************************************)
EXTENDS MapEntries

CONSTANTS MaxNodes, MaxDocuments,
          Anchors,          \* anchor names
          Scalars,          \* scalar events: [tag, text], the tag resolved
          SequenceTags,     \* tags of sequences, "seq" when there is none
          MappingTags,      \* tags of mappings, "map" when there is none
          HandlerTags,      \* types with a handler that passed the checks
          HandlerOutcomes,  \* what a handler or an expression may do
          EvalExpr          \* eval.expr

NoAnchor == "none"

(* A handler fails or returns an object, and leaves a text in the global   *)
(* message: "untouched", or what a nested call left there.                 *)
Messages == {"", "Nested", "Internal error", "Invalid tag", "Not maps",
             "Duplicate omap key", "Duplicate map key", "Illegal merge",
             "Merge override failed", "Bad expression", "Parser error"}

ASSUME BuilderAssumption ==
    /\ MaxNodes \in Nat /\ MaxDocuments \in Nat
    /\ NoAnchor \notin Anchors
    /\ EvalExpr \in BOOLEAN
    /\ \A o \in HandlerOutcomes : /\ o.fails \in BOOLEAN
                                  /\ o.leaves \in {"untouched", "", "Nested"}
    /\ "merge" \notin HandlerTags

VARIABLES phase, open, nodes, documents,   \* the parser, see EventStream
          stack,      \* the cells behind s_stack_head: [obj, tag, anchor]
          aliases,    \* the cells behind s_aliases_head: [name, obj]
          errorMsg,   \* Ryaml_error_msg, by kind
          failed,     \* a handler returned an error, or the parser failed
          done,       \* the loop has ended
          outcome,    \* what yaml.load does: "running", "value" or "error"
          result      \* s_retval

Parser == INSTANCE EventStream

parserVars == <<phase, open, nodes, documents>>
vars == <<phase, open, nodes, documents,
          stack, aliases, errorMsg, failed, done, outcome, result>>

Cell(obj, tag, anchor) == [obj |-> obj, tag |-> tag, anchor |-> anchor]
Value(obj) == Cell(obj, "", NoAnchor)

Init == /\ Parser!StreamInit
        /\ stack = <<>>
        /\ aliases = <<>>
        /\ errorMsg = ""
        /\ failed = FALSE
        /\ done = FALSE
        /\ outcome = "running"
        /\ result = Null

-----------------------------------------------------------------------------
(* What a conversion yields: an object, or the kind of its error; and the  *)
(* text in Ryaml_error_msg afterwards.                                     *)
Yields(obj, message) == [obj |-> obj, fails |-> FALSE, message |-> message]
Fails(message)       == [obj |-> Null, fails |-> TRUE, message |-> message]

(* Mutant: an error without a message.                                     *)
InvalidTagUnset(message) == Fails(message)

(* "Invalid tag" is only written over an empty message.                    *)
InvalidTag(message) == Fails(IF message = "" THEN "Invalid tag" ELSE message)

(* Mutant: a handler that fails sets the message.                          *)
LeftByFailure(o, message) == IF o.fails THEN "Bad expression" ELSE message

LeftBy(o, message) == IF o.leaves = "untouched" THEN message ELSE o.leaves

(* A custom handler goes first: what comes of it when it returns ...       *)
HandlerResults(tag) ==
    {Yields(o.result, LeftBy(o, errorMsg)) :
        o \in {p \in HandlerOutcomes : tag \in HandlerTags /\ ~p.fails}}

(* ... and the message with which the default conversion starts, when      *)
(* there is no handler or, after a warning, when it failed.                *)
DefaultMessages(tag) ==
    IF tag \notin HandlerTags THEN {errorMsg}
    ELSE {LeftBy(o, errorMsg) : o \in {p \in HandlerOutcomes : p.fails}}

(* "!expr": parsed and evaluated when eval.expr is set, else left alone.   *)
Evaluations(text, message) ==
    IF EvalExpr
    THEN {Fails("Bad expression")} \cup
         {IF o.fails THEN Fails("Bad expression")
          ELSE Yields(o.result, LeftBy(o, message)) : o \in HandlerOutcomes}
    ELSE {Yields(ChrOf(text), message)}

ScalarDefaults(s, message) ==
    CASE s.tag \in {"seq", "omap"} -> {InvalidTag(message)}
      [] s.tag = "int"   -> {Yields(IntOf(s.text), message)}
      [] s.tag = "null"  -> {Yields(Null, message)}
      [] s.tag = "merge" -> {Yields(MergeKey, message)}
      [] s.tag = "expr"  -> Evaluations(s.text, message)
      [] OTHER           -> {Yields(ChrOf(s.text), message)}

ScalarConversions(s) ==
    HandlerResults(s.tag) \cup
    UNION {ScalarDefaults(s, message) : message \in DefaultMessages(s.tag)}

(* "!omap": the maps of the sequence are joined into one.                  *)
JoinedKeys(items)   == FlattenSeq([i \in DOMAIN items |-> items[i].keys])
JoinedValues(items) == FlattenSeq([i \in DOMAIN items |-> items[i].items])

(* Mutant: the keys are not compared.                                      *)
OrderedMapUnchecked(items, message) ==
    IF \E i \in DOMAIN items : ~IsMap(items[i]) THEN Fails("Not maps")
    ELSE Yields(MapOf(JoinedKeys(items), JoinedValues(items)), message)

OrderedMap(items, message) ==
    IF \E i \in DOMAIN items : ~IsMap(items[i]) THEN Fails("Not maps")
    ELSE IF IsInjective(JoinedKeys(items))
         THEN Yields(MapOf(JoinedKeys(items), JoinedValues(items)), message)
         ELSE Fails("Duplicate omap key")

SequenceDefaults(tag, items, message) ==
    CASE tag = "seq"  -> {Yields(Coerced(items), message)}
      [] tag = "omap" -> {OrderedMap(items, message)}
      [] tag = "null" -> {Yields(Null, message)}
      [] tag \in {"str", "int", "merge", "expr"} -> {InvalidTag(message)}
      [] OTHER        -> {Yields(List(items), message)}

MappingDefaults(tag, map, message) ==
    CASE tag = "null" -> {Yields(Null, message)}
      [] tag \in {"str", "seq", "int", "omap", "merge", "expr"}
                      -> {InvalidTag(message)}
      [] OTHER        -> {Yields(map, message)}

-----------------------------------------------------------------------------
(* Mutants: the first marker instead of the last; a search that starts one *)
(* cell too late.                                                          *)
FirstMarker(marker) ==
    LET found == {i \in DOMAIN stack : stack[i].obj = marker}
    IN  IF found = {} THEN 0 ELSE CHOOSE i \in found : \A j \in found : i <= j

LastMarkerAboveBottom(marker) ==
    LET found == {i \in 2..Len(stack) : stack[i].obj = marker}
    IN  IF found = {} THEN 0 ELSE CHOOSE i \in found : \A j \in found : j <= i

(* The last cell that holds the marker, 0 if there is none.                *)
LastMarker(marker) ==
    LET found == {i \in DOMAIN stack : stack[i].obj = marker}
    IN  IF found = {} THEN 0 ELSE CHOOSE i \in found : \A j \in found : j <= i

Children(m) == [i \in 1..(Len(stack) - m) |-> stack[m + i].obj]

(* The cells are taken two at a time; the CADR of a last single cell would *)
(* be R_NilValue.                                                          *)
PairsOf(s) == [i \in 1..((Len(s) + 1) \div 2) |->
                  [key |-> s[2 * i - 1],
                   value |-> IF 2 * i <= Len(s) THEN s[2 * i] ELSE Null]]

MarkerOf(kind) == IF kind = "sequence" THEN SequenceStart ELSE MappingStart

SequenceConversions(m) ==
    LET tag == stack[m].tag
    IN  HandlerResults(tag) \cup
        UNION {SequenceDefaults(tag, Children(m), message) :
                  message \in DefaultMessages(tag)}

MappingConversions(m) ==
    LET tag == stack[m].tag
        assembled == AssembleMap(PairsOf(Children(m)))
    IN  IF assembled.error # "" THEN {Fails(assembled.error)}
        ELSE HandlerResults(tag) \cup
             UNION {MappingDefaults(tag, MapValue(assembled), message) :
                       message \in DefaultMessages(tag)}

(* What handle_sequence or handle_map makes of the cells from m on.        *)
CollectionConversions(kind, m) ==
    IF m = 0 THEN {Fails("Internal error")}
    ELSE IF kind = "sequence" THEN SequenceConversions(m)
    ELSE MappingConversions(m)

(* Mutant: a node without an anchor is recorded too.                       *)
RecordedAlways(anchor, obj) == Append(aliases, [name |-> anchor, obj |-> obj])

Recorded(anchor, obj) ==
    IF anchor = NoAnchor THEN aliases
    ELSE Append(aliases, [name |-> anchor, obj |-> obj])

(* The end of the switch: an error ends the loop with no value.            *)
Conclude(c, newStack, anchor) ==
    /\ errorMsg' = c.message
    /\ failed' = c.fails
    /\ done' = c.fails
    /\ stack' = IF c.fails THEN stack ELSE newStack
    /\ aliases' = IF c.fails THEN aliases ELSE Recorded(anchor, c.obj)
    /\ UNCHANGED <<outcome, result>>
-----------------------------------------------------------------------------
(* YAML_STREAM_START_EVENT, YAML_DOCUMENT_START_EVENT and                  *)
(* YAML_DOCUMENT_END_EVENT: nothing to do.                                 *)
SkipEvent ==
    /\ ~done
    /\ Parser!StreamStart \/ Parser!DocumentStart \/ Parser!DocumentEnd
    /\ UNCHANGED <<stack, aliases, errorMsg, failed, done, outcome, result>>

(* handle_alias: the first binding of the name from the head of the list.  *)
Bindings(name) == {i \in DOMAIN aliases : aliases[i].name = name}

AliasTarget(name) ==
    IF Bindings(name) = {} THEN BadAnchor
    ELSE aliases[CHOOSE i \in Bindings(name) :
                    \A j \in Bindings(name) : i <= j].obj

HandleAlias(name) ==
    /\ ~done
    /\ Parser!Leaf
    /\ stack' = Append(stack, Value(AliasTarget(name)))
    /\ UNCHANGED <<aliases, errorMsg, failed, done, outcome, result>>

HandleScalar(s, anchor) ==
    /\ ~done
    /\ Parser!Leaf
    /\ \E c \in ScalarConversions(s) :
          Conclude(c, Append(stack, Value(c.obj)), anchor)

(* Mutant: the anchor is bound to the marker at once.                      *)
HandleStructureStartRecording(kind, tag, anchor) ==
    /\ ~done
    /\ Parser!CollectionStart(kind)
    /\ stack' = Append(stack, Cell(MarkerOf(kind), tag, anchor))
    /\ aliases' = Recorded(anchor, MarkerOf(kind))
    /\ UNCHANGED <<errorMsg, failed, done, outcome, result>>

HandleStructureStart(kind, tag, anchor) ==
    /\ ~done
    /\ Parser!CollectionStart(kind)
    /\ stack' = Append(stack, Cell(MarkerOf(kind), tag, anchor))
    /\ UNCHANGED <<aliases, errorMsg, failed, done, outcome, result>>

(* Mutants: the marker stays in front of the object; the object takes the  *)
(* place of the whole stack.                                               *)
HandleCollectionEndKeepingMarker(kind) ==
    /\ ~done
    /\ Parser!CollectionEnd(kind)
    /\ LET m == LastMarker(MarkerOf(kind))
       IN  \E c \in CollectionConversions(kind, m) :
              Conclude(c, Append(SubSeq(stack, 1, m), Value(c.obj)), NoAnchor)

HandleCollectionEndFromBottom(kind) ==
    /\ ~done
    /\ Parser!CollectionEnd(kind)
    /\ LET m == LastMarker(MarkerOf(kind))
       IN  \E c \in CollectionConversions(kind, m) :
              Conclude(c, <<Value(c.obj)>>, NoAnchor)

(* handle_sequence or handle_map, then the anchor of the collection.       *)
HandleCollectionEnd(kind) ==
    /\ ~done
    /\ Parser!CollectionEnd(kind)
    /\ LET m == LastMarker(MarkerOf(kind))
       IN  \E c \in CollectionConversions(kind, m) :
              Conclude(c, Append(SubSeq(stack, 1, m - 1), Value(c.obj)),
                       IF m = 0 THEN NoAnchor ELSE stack[m].anchor)

(* Mutant: the loop goes on after the end.                                 *)
HandleStreamEndOpen ==
    /\ ~done
    /\ Parser!StreamEnd
    /\ result' = IF stack = <<>> THEN Null ELSE stack[1].obj
    /\ UNCHANGED <<stack, aliases, errorMsg, failed, done, outcome>>

(* YAML_STREAM_END_EVENT: the value is the bottom of the stack.            *)
HandleStreamEnd ==
    /\ ~done
    /\ Parser!StreamEnd
    /\ result' = IF stack = <<>> THEN Null ELSE stack[1].obj
    /\ done' = TRUE
    /\ UNCHANGED <<stack, aliases, errorMsg, failed, outcome>>

(* yaml_parser_parse returned 0.                                           *)
HandleParserError ==
    /\ ~done
    /\ Parser!Fail
    /\ errorMsg' = "Parser error"
    /\ failed' = TRUE
    /\ done' = TRUE
    /\ UNCHANGED <<stack, aliases, outcome, result>>

(* After the loop: a message raises an error, else the value is returned.  *)
Return ==
    /\ done /\ outcome = "running"
    /\ outcome' = IF errorMsg # "" THEN "error" ELSE "value"
    /\ UNCHANGED <<phase, open, nodes, documents, stack, aliases,
                   errorMsg, failed, done, result>>

Next ==
    \/ SkipEvent
    \/ \E name \in Anchors : HandleAlias(name)
    \/ \E s \in Scalars, anchor \in Anchors \cup {NoAnchor} : HandleScalar(s, anchor)
    \/ \E tag \in SequenceTags, anchor \in Anchors \cup {NoAnchor} :
          HandleStructureStart("sequence", tag, anchor)
    \/ \E tag \in MappingTags, anchor \in Anchors \cup {NoAnchor} :
          HandleStructureStart("mapping", tag, anchor)
    \/ HandleCollectionEnd("sequence")
    \/ HandleCollectionEnd("mapping")
    \/ HandleStreamEnd
    \/ HandleParserError
    \/ Return

(* One thread, no waiting: as long as the loop can go on, it does.         *)
Spec == Init /\ [][Next]_vars /\ WF_vars(Next)
-----------------------------------------------------------------------------
IsCell(c) == /\ c.tag \in SequenceTags \cup MappingTags \cup {""}
             /\ c.anchor \in Anchors \cup {NoAnchor}
             /\ c.obj.type \in Types

(* Type invariant: cells carry a tag and an anchor, messages are known.    *)
TypeOK == /\ Parser!StreamTypeOK
          /\ stack \in Seq(ToSet(stack))
          /\ \A i \in DOMAIN stack : IsCell(stack[i])
          /\ aliases \in Seq(ToSet(aliases))
          /\ \A i \in DOMAIN aliases : aliases[i].name \in Anchors
          /\ errorMsg \in Messages
          /\ failed \in BOOLEAN
          /\ done \in BOOLEAN
          /\ outcome \in {"running", "value", "error"}

(* The stack is the parser's nesting: its markers are, in order, those of  *)
(* the collections the parser has open, so the search for the last marker  *)
(* finds the collection that ends, never an outer one or one that ended    *)
(* before; and behind the marker of a mapping there is a key without a     *)
(* value exactly when the parser owes one, so handle_map reads pairs.      *)
Mirrors(cells, frames, f) ==
    /\ \A k \in DOMAIN frames : cells[f[k]].obj = MarkerOf(frames[k].kind)
    /\ \A k, l \in DOMAIN frames : k < l => f[k] < f[l]
    /\ \A i \in DOMAIN cells :
          IsMarker(cells[i].obj) => \E k \in DOMAIN frames : f[k] = i
    /\ \A k \in DOMAIN frames :
          LET end == IF k = Len(frames) THEN Len(cells) ELSE f[k + 1]
          IN  frames[k].kind = "mapping" =>
                 (frames[k].odd <=> (end - f[k]) % 2 = 1)

StackMirrorsParser ==
    ~failed => \E f \in [DOMAIN open -> DOMAIN stack] : Mirrors(stack, open, f)

(* Between documents the stack holds one object per document read so far,  *)
(* whatever the documents contained: every collection has been folded from *)
(* its own start, and nothing of a document is left behind or eaten by the *)
(* next one (r_parse.c:418, 878).                                          *)
OneCellPerDocument ==
    ~failed /\ phase \in {"stream", "end"} => Len(stack) = documents

(* A marker never gets into a value: an alias cannot hand out a collection *)
(* that is still open, and no collection swallows the marker of another.   *)
Complete(v) == /\ ~IsMarker(v)
               /\ \A i \in DOMAIN v.items : ~IsMarker(v.items[i])
               /\ \A i \in DOMAIN v.keys : ~IsMarker(v.keys[i])

NoMarkerEscapes ==
    /\ \A i \in DOMAIN aliases : Complete(aliases[i].obj)
    /\ \A i \in DOMAIN stack :
          IsMarker(stack[i].obj) \/ Complete(stack[i].obj)
    /\ Complete(result)

(* No map on the stack has a key twice, however its entries came together: *)
(* written out, merged from aliases, or joined by "!omap"; but without     *)
(* as.named.list a key may come again when its first entry, or one in      *)
(* front of that, holds NULL, where the search ends (r_parse.c:648).       *)
UniqueKeyed(v) ==
    IsMap(v) => \A i, j \in DOMAIN v.keys :
        i < j /\ v.keys[i] = v.keys[j] =>
            ~CoerceKeys /\ \E k \in 1..i : v.items[k] = Null

MapsHaveUniqueKeys == \A i \in DOMAIN stack : UniqueKeyed(stack[i].obj)

(* The checks for states that cannot be never fire (r_parse.c:428, 879,    *)
(* 930).                                                                   *)
InternalErrorsUnreachable ==
    errorMsg \notin {"Internal error", "Merge override failed"}

(* When a callee gives up, yaml.load raises an error: it never returns the *)
(* R_NilValue of the failed loop as if it were the document's value.       *)
FailuresAreRaised == outcome = "value" => ~failed

(* yaml.load raises an error only if something failed: a handler whose     *)
(* error was reported as a warning, with the default conversion in its     *)
(* place, does not fail the load (r_parse.c:191, 480, 999).                *)
HandledErrorsAreNotRaised == outcome = "error" => failed

(* A finished object at the bottom of the stack, the value of the first    *)
(* document, is never replaced by anything that is read later.             *)
FirstDocumentIsFinal ==
    [][stack # <<>> /\ ~IsMarker(stack[1].obj)
          => stack' # <<>> /\ stack'[1] = stack[1]]_vars

(* Every load ends.                                                        *)
Terminates == <>(outcome # "running")
=============================================================================
