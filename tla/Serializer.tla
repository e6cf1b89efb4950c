------------------------------ MODULE Serializer ------------------------------
(***************************************************************************)
(* as.yaml: Ryaml_serialize_to_yaml and emit_object (r_emit.c), which turn *)
(* an R object into events and hand them to the emitter.                   *)
(*                                                                         *)
(* The recursion of emit_object is a list of what is still to be done.  An *)
(* item whose predecessor gave 0 is passed over, as every call in r_emit.c *)
(* is followed by a test of its result; all but one: the loop over an      *)
(* unnamed list is left and SEQUENCE-END is sent all the same.             *)
(*                                                                         *)
(* An attribute or an argument that may be missing is a set of at most one *)
(* element, and so is an element of a vector, which is empty for NA.       *)
(***************************************************************************)
EXTENDS Emitter

CONSTANTS ImplicitTag(_),   \* Ryaml_find_implicit_tag
          Precision         \* the argument precision

ASSUME PrecisionAssumption == Precision \in 1..22

VARIABLES options,   \* the arguments omap, column.major and handlers
          object,    \* the object to be written
          todo,      \* what is still to be done, next first
          failed,    \* no event could be made of the object at hand
          sent,      \* history: the events that were handed over
          met,       \* history: the objects that emit_object was called for
          outcome    \* what the caller gets

serializerVars == <<options, object, todo, failed, sent, met, outcome>>

-----------------------------------------------------------------------------
(* Objects: items are the elements of a vector or a list, or the lines of  *)
(* a function; tag is the attribute, of which only one string is valid.    *)
(* Integers are texts, and levels goes from the codes of a factor.         *)
Object(type, items, names, classes, tag) ==
    [type |-> type, items |-> items, names |-> names, classes |-> classes,
     tag |-> tag, levels |-> [code \in {} |-> {}], quoted |-> FALSE]

HasClass(o, class) == \E i \in DOMAIN o.classes : o.classes[i] = class

AtomicTypes == {"logical", "integer", "real", "string"}
FunctionTypes == {"function"}
Supported == AtomicTypes \cup FunctionTypes \cup {"NULL", "list"}

(* Ryaml_deparse_function: the lines without the spaces at their ends.  A  *)
(* line break of the line in front, and the first character, if there is   *)
(* one, are kept.                                                          *)
TrimmedLine(text, line) ==
    LET whole == text \o line
        kept  == {j \in DOMAIN whole : whole[j] # " "} \cup {Min({1, Len(whole)})}
    IN  SubSeq(whole, 1, Max(kept)) \o <<"\n">>

DeparsedFunction(o) ==
    Object("string", <<{FoldLeft(TrimmedLine, <<>>, o.items)}>>, {}, <<"character">>,
           IF o.tag = {} THEN {Chars("!expr")} ELSE o.tag)

(* The first class with a handler that does not fail.                      *)
Handled(o) ==
    LET fits == {i \in DOMAIN o.classes : /\ o.classes[i] \in DOMAIN options.handlers
                                          /\ Given(options.handlers[o.classes[i]])}
    IN  IF fits = {} THEN o ELSE ValueOf(options.handlers[o.classes[Min(fits)]])

Resolved(o) == IF Handled(o).type \in FunctionTypes THEN DeparsedFunction(Handled(o))
               ELSE Handled(o)

(* An attribute of several strings is not taken for a tag.                 *)
TagOf(o) == IF Cardinality(o.tag) = 1 THEN o.tag ELSE {}

(* Ryaml_is_named_list.                                                    *)
IsNamedList(o) == o.type = "list" /\ Given(o.names)

-----------------------------------------------------------------------------
(* The text of the elements of a vector.                                   *)
FormatLogical(x) == IF x = {} THEN Chars(".na")
                    ELSE IF ValueOf(x) THEN Chars("yes") ELSE Chars("no")
FormatInt(x) == IF x = {} THEN Chars(".na.integer") ELSE ValueOf(x)
FormatString(x) == IF x = {} THEN Chars(".na.character") ELSE ValueOf(x)

(* A number: the first of its digits stands for 10^power.  A number that   *)
(* has none, such as Inf, is given by its name.                            *)
Number(negative, digits, power) ==
    [negative |-> negative, digits |-> digits, power |-> power]

(* What snprintf makes of it with %.*f and %.*e.  Digits for which there   *)
(* is no place are cut off, so a number must not be one to be rounded up.  *)
DigitAt(x, place) ==
    LET i == x.power - place + 1 IN IF i \in DOMAIN x.digits THEN x.digits[i] ELSE "0"

Sign(x) == IF x.negative THEN <<"-">> ELSE <<>>

FixedText(x) ==
    LET whole == Max({x.power, 0}) + 1
    IN  Sign(x) \o [i \in 1..whole |-> DigitAt(x, whole - i)]
        \o <<".">> \o [i \in 1..Precision |-> DigitAt(x, -i)]

Mantissa(x) == Sign(x) \o <<DigitAt(x, x.power), ".">>
               \o [i \in 1..Precision |-> DigitAt(x, x.power - i)]

Exponent(x) ==
    LET size == Max({x.power, -x.power})
    IN  <<"e", IF x.power < 0 THEN "-" ELSE "+",
          DigitOrder[(size \div 10) + 1], DigitOrder[(size % 10) + 1]>>

(* Mutant: the zeros at the end of the whole text.                         *)
FormatNumberWhole(x, scientific) ==
    LET text == IF scientific THEN Mantissa(x) \o Exponent(x) ELSE FixedText(x)
    IN  SubSeq(text, 1, Max({j \in DOMAIN text : text[j] # "0" \/ At(text, j - 1) = "."}))

(* Zeros at the end are removed, but for one behind the point.             *)
FormatNumber(x, scientific) ==
    LET trimmed(m) == SubSeq(m, 1, Max({j \in DOMAIN m : m[j] # "0" \/ At(m, j - 1) = "."}))
    IN  IF scientific THEN trimmed(Mantissa(x)) \o Exponent(x) ELSE trimmed(FixedText(x))

(* log10(fabs(x)) < -4 || log10(fabs(x)) >= precision.                     *)
IsWide(x) == x.power < -4 \/ x.power >= Precision

(* The format is not reset: behind a wide number all are scientific.       *)
FormatReals(items) ==
    LET named(i) == "name" \in DOMAIN ValueOf(items[i])
        wide(i)  == Given(items[i]) /\ ~named(i) /\ IsWide(ValueOf(items[i]))
    IN  [i \in DOMAIN items |->
            IF items[i] = {} THEN Chars(".na.real")
            ELSE IF named(i) THEN ValueOf(items[i]).name
            ELSE FormatNumber(ValueOf(items[i]), \E j \in 1..i : wide(j))]

(* Mutant: only line breaks decide.                                        *)
StringStylePlain(text) ==
    IF \E i \in DOMAIN text : IsBreak(text[i]) THEN "literal" ELSE "any"

(* Ryaml_string_style: what would be taken for something else is quoted.   *)
StringStyle(text) ==
    LET tag == ImplicitTag(text)
    IN  IF tag = "str#na" THEN "any"
        ELSE IF tag # "str" THEN "single"
        ELSE IF \E i \in DOMAIN text : IsBreak(text[i]) THEN "literal"
        ELSE "any"

Written(text, style) == [text |-> text, style |-> style]

(* emit_factor; a level out of range is taken for a missing one.           *)
WrittenFactor(o) ==
    [i \in DOMAIN o.items |->
        IF o.items[i] = {} \/ ValueOf(o.items[i]) \notin DOMAIN o.levels
        THEN Written(Chars(".na.character"), "any")
        ELSE LET level == o.levels[ValueOf(o.items[i])]
             IN  Written(level, StringStyle(level))]

(* emit_string.                                                            *)
WrittenStrings(o) ==
    LET verbatim == HasClass(o, "verbatim")
        text(x)  == IF verbatim THEN IF x = {} THEN Chars("NA") ELSE ValueOf(x)
                    ELSE FormatString(x)
        style(x) == IF o.quoted THEN "double"
                    ELSE IF verbatim THEN "plain" ELSE StringStyle(text(x))
    IN  [i \in DOMAIN o.items |-> Written(text(o.items[i]), style(o.items[i]))]

WrittenElements(o) ==
    IF HasClass(o, "factor") THEN WrittenFactor(o)
    ELSE CASE o.type = "string"  -> WrittenStrings(o)
           [] o.type = "logical" -> [i \in DOMAIN o.items |->
                                        Written(FormatLogical(o.items[i]), "any")]
           [] o.type = "integer" -> [i \in DOMAIN o.items |->
                                        Written(FormatInt(o.items[i]), "any")]
           [] o.type = "real"    -> LET texts == FormatReals(o.items)
                                    IN  [i \in DOMAIN texts |-> Written(texts[i], "any")]

-----------------------------------------------------------------------------
(* Events, as the yaml_*_event_initialize functions make them.             *)
Scalar(value, style, anchor, tag, plain, quoted) ==
    [type |-> "SCALAR", value |-> value, style |-> style, anchor |-> anchor,
     tag |-> tag, plainImplicit |-> plain, quotedImplicit |-> quoted]
Collection(type, style, anchor, tag, implicit) ==
    [type |-> type, style |-> style, anchor |-> anchor, tag |-> tag,
     implicit |-> implicit]
DocumentStart(version, directives, implicit) ==
    [type |-> "DOCUMENT-START", version |-> version, directives |-> directives,
     implicit |-> implicit]
DocumentEnd(implicit) == [type |-> "DOCUMENT-END", implicit |-> implicit]
Simple(type) == [type |-> type]

(* What is to be done.                                                     *)
Event(e)      == [do |-> "event", event |-> e]
Convert(o)    == [do |-> "object", object |-> o]
Elements(o)   == [do |-> "elements", object |-> o]
EndOfElements == [do |-> "end", event |-> Simple("SEQUENCE-END")]

(* emit_char, and a collection, with the tag of the object or without.     *)
EmitChar(w, tag) == Event(Scalar(w.text, w.style, {}, tag, tag = {}, tag = {}))
EmitStart(type, tag) == Event(Collection(type, "any", {}, tag, tag = {}))
EmitEnd(type) == Event(Simple(type))
EmitName(name) == EmitChar(Written(name, StringStyle(name)), {})

EmitNil == EmitChar(Written(<<"~">>, "any"), {})

(* A vector of length one is a scalar; only a sequence takes the tag off   *)
(* its elements.                                                           *)
EmitAtomic(o) ==
    LET elements == WrittenElements(o)
    IN  IF Len(o.items) = 1 THEN <<EmitChar(elements[1], TagOf(o))>>
        ELSE <<EmitStart("SEQUENCE-START", TagOf(o))>>
             \o [i \in DOMAIN elements |-> EmitChar(elements[i], {})]
             \o <<EmitEnd("SEQUENCE-END")>>

(* Ryaml_yoink: one element as a vector without attributes.  A factor      *)
(* gives a string; of a list nothing is copied.                            *)
Yoink(o, i) ==
    IF HasClass(o, "factor")
    THEN Object("string", <<IF o.items[i] = {} \/ ValueOf(o.items[i]) \notin DOMAIN o.levels
                            THEN {} ELSE {o.levels[ValueOf(o.items[i])]}>>,
                {}, <<"character">>, {})
    ELSE IF o.type = "list"
    THEN Object("list", <<Object("NULL", <<>>, {}, <<"NULL">>, {})>>, {}, <<"list">>, {})
    ELSE Object(o.type, <<o.items[i]>>, {}, <<o.type>>, {})

EmitRows(o) ==
    LET row(i) == <<EmitStart("MAPPING-START", {})>>
                  \o FlattenSeq([j \in DOMAIN o.items |->
                        <<EmitName(ValueOf(o.names)[j]), Convert(Yoink(o.items[j], i))>>])
                  \o <<EmitEnd("MAPPING-END")>>
    IN  <<EmitStart("SEQUENCE-START", TagOf(o))>>
        \o FlattenSeq([i \in DOMAIN o.items[1].items |-> row(i)])
        \o <<EmitEnd("SEQUENCE-END")>>

EmitPair(o, i) == <<EmitName(ValueOf(o.names)[i]), Convert(o.items[i])>>

EmitMapping(o) ==
    <<EmitStart("MAPPING-START", TagOf(o))>>
    \o FlattenSeq([i \in DOMAIN o.items |-> EmitPair(o, i)])
    \o <<EmitEnd("MAPPING-END")>>

(* "T" stands for tag:yaml.org,2002:                                       *)
EmitOmap(o) ==
    <<EmitStart("SEQUENCE-START",
                IF TagOf(o) = {} THEN {<<"T">> \o Chars("omap")} ELSE TagOf(o))>>
    \o FlattenSeq([i \in DOMAIN o.items |->
          <<EmitStart("MAPPING-START", {})>> \o EmitPair(o, i) \o <<EmitEnd("MAPPING-END")>>])
    \o <<EmitEnd("SEQUENCE-END")>>

EmitList(o) == <<EmitStart("SEQUENCE-START", TagOf(o)), Elements(o)>>

(* Behind the start of an unnamed list.                                    *)
EmitElements(o) == [i \in DOMAIN o.items |-> Convert(o.items[i])] \o <<EndOfElements>>

EmitObject(o) ==
    CASE o.type = "NULL" -> <<EmitNil>>
      [] o.type \in AtomicTypes -> EmitAtomic(o)
      [] o.type = "list" ->
            IF HasClass(o, "data.frame") /\ o.items # <<>> /\ ~options.columnMajor
            THEN EmitRows(o)
            ELSE IF IsNamedList(o)
            THEN IF options.omap THEN EmitOmap(o) ELSE EmitMapping(o)
            ELSE EmitList(o)

-----------------------------------------------------------------------------
SerializerInit ==
    /\ todo = <<Event(Simple("STREAM-START")), Event(DocumentStart({}, <<>>, TRUE)),
                Convert(object), Event(DocumentEnd(TRUE)), Event(Simple("STREAM-END"))>>
    /\ failed = FALSE
    /\ sent = <<>> /\ met = {}
    /\ outcome = "none"

(* The result of the last call.                                            *)
Result == ~failed /\ call # "refused"
Waiting == call # "processing"

SendEvent ==
    /\ Waiting /\ todo # <<>>
    /\ Head(todo).do = "end" \/ (Result /\ Head(todo).do = "event")
    /\ Emit(Head(todo).event)
    /\ sent' = Append(sent, Head(todo).event)
    /\ todo' = Tail(todo)
    /\ failed' = FALSE
    /\ UNCHANGED <<options, object, met, outcome>>

ConvertObject ==
    /\ Waiting /\ Result /\ todo # <<>> /\ Head(todo).do = "object"
    /\ \E o \in {Resolved(Head(todo).object)} :
         /\ IF o.type \in Supported
            THEN todo' = EmitObject(o) \o Tail(todo) /\ UNCHANGED failed
            ELSE failed' = TRUE /\ todo' = Tail(todo)
         /\ met' = met \cup {o}
    /\ UNCHANGED <<options, object, sent, outcome, emitterVars>>

ConvertElements ==
    /\ Waiting /\ Result /\ todo # <<>> /\ Head(todo).do = "elements"
    /\ todo' = EmitElements(Head(todo).object) \o Tail(todo)
    /\ UNCHANGED <<options, object, failed, sent, met, outcome, emitterVars>>

(* What follows a call that gave 0 is passed over.                         *)
PassOver ==
    /\ Waiting /\ ~Result /\ todo # <<>> /\ Head(todo).do # "end"
    /\ todo' = Tail(todo)
    /\ UNCHANGED <<options, object, failed, sent, met, outcome, emitterVars>>

(* The message of an object that could not be converted is overwritten.    *)
Finish ==
    /\ Waiting /\ todo = <<>> /\ outcome = "none"
    /\ outcome' = IF Result THEN "text"
                  ELSE IF emitter.problem THEN "Emitter error" ELSE "Unknown emitter error"
    /\ UNCHANGED <<options, object, todo, failed, sent, met, emitterVars>>

Serialize == SendEvent \/ ConvertObject \/ ConvertElements \/ PassOver \/ Finish

-----------------------------------------------------------------------------
Convertible == \A o \in met : o.type \in Supported
EmptyTag(o) == TagOf(o) = {<<>>}

(* The text is given out only for a stream that the emitter has written to *)
(* its end, also when it refused an event inside of a list whose result is *)
(* that of SEQUENCE-END; and nothing that can be converted is refused, but *)
(* for an empty tag.  Which error is raised depends on emitter.problem     *)
(* alone (r_emit.c:948-961): the one that knows no reason is raised only   *)
(* for an object that as.yaml does not know, so no refusal of the emitter  *)
(* ends without its problem.                                               *)
OutcomesAreTrue ==
    /\ outcome = "text" => emitter.state = "END" /\ queue = <<>> /\ ~emitter.problem
    /\ outcome = "Emitter error" => ~Convertible \/ \E o \in met : EmptyTag(o)
    /\ outcome = "Unknown emitter error" => ~Convertible

(* as.yaml fails for an object that it does not know                       *)
(* (test_as_yaml.R:167), wherever in a list it stands.                     *)
UnknownObjectsCauseError == outcome = "text" => Convertible
=============================================================================
