------------------------------ MODULE MCEmitter ------------------------------
(***************************************************************************)
(* The emitter with one of two callers, as.yaml, or one that sends any     *)
(* stream of events of a bounded size, or goes wrong somewhere on the way; *)
(* and, once the stream has ended, the scanner and the parser on the text  *)
(* that was written.                                                       *)
(***************************************************************************)
EXTENDS Serializer, EmitterCaller, Implicit

CONSTANTS MaxNodes,    \* nodes of a stream (bound)
          MaxSpecial,  \* nodes that are not the plain scalar "a" or a block
                       \* collection (bound)
          MaxFaults    \* events behind the first one that is wrong (bound)

VARIABLES caller,                   \* who calls the emitter
          faults,                   \* events since something was wrong
          reading, got              \* the text is read; events so far

VARIABLES state, states, marks, tagDirectives, reader, error, event, phase, open

parserVars == <<state, states, marks, tagDirectives, reader, error, event, phase, open>>
callerVars == <<callerPhase, callerOpen, faults>>
allVars == <<emitterVars, serializerVars, caller, callerVars, parserVars, reading, got>>

Sc == INSTANCE Scanner WITH MaxNumberLength <- 9, SimpleKeyLength <- 1024, Texts <- {},
                            scanner <- reader, given <- reader

(* yaml_parser_scan until the stream ends or the scanner fails: the tokens *)
(* from there on.                                                          *)
RECURSIVE TokensBehind(_)
TokensBehind(s) ==
    LET now == Sc!Checked(s)
    IN  IF now.ended \/ now.error THEN <<>>
        ELSE IF Sc!NeedsMoreTokens(now) THEN TokensBehind(Sc!FetchNextToken(now))
        ELSE <<Head(now.tokens)>> \o TokensBehind(Sc!Dequeued(now))

TokensOf(text) == TokensBehind(Sc!Start(text))

NoToken == [type |-> "NO-TOKEN", text |-> "", value |-> <<>>]
NextOf(tokens) == {[token |-> Head(Append(tokens, NoToken)),
                    source |-> IF tokens = <<>> THEN <<>> ELSE Tail(tokens)]}
P == INSTANCE Parser WITH Scan <- NextOf, ScannerStart <- <<>>, MaxRun <- 2

-----------------------------------------------------------------------------
(* The events of the caller.                                               *)
A == <<"a">>
Ordinary == Scalar(A, "any", {}, {}, TRUE, TRUE)
OrdinaryNodes ==
    {Ordinary}
    \cup {Collection(type, "block", {}, {}, TRUE) : type \in {"SEQUENCE-START", "MAPPING-START"}}

Styles == {"any", "single", "double", "literal", "folded"}

(* What they become depends on where they stand.                           *)
ContextValues == {<<>>, <<"a", ",">>, <<"\n", "a">>, <<"a", "\n", "a">>,
                  <<"a", "a", "a", " ", "a", "a", "a", " ", "a">>}
OtherValues ==
    {<<"?", "a">>, <<"a", "\n">>, <<" ">>, <<" ", "a">>, <<"a", " ">>, <<"-">>, <<"-", " ", "a">>,
     <<"a", ":">>, <<"a", ":", "a">>, <<"a", " ", "#">>, <<"#", "a">>, <<"'">>, <<"\"">>, <<"\\">>,
     <<"\t">>, <<"-", "-", "-">>, <<"a", "a", "a", "a", "a", "a", " ", " ", "a">>,
     <<"\n">>, <<"\n", "\n">>, <<"a", "\n", "\n">>,
     <<"a", "\n", "\n", "a">>, <<" ", "a", "\n", "a">>,
     <<"a", "\n", " ", "a">>, <<"a", " ", "\n", "a">>, <<"a", "\n", "#">>,
     <<"a", "\n", "-", "-", "-">>}

Tags == {<<"!", "a">>, <<"T", "a">>, <<"E", "a">>, <<"!">>, <<"a">>, <<"!", "a", "!">>}

SpecialScalars ==
    {Scalar(value, style, {}, {}, TRUE, TRUE) : value \in ContextValues \cup OtherValues,
                                                style \in Styles}
    \cup {Scalar(A, "any", {}, {tag}, FALSE, FALSE) : tag \in Tags}
    \cup {Scalar(A, "literal", {A}, {<<"!", "a">>}, FALSE, FALSE)}
    \cup {Scalar(value, "any", {A}, {}, TRUE, FALSE) : value \in {A, <<>>, <<"-">>}}
SpecialCollections ==
    {Collection(type, "flow", {}, {}, TRUE) : type \in {"SEQUENCE-START", "MAPPING-START"}}
    \cup {Collection(type, style, {A}, {<<"!", "a">>}, FALSE) :
            type \in {"SEQUENCE-START", "MAPPING-START"}, style \in {"flow", "block"}}
SpecialNodes == SpecialScalars \cup SpecialCollections
                \cup {[type |-> "ALIAS", anchor |-> {A}]}

E == [handle |-> <<"!", "E", "!">>, prefix |-> <<"E">>]
DocumentStarts == {DocumentStart(version, directives, implicit) :
                      version \in {{}, {"1.1"}}, directives \in {<<>>, <<E>>},
                      implicit \in BOOLEAN}
OrdinaryDocumentStarts == {DocumentStart({}, <<>>, TRUE)}

(* What no caller should send, whatever the grammar says.                  *)
WrongEvents ==
    {Scalar(A, "any", {}, {}, FALSE, FALSE), Scalar(A, "any", {}, {<<>>}, FALSE, FALSE),
     Scalar(A, "any", {<<"#">>}, {}, TRUE, TRUE),
     [type |-> "ALIAS", anchor |-> {<<>>}],
     DocumentStart({"2.0"}, <<>>, TRUE), DocumentStart({}, <<E, E>>, TRUE),
     DocumentStart({}, <<[handle |-> <<"E">>, prefix |-> <<"E">>]>>, TRUE)}

Closing == {Simple(type) : type \in {"STREAM-START", "STREAM-END", "SEQUENCE-END", "MAPPING-END"}}
        \cup {DocumentEnd(implicit) : implicit \in BOOLEAN}

-----------------------------------------------------------------------------
(* The objects of as.yaml.                                                 *)
NoHandlers == [class \in {} |-> {}]
Text(string) == Object("string", <<{Chars(string)}>>, {}, <<"character">>, {})
Null == Object("NULL", <<>>, {}, <<"NULL">>, {})
Tagged(o, tag) == [o EXCEPT !.tag = tag]
Vector(type, items) == Object(type, items, {}, <<type>>, {})
List(items) == Object("list", items, {}, <<"list">>, {})
Named(items, names) == Object("list", items, {[i \in DOMAIN names |-> Chars(names[i])]},
                              <<"list">>, {})
Levels == [code \in {<<"1">>, <<"2">>} |-> IF code = <<"1">> THEN Chars("a")
                                          ELSE Chars("no")]
Factor(items) == [Vector("integer", items) EXCEPT !.classes = <<"factor">>,
                                                  !.levels = Levels]
Function == Object("function", <<Chars("a (x) "), Chars("  x")>>, {}, <<"function">>, {})
Unknown == Object("expression", <<>>, {}, <<"expression">>, {})
Frame(columns, names) == [Named(columns, names) EXCEPT !.classes = <<"data.frame">>]
Classed(o, class) == [o EXCEPT !.classes = <<class>> \o @]

(* With two digits behind the point; and one that has more.                *)
Zero   == Number(FALSE, <<"0">>, 0)
Small  == Number(FALSE, <<"1", "5">>, 0)
Tens   == Number(TRUE, <<"1">>, 1)
Part   == Number(FALSE, <<"5">>, -2)
Large  == Number(FALSE, <<"1">>, 4)
Larger == Number(FALSE, <<"1", "0", "5">>, 10)
Tiny   == Number(TRUE, <<"1">>, -10)
Milli  == Number(FALSE, <<"1", "5">>, -3)

Strings == {"", "a", "a a", "1", "1.5", "no", "~", ".na", "x: a", "- a", "#", "0x1f",
            "1:30", "<<", "=", "a\nb", "a\n", " a\nb", "null", ".inf", "1.0e+4", "'",
            "2001-01-01", "2001-01-01t10:00:00Z", "---", "...", "a,", "!a", "aaaa aaaa"}

Leaves ==
    {Text(string) : string \in Strings}
    \cup {Null, Function, Vector("logical", <<>>), Vector("logical", <<{TRUE}>>),
          Vector("logical", <<{}, {FALSE}>>), Vector("integer", <<{Chars("1")}, {}>>),
          Vector("integer", <<{Chars("-1")}>>), Vector("real", <<{Tens}>>),
          Vector("real", <<{Zero}, {Small}, {Part}>>), Vector("real", <<{Tiny}, {Zero}>>),
          Vector("real", <<{Milli}>>),
          Vector("real", <<{Large}, {Small}, {Larger}, {}>>),
          Vector("real", <<{[name |-> Chars(".inf")]}, {[name |-> Chars("-.inf")]},
                           {[name |-> Chars(".nan")]}>>),
          Vector("string", <<{Chars("no")}, {}, {Chars("a\nb")}>>),
          Factor(<<{<<"2">>}>>), Factor(<<{<<"1">>}, {<<"2">>}, {<<"3">>}, {}>>),
          [Text("a") EXCEPT !.quoted = TRUE], Classed(Text("no"), "verbatim"),
          Classed(Text("- a"), "verbatim"), List(<<>>), Named(<<>>, <<>>)}
    \cup {Tagged(o, tag) : o \in {Text("a"), Null, Function, Vector("integer", <<{}, {}>>)},
                           tag \in {{Chars("!a")}, {<<"T">> \o Chars("a")}, {<<>>},
                                    {Chars("a"), Chars("b")}}}

Nested(o) ==
    {List(<<o>>), List(<<o, Text("a")>>), Named(<<o>>, <<"a">>), List(<<List(<<o>>)>>),
     Named(<<Named(<<o, o>>, <<"no", "a\n">>)>>, <<"1">>),
     Named(<<List(<<o, o>>)>>, <<"">>), List(<<Named(<<o>>, <<"a">>), o>>),
     Tagged(List(<<o>>), {Chars("!a")}), Tagged(Named(<<o>>, <<"a">>), {Chars("!a")}),
     Tagged(List(<<o>>), {<<>>})}

Frames == {Frame(<<Vector("real", <<{Small}, {}>>), Factor(<<{<<"1">>}, {}>>)>>, <<"a", "no">>),
           Frame(<<Vector("string", <<{Chars("no")}>>), List(<<Text("a")>>)>>, <<"a", "b">>),
           Frame(<<Vector("logical", <<>>)>>, <<"a">>)}

NoOptions == [omap |-> FALSE, columnMajor |-> TRUE, handlers |-> NoHandlers]
WithHandlers(c, handlers) == [NoOptions EXCEPT !.handlers = [class \in {c} |-> handlers]]

AllOptions == {[NoOptions EXCEPT !.omap = omap, !.columnMajor = columnMajor] :
                  omap, columnMajor \in BOOLEAN}
              \cup {WithHandlers("c", given) :
                        given \in {{}, {Null}, {Function}, {List(<<Text("a")>>)}, {Unknown}}}

Objects(given) ==
    IF DOMAIN given.handlers # {}
    THEN {Classed(Text("a"), "c"), List(<<Classed(Vector("integer", <<{}, {}>>), "c"), Null>>),
          Classed(Unknown, "c")}
    ELSE Leaves \cup UNION {Nested(o) : o \in Leaves} \cup Frames
         \cup {Unknown, Named(<<Unknown>>, <<"a">>), Named(<<Null, Unknown>>, <<"a", "b">>)}

-----------------------------------------------------------------------------
(* What the events have cost of the bound.  A document that does not start *)
(* like most counts as a node, and some scalars count as two.              *)
Cost(e) ==
    CASE e.type = "SCALAR" -> IF e.value \in OtherValues THEN 2 ELSE 1
      [] e.type \in {"ALIAS", "SEQUENCE-START", "MAPPING-START"} -> 1
      [] e.type = "DOCUMENT-START" -> IF e \in OrdinaryDocumentStarts THEN 0 ELSE 1
      [] OTHER -> 0
Left == MaxNodes - FoldLeft(LAMBDA n, e : n + Cost(e), 0, sent)
Specials == SelectSeq(sent, LAMBDA e : e \in SpecialNodes)

(* What a well-behaved caller may send, if the grammar allows it.  Only a  *)
(* document or a pair that has been begun is completed beyond the bound.   *)
Offered ==
    Closing
    \cup (IF Left > 0
          THEN OrdinaryDocumentStarts \cup OrdinaryNodes
               \cup {e \in DocumentStarts : Left > 1 \/ Specials = <<>>}
               \cup {e \in SpecialNodes : Len(Specials) < MaxSpecial /\ Cost(e) <= Left}
          ELSE IF callerOpen = <<>> \/ Last(callerOpen).odd THEN {Ordinary} ELSE {})

Init == /\ caller \in {"any", "as.yaml"}
        /\ EmitterInit
        /\ callerPhase = IF caller = "any" THEN "start" ELSE "unknown"
        /\ callerOpen = <<>> /\ faults = 0
        /\ reading = FALSE /\ got = 0
        /\ state = "STREAM_START" /\ states = <<>> /\ marks = <<>>
        /\ tagDirectives = <<>> /\ reader = {} /\ error = FALSE
        /\ event = "NO-EVENT" /\ phase = "start" /\ open = <<>>
        /\ options \in IF caller = "any" THEN {NoOptions} ELSE AllOptions
        /\ object \in IF caller = "any" THEN {Null} ELSE Objects(options)
        /\ SerializerInit

Idle == ~reading /\ call # "processing"
Anyone == caller = "any" /\ Idle

Called(e) == /\ sent' = Append(sent, e)
             /\ UNCHANGED <<options, object, todo, failed, met, outcome, caller, parserVars,
                            reading, got>>

SendNext == /\ Anyone /\ faults = 0
            /\ \E e \in Offered : SendGood(e) /\ Called(e)
            /\ UNCHANGED faults

(* Something that is wrong, and then whatever the caller goes on with.     *)
Misplaced == {e \in Closing \cup OrdinaryNodes \cup OrdinaryDocumentStarts :
                 ~ENABLED Stream!Produces(e.type)}

SendWrong == /\ Anyone
             /\ faults < MaxFaults /\ Left > 0 /\ Specials = <<>>
             /\ \E e \in IF faults = 0 THEN WrongEvents \cup Misplaced
                         ELSE Closing \cup OrdinaryNodes : Emit(e) /\ Called(e)
             /\ faults' = faults + 1
             /\ callerPhase' = "unknown"
             /\ UNCHANGED callerOpen

Serializing == /\ caller = "as.yaml" /\ Idle
               /\ Serialize
               /\ UNCHANGED <<caller, callerVars, parserVars, reading, got>>

Emitting == /\ Process
            /\ UNCHANGED <<serializerVars, caller, callerVars, parserVars, reading, got>>

Complete == IF caller = "any" THEN faults = 0 /\ callerPhase = "end" ELSE outcome = "text"

StartReading ==
    /\ Idle /\ Complete
    /\ reading' = TRUE
    /\ \E tokens \in {TokensOf(emitter.out.text)} :
          reader' \in P!Reads(tokens, FALSE)
    /\ UNCHANGED <<emitterVars, serializerVars, caller, callerVars, got, state, states,
                   marks, tagDirectives, error, event, phase, open>>

Reading == /\ reading /\ state # "END" /\ ~error
           /\ P!Next
           /\ got' = got + 1
           /\ UNCHANGED <<emitterVars, serializerVars, caller, callerVars, reading>>

Stop == /\ \/ reading /\ (state = "END" \/ error)
           \/ Idle /\ faults > 0
           \/ Idle /\ outcome \in {"Emitter error", "Unknown emitter error"}
        /\ UNCHANGED allVars

Next == SendNext \/ SendWrong \/ Serializing \/ Emitting \/ StartReading \/ Reading \/ Stop

Spec == Init /\ [][Next]_allVars

-----------------------------------------------------------------------------
(* What is in the text: the anchors, aliases, tags and scalars, without    *)
(* the empty ones, for which there may be no token, and the tag "!", which *)
(* the emitter adds to a quoted scalar that must not be taken for another. *)
Content(kind, value) == <<[kind |-> kind, value |-> value]>>

TagContentOf(tag) == IF tag = <<"!">> THEN <<>> ELSE Content("TAG", tag)
ScalarContent(value) == IF value = <<>> THEN <<>> ELSE Content("SCALAR", value)

SentContent(e) ==
    CASE e.type = "ALIAS" -> Content("ALIAS", ValueOf(e.anchor))
      [] HasProperties(e) ->
            (IF Given(e.anchor) THEN Content("ANCHOR", ValueOf(e.anchor)) ELSE <<>>)
            \o (IF TagIsWritten(e) THEN TagContentOf(ValueOf(e.tag)) ELSE <<>>)
            \o (IF e.type = "SCALAR" THEN ScalarContent(e.value) ELSE <<>>)
      [] OTHER -> <<>>

Prefix == [handle \in {"", "!", "!!", "!E!"} |->
             CASE handle = "" -> <<>> [] handle = "!" -> <<"!">>
               [] handle = "!!" -> <<"T">> [] handle = "!E!" -> E.prefix]

TokenContent(token) ==
    CASE token.type \in {"ANCHOR", "ALIAS"} -> Content(token.type, token.value)
      [] token.type = "TAG" -> TagContentOf(Prefix[token.text] \o token.value)
      [] token.type = "SCALAR" -> ScalarContent(token.value)
      [] OTHER -> <<>>

(* All tokens, before the first call.                                      *)
ReadTokens == <<reader.token>> \o reader.source

(* The only document that is written as nothing at all: the first one,     *)
(* without a "---", with an empty plain scalar.                            *)
NothingWritten ==
    /\ sent[2] = DocumentStart({}, <<>>, TRUE)
    /\ sent[3] = Scalar(<<>>, "any", {}, {}, TRUE, TRUE)

(* The text that was written is read back as the events that were sent,    *)
(* with their anchors, tags and values.                                    *)
RoundTrip ==
    reading /\ ~NothingWritten =>
        /\ ~error
        /\ got = 0 => FlattenSeq([i \in DOMAIN ReadTokens |-> TokenContent(ReadTokens[i])])
                        = FlattenSeq([i \in DOMAIN sent |-> SentContent(sent[i])])
        /\ got > 0 => event = sent[got].type
        /\ state = "END" => got = Len(sent)

(* R's types as the loader has them for an implicit tag.                   *)
TypeOfTag(tag) ==
    CASE tag \in {"int", "int#hex", "int#oct", "int#base60", "int#na"} -> "integer"
      [] tag \in {"float#fix", "float#exp", "float#base60", "float#inf", "float#neginf",
                  "float#nan", "float#na"} -> "real"
      [] tag \in {"bool#yes", "bool#no", "bool#na"} -> "logical"
      [] tag = "null" -> "NULL"
      [] tag \in {"str", "str#na"} -> "string"
      [] OTHER -> "other"

Value(text, type) == <<[text |-> text, type |-> type, number |-> {}]>>

(* What the elements of an object are, in the order of the text.           *)
RECURSIVE Values(_)
Values(x) ==
    LET o == Resolved(x)
        type == IF HasClass(o, "verbatim") \/ (Len(o.items) = 1 /\ TagOf(o) # {}) THEN "any"
                ELSE IF HasClass(o, "factor") THEN "string" ELSE o.type
        name(i) == Value(ValueOf(o.names)[i], "string")
        number(i) == {n \in o.items[i] : o.type = "real" /\ "power" \in DOMAIN n}
    IN  IF o.type = "NULL" THEN Value(<<"~">>, "NULL")
        ELSE IF o.type \in AtomicTypes
        THEN [i \in DOMAIN o.items |-> [text |-> WrittenElements(o)[i].text, type |-> type,
                                        number |-> number(i)]]
        ELSE IF HasClass(o, "data.frame") /\ ~options.columnMajor
        THEN FlattenSeq([i \in DOMAIN o.items[1].items |->
                FlattenSeq([j \in DOMAIN o.items |-> name(j) \o Values(Yoink(o.items[j], i))])])
        ELSE FlattenSeq([i \in DOMAIN o.items |->
                (IF IsNamedList(o) THEN name(i) ELSE <<>>) \o Values(o.items[i])])

ReadValue(i) ==
    LET token == ReadTokens[i]
    IN  IF token.type # "SCALAR" THEN <<>>
        ELSE Value(token.value,
                   IF ReadTokens[i - 1].type = "TAG" THEN "any"
                   ELSE IF token.text = "quoted" THEN "string"
                   ELSE TypeOfTag(FindImplicitTag(token.value)))

(* The digits of a number, without the zeros, each with its place.         *)
Significant(x) == {<<x.power + 1 - i, x.digits[i]>> : i \in {j \in DOMAIN x.digits :
                                                              x.digits[j] # "0"}}

Integer(text) == FoldLeft(LAMBDA n, c : 10 * n + DigitValue(c), 0, SelectSeq(text, IsDigit))

(* The number that a text stands for.                                      *)
First(text, c) == Min({i \in DOMAIN text : text[i] = c} \cup {Len(text) + 1})

ReadNumber(text) ==
    LET end      == First(text, "e")
        point    == Min({First(text, "."), end})
        size     == Integer(SubSeq(text, end, Len(text)))
        exponent == IF At(text, end + 1) = "-" THEN -size ELSE size
        place(i) == (IF i < point THEN point - i - 1 ELSE point - i) + exponent
        digits   == {i \in 1..(end - 1) : IsDigit(text[i]) /\ text[i] # "0"}
    IN  [negative |-> At(text, 1) = "-", significant |-> {<<place(i), text[i]>> : i \in digits}]

(* A number comes back with its sign and digit by digit, whatever zeros    *)
(* stand for their places, if it has no digits that the format cuts off    *)
(* (precision counts the digits behind the point, and not the significant  *)
(* ones as man/as.yaml.Rd:19 says: 0.0015 becomes 0.0 if it is 2).         *)
IsCut(x) == -4 <= x.power /\ x.power + 1 - Len(x.digits) < -Precision

SameElement(now, then) ==
    IF then.number = {} THEN now.text = then.text
    ELSE \A x \in then.number :
            ~IsCut(x) => ReadNumber(now.text) = [negative    |-> x.negative,
                                                 significant |-> Significant(x)]

ReadElements == FlattenSeq([i \in DOMAIN ReadTokens |-> ReadValue(i)])

(* What as.yaml has written is read back with the same elements, each of   *)
(* the type it had: a string that looks like a number, a date or a merge   *)
(* key is a string again, whatever style the emitter has turned that of    *)
(* r_emit.c into; and a number is the same number, with the zeros removed  *)
(* and in the format that an element in front of it has set.               *)
ValuesComeBack ==
    reading /\ got = 0 /\ caller = "as.yaml" /\ Convertible =>
        LET written == Values(object)
        IN  /\ Len(ReadElements) = Len(written)
            /\ \A i \in DOMAIN written :
                  /\ SameElement(ReadElements[i], written[i])
                  /\ written[i].type \in {"any", ReadElements[i].type}

=============================================================================
