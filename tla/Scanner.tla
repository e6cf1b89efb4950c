------------------------------- MODULE Scanner -------------------------------
(***************************************************************************)
(* The scanner of LibYAML (scanner.c).  Tokens wait in a queue as long as  *)
(* one of them may turn out to be the start of a simple key: when the ":"  *)
(* comes, KEY and perhaps BLOCK-MAPPING-START are inserted in front of it. *)
(*                                                                         *)
(* Fetch is one turn of the loop in yaml_parser_fetch_more_tokens, Deliver *)
(* the end of it and of yaml_parser_scan.  A potential simple key is a set *)
(* of at most one record; it is empty when the key is not possible.        *)
(* Allocation and the reader do not fail.                                  *)
(***************************************************************************)
EXTENDS ScanText

CONSTANT SimpleKeyLength   \* 1024 in yaml_parser_stale_simple_keys

ASSUME KeyAssumption == SimpleKeyLength \in Nat

Start(text) ==
    [rest |-> text, index |-> 0, line |-> 0, column |-> 0, flowLevel |-> 0,
     indent |-> 0, indents |-> <<>>, simpleKeyAllowed |-> FALSE,
     simpleKeys |-> <<>>, tokens |-> <<>>, tokensParsed |-> 0,
     started |-> FALSE, ended |-> FALSE, error |-> FALSE]

Enqueue(s, type) == [s EXCEPT !.tokens = Append(@, Token(type, "", <<>>))]

(* QUEUE_INSERT, for the place of a token that was counted.                *)
QueueInsert(s, number, type) ==
    [s EXCEPT !.tokens = InsertAt(@, number - s.tokensParsed + 1, Token(type, "", <<>>))]

-----------------------------------------------------------------------------
(* Potential simple keys, one for each flow level.                         *)
PossibleKeys(s) == UNION ToSet(s.simpleKeys)
CurrentKey(s) == Last(s.simpleKeys)
SetKey(s, key) == [s EXCEPT !.simpleKeys = Append(Front(@), key)]

(* Mutant: only the line counts.                                           *)
StaleByLine(s, key) == key.line < s.line

Stale(s, key) == \/ key.line < s.line
                 \/ key.index + SimpleKeyLength < s.index

StaleSimpleKeys(s) ==
    IF \E key \in PossibleKeys(s) : Stale(s, key) /\ key.required THEN Failed(s)
    ELSE [s EXCEPT !.simpleKeys =
             [i \in DOMAIN @ |-> {key \in @[i] : ~Stale(s, key)}]]

RemoveSimpleKey(s) == IF \E key \in CurrentKey(s) : key.required THEN Failed(s)
                      ELSE SetKey(s, {})

(* Mutant: the tokens that were delivered are not counted.                 *)
SaveSimpleKeyUncounted(s) ==
    IF ~s.simpleKeyAllowed THEN s
    ELSE SetKey(RemoveSimpleKey(s),
                {[required |-> s.flowLevel = 0 /\ s.indent = s.column,
                  number |-> Len(s.tokens),
                  index |-> s.index, line |-> s.line, column |-> s.column]})

SaveSimpleKey(s) ==
    IF ~s.simpleKeyAllowed THEN s
    ELSE SetKey(RemoveSimpleKey(s),
                {[required |-> s.flowLevel = 0 /\ s.indent = s.column,
                  number |-> s.tokensParsed + Len(s.tokens),
                  index |-> s.index, line |-> s.line, column |-> s.column]})

IncreaseFlowLevel(s) == [s EXCEPT !.simpleKeys = Append(@, {}), !.flowLevel = @ + 1]

(* Mutant: an end without a start counts too.                              *)
DecreaseFlowLevelBelow(s) ==
    IF s.flowLevel = 0 THEN [s EXCEPT !.flowLevel = -1]
    ELSE [s EXCEPT !.flowLevel = @ - 1, !.simpleKeys = Front(@)]

DecreaseFlowLevel(s) ==
    IF s.flowLevel = 0 THEN s
    ELSE [s EXCEPT !.flowLevel = @ - 1, !.simpleKeys = Front(@)]

-----------------------------------------------------------------------------
(* Indentation.  Where is {} for the end of the queue, or the number of a  *)
(* token that the start of the collection goes in front of.                *)

RollIndent(s, column, where, type) ==
    IF s.flowLevel > 0 \/ s.indent >= column THEN s
    ELSE LET rolled == [s EXCEPT !.indents = Append(@, s.indent), !.indent = column]
         IN  IF where = {} THEN Enqueue(rolled, type)
             ELSE QueueInsert(rolled, CHOOSE number \in where : TRUE, type)

(* Levels are closed from the innermost on, up to the first that is not    *)
(* deeper than the column.                                                 *)
UnrollIndent(s, column) ==
    LET levels == Append(s.indents, s.indent)
        kept   == Max({i \in DOMAIN levels : levels[i] <= column})
    IN  IF s.flowLevel > 0 THEN s
        ELSE [s EXCEPT !.indent = levels[kept],
                       !.indents = SubSeq(levels, 1, kept - 1),
                       !.tokens = @ \o [i \in 1..(Len(levels) - kept) |->
                                            Token("BLOCK-END", "", <<>>)]]

-----------------------------------------------------------------------------
(* The fetchers.                                                           *)
Allow(s, allowed) == [s EXCEPT !.simpleKeyAllowed = allowed]
Enqueued(r) == IF r.s.error THEN r.s ELSE [r.s EXCEPT !.tokens = Append(@, r.token)]

FetchStreamStart(s) ==
    Enqueue([s EXCEPT !.indent = -1, !.simpleKeys = Append(@, {}),
                      !.simpleKeyAllowed = TRUE, !.started = TRUE], "STREAM-START")

(* Mutant: the block collections stay open.                                *)
ResetKeyOnly(s) == Allow(RemoveSimpleKey(s), FALSE)

(* All block collections end, and with them the simple keys.               *)
Reset(s) == Allow(RemoveSimpleKey(UnrollIndent(s, -1)), FALSE)

(* Mutant: no new line in front of the end.                                *)
FetchStreamEndInLine(s) == Enqueue(Reset(s), "STREAM-END")

FetchStreamEnd(s) ==
    LET line == IF s.column = 0 THEN s ELSE [s EXCEPT !.column = 0, !.line = @ + 1]
    IN  Enqueue(Reset(line), "STREAM-END")

FetchDirective(s) == Enqueued(ScanDirective(Reset(s)))

FetchDocumentIndicator(s, type) == Enqueue(Forward(Reset(s), 3), type)

FetchFlowCollectionStart(s, type) ==
    Enqueue(Forward(Allow(IncreaseFlowLevel(SaveSimpleKey(s)), TRUE), 1), type)

FetchFlowCollectionEnd(s, type) ==
    Enqueue(Forward(Allow(DecreaseFlowLevel(RemoveSimpleKey(s)), FALSE), 1), type)

(* Mutant: the comma is not skipped.                                       *)
FetchFlowEntryUnread(s) == Enqueue(Allow(RemoveSimpleKey(s), TRUE), "FLOW-ENTRY")

FetchFlowEntry(s) ==
    Enqueue(Forward(Allow(RemoveSimpleKey(s), TRUE), 1), "FLOW-ENTRY")

(* A collection that starts here, in the block context.                    *)
BeginBlock(s, type) ==
    IF s.flowLevel > 0 THEN s
    ELSE RollIndent(Unless(s, ~s.simpleKeyAllowed), s.column, {}, type)

FetchBlockEntry(s) ==
    Enqueue(Forward(Allow(RemoveSimpleKey(BeginBlock(s, "BLOCK-SEQUENCE-START")),
                          TRUE), 1), "BLOCK-ENTRY")

FetchKey(s) ==
    Enqueue(Forward(Allow(RemoveSimpleKey(BeginBlock(s, "BLOCK-MAPPING-START")),
                          s.flowLevel = 0), 1), "KEY")

(* Mutant: KEY is inserted behind BLOCK-MAPPING-START, at the same place.  *)
InsertKeyLast(s, key) ==
    Allow(SetKey(QueueInsert(RollIndent(s, key.column, {key.number}, "BLOCK-MAPPING-START"),
                             key.number, "KEY"), {}), FALSE)

(* Behind a simple key, or behind a complex one.                           *)
InsertKey(s, key) ==
    Allow(SetKey(RollIndent(QueueInsert(s, key.number, "KEY"), key.column,
                            {key.number}, "BLOCK-MAPPING-START"), {}), FALSE)

FetchValue(s) ==
    LET keyed == IF CurrentKey(s) # {}
                 THEN InsertKey(s, CHOOSE key \in CurrentKey(s) : TRUE)
                 ELSE Allow(BeginBlock(s, "BLOCK-MAPPING-START"), s.flowLevel = 0)
    IN  Enqueue(Forward(keyed, 1), "VALUE")

(* An anchor, an alias, a tag and a flow scalar may be a simple key.       *)
Saved(s) == Allow(SaveSimpleKey(s), FALSE)
FetchAnchor(s, type) == Enqueued(ScanAnchor(Saved(s), type))
FetchTag(s) == Enqueued(ScanTag(Saved(s)))
FetchFlowScalar(s) == Enqueued(ScanFlowScalar(Saved(s)))
FetchPlainScalar(s) == Enqueued(ScanPlainScalar(Saved(s)))

FetchBlockScalar(s) == Enqueued(ScanBlockScalar(Allow(RemoveSimpleKey(s), TRUE)))

-----------------------------------------------------------------------------
(* yaml_parser_fetch_next_token: what comes first decides.                 *)
StartsPlain(s) ==
    LET c == Here(s)
    IN  \/ ~(IsBlankZ(c) \/ c \in {"-", "?", ":", ",", "[", "]", "{", "}", "#", "&",
                                   "*", "!", "|", ">", "'", "\"", "%", "@"})
        \/ c = "-" /\ ~IsBlank(Ahead(s, 1))
        \/ s.flowLevel = 0 /\ c \in {"?", ":"} /\ ~IsBlankZ(Ahead(s, 1))

Fetchers == {"stream-start", "stream-end", "directive", "document-start",
             "document-end", "[", "{", "]", "}", ",", "-", "?", ":", "*", "&",
             "!", "block scalar", "flow scalar", "plain scalar", "unknown"}

Fetcher(s) ==
    LET c == Here(s)
        spaced == IsBlankZ(Ahead(s, 1))
    IN  IF ~s.started THEN "stream-start"
        ELSE IF IsZ(c) THEN "stream-end"
        ELSE IF s.column = 0 /\ c = "%" THEN "directive"
        ELSE IF Indicated(s, "-") THEN "document-start"
        ELSE IF Indicated(s, ".") THEN "document-end"
        ELSE IF c \in FlowIndicators THEN c
        ELSE IF c = "-" /\ spaced THEN c
        ELSE IF c \in {"?", ":"} /\ (s.flowLevel > 0 \/ spaced) THEN c
        ELSE IF c \in {"*", "&", "!"} THEN c
        ELSE IF c \in {"|", ">"} /\ s.flowLevel = 0 THEN "block scalar"
        ELSE IF c \in {"'", "\""} THEN "flow scalar"
        ELSE IF StartsPlain(s) THEN "plain scalar"
        ELSE "unknown"

Fetched(s, fetcher) ==
    CASE fetcher = "stream-start"   -> FetchStreamStart(s)
      [] fetcher = "stream-end"     -> FetchStreamEnd(s)
      [] fetcher = "directive"      -> FetchDirective(s)
      [] fetcher = "document-start" -> FetchDocumentIndicator(s, "DOCUMENT-START")
      [] fetcher = "document-end"   -> FetchDocumentIndicator(s, "DOCUMENT-END")
      [] fetcher = "[" -> FetchFlowCollectionStart(s, "FLOW-SEQUENCE-START")
      [] fetcher = "{" -> FetchFlowCollectionStart(s, "FLOW-MAPPING-START")
      [] fetcher = "]" -> FetchFlowCollectionEnd(s, "FLOW-SEQUENCE-END")
      [] fetcher = "}" -> FetchFlowCollectionEnd(s, "FLOW-MAPPING-END")
      [] fetcher = "," -> FetchFlowEntry(s)
      [] fetcher = "-" -> FetchBlockEntry(s)
      [] fetcher = "?" -> FetchKey(s)
      [] fetcher = ":" -> FetchValue(s)
      [] fetcher = "*" -> FetchAnchor(s, "ALIAS")
      [] fetcher = "&" -> FetchAnchor(s, "ANCHOR")
      [] fetcher = "!" -> FetchTag(s)
      [] fetcher = "block scalar" -> FetchBlockScalar(s)
      [] fetcher = "flow scalar"  -> FetchFlowScalar(s)
      [] fetcher = "plain scalar" -> FetchPlainScalar(s)
      [] fetcher = "unknown"      -> Failed(s)

(* White space, stale keys and indentation in front of the token.          *)
Prepared(s) ==
    IF ~s.started THEN s
    ELSE LET there == StaleSimpleKeys(ScanToNextToken(s))
         IN  IF there.error THEN there ELSE UnrollIndent(there, there.column)

FetchPrepared(s) == IF s.error THEN s ELSE Fetched(s, Fetcher(s))
FetchNextToken(s) == FetchPrepared(Prepared(s))

(* yaml_parser_fetch_more_tokens: the head of the queue may be a key.      *)
HeadMayBeKey(s) == \E key \in PossibleKeys(s) : key.number = s.tokensParsed
NeedsMoreTokens(s) == s.tokens = <<>> \/ HeadMayBeKey(s)

(* What yaml_parser_scan leaves behind with the token it hands over.       *)
Dequeued(s) == [s EXCEPT !.tokens = Tail(@), !.tokensParsed = @ + 1,
                         !.ended = Head(s.tokens).type = "STREAM-END"]

(* Stale keys are removed before a queue that is not empty is looked at.   *)
Checked(s) == IF s.tokens = <<>> THEN s ELSE StaleSimpleKeys(s)

-----------------------------------------------------------------------------
(* The state machine.                                                      *)
CONSTANT Texts       \* the texts that are scanned

ASSUME TextsAssumption == \A text \in Texts : text \in Seq(ToSet(text))

VARIABLES scanner,   \* the fields of yaml_parser_t that the scanner uses
          given      \* history: what the caller has got so far

vars == <<scanner, given>>

(* levels of block and flow collections that the caller knows of, and the  *)
(* last token.                                                             *)
NothingGiven == [token |-> "NO-TOKEN", blocks |-> 0, flows |-> 0, started |-> FALSE]

GivenAfter(g, type) ==
    [token |-> type, started |-> TRUE,
     blocks |-> CASE type \in {"BLOCK-SEQUENCE-START", "BLOCK-MAPPING-START"} -> g.blocks + 1
                  [] type = "BLOCK-END" -> g.blocks - 1
                  [] OTHER -> g.blocks,
     flows |-> CASE type \in {"FLOW-SEQUENCE-START", "FLOW-MAPPING-START"} -> g.flows + 1
                 [] type \in {"FLOW-SEQUENCE-END", "FLOW-MAPPING-END"} -> Max({g.flows - 1, 0})
                 [] OTHER -> g.flows]

Init == /\ scanner \in {Start(text) : text \in Texts}
        /\ given = NothingGiven

Over(s) == s.ended \/ s.error

Fetch(fetcher) ==
    /\ ~Over(scanner)
    /\ \E now \in {Checked(scanner)} :
         /\ ~now.error /\ NeedsMoreTokens(now)
         /\ \E there \in {Prepared(now)} :
              /\ ~there.error /\ Fetcher(there) = fetcher
              /\ scanner' = Fetched(there, fetcher)
    /\ UNCHANGED given

(* A required simple key has turned out to be none.                        *)
KeyExpected ==
    /\ ~Over(scanner)
    /\ \E now \in {Checked(scanner)} :
         \/ now.error /\ scanner' = now
         \/ /\ ~now.error /\ NeedsMoreTokens(now)
            /\ Prepared(now).error
            /\ scanner' = Prepared(now)
    /\ UNCHANGED given

Deliver ==
    /\ ~Over(scanner)
    /\ \E now \in {Checked(scanner)} :
         /\ ~now.error /\ ~NeedsMoreTokens(now)
         /\ scanner' = Dequeued(now)
         /\ given' = GivenAfter(given, Head(now.tokens).type)

(* Further calls deliver nothing.                                          *)
NoToken == Over(scanner) /\ UNCHANGED vars

Next == KeyExpected \/ Deliver \/ NoToken \/ \E fetcher \in Fetchers : Fetch(fetcher)

Spec == Init /\ [][Next]_vars

-----------------------------------------------------------------------------
KeyStarts == {"SCALAR", "ALIAS", "ANCHOR", "TAG", "FLOW-SEQUENCE-START",
              "FLOW-MAPPING-START"}
TokenTypes == KeyStarts \cup
    {"STREAM-START", "STREAM-END", "DOCUMENT-START", "DOCUMENT-END",
     "VERSION-DIRECTIVE", "TAG-DIRECTIVE", "BLOCK-SEQUENCE-START",
     "BLOCK-MAPPING-START", "BLOCK-END", "FLOW-SEQUENCE-END", "FLOW-MAPPING-END",
     "BLOCK-ENTRY", "FLOW-ENTRY", "KEY", "VALUE"}

(* Types: the levels are numbers, and every token is of the enumeration    *)
(* that the parser knows.                                                  *)
TypeOK ==
    /\ \A field \in {"index", "line", "column", "flowLevel", "tokensParsed"} :
          scanner[field] \in Nat
    /\ scanner.indent \in Nat \cup {-1}
    /\ \A field \in {"simpleKeyAllowed", "started", "ended", "error"} :
          scanner[field] \in BOOLEAN
    /\ \A i \in DOMAIN scanner.tokens : scanner.tokens[i].type \in TokenTypes
    /\ given.token \in TokenTypes \cup {"NO-TOKEN"}

(* A possible key still waits in the queue, and what waits at its place is *)
(* a token that a key can start with: QUEUE_INSERT never reaches in front  *)
(* of what the parser already has.  Each flow level has its own key, and   *)
(* that of an inner level comes behind those around it, so that KEY in     *)
(* front of it moves no other.                                             *)
KeysAreQueued ==
    scanner.started /\ ~scanner.error =>
        /\ Len(scanner.simpleKeys) = scanner.flowLevel + 1
        /\ \A i \in DOMAIN scanner.simpleKeys : \A key \in scanner.simpleKeys[i] :
              LET place == key.number - scanner.tokensParsed + 1
              IN  /\ place \in DOMAIN scanner.tokens
                  /\ scanner.tokens[place].type \in KeyStarts
                  /\ \A inner \in UNION {scanner.simpleKeys[j] :
                                            j \in (i + 1)..Len(scanner.simpleKeys)} :
                        key.number < inner.number

Delivering == scanner'.tokensParsed # scanner.tokensParsed

(* A ":" makes a key only of what is on its own line and within the limit  *)
(* (scanner.c:1068), however long the scanner has looked ahead since.      *)
KeysAreShort ==
    [][\A key \in IF scanner.simpleKeys = <<>> THEN {} ELSE CurrentKey(scanner) :
          LET place == key.number - scanner.tokensParsed + 1
          IN  (~scanner'.error /\ place \in DOMAIN scanner'.tokens
               /\ scanner'.tokens[place].type \in {"KEY", "BLOCK-MAPPING-START"}
               /\ ~Delivering)
              => key.line = scanner'.line
                 /\ scanner'.index - 1 - key.index <= SimpleKeyLength]_vars

(* The start of a block collection comes directly in front of its first    *)
(* entry or key, wherever in the queue it had to go.                       *)
StartsMeetEntries ==
    [][Delivering =>
          /\ given.token = "BLOCK-MAPPING-START" => given'.token \in {"KEY", "VALUE"}
          /\ given.token = "BLOCK-SEQUENCE-START" => given'.token = "BLOCK-ENTRY"]_vars

(* The streams that Parser.tla is checked with.                            *)
Stream == INSTANCE TokenStream WITH
    MaxTokens <- 1, TagHandles <- {""}, DirectiveHandles <- {""},
    Versions <- {"compatible"},
    PlainTokens <- {"SCALAR", "ALIAS", "ANCHOR", "KEY", "VALUE", "BLOCK-ENTRY",
                    "FLOW-ENTRY"}

Levels(g) == [started |-> g.started, ended |-> g.token = "STREAM-END", left |-> 1,
              indents |-> g.blocks, flow |-> g.flows]

(* Every token that is handed over is one that TokenStream allows, so that *)
(* what holds of the parser for those streams holds for every text.        *)
FollowsTokenStream ==
    [][Delivering =>
          \E next \in Stream!Deliver(Levels(given)) :
              /\ next.token.type = given'.token
              /\ [next.source EXCEPT !.left = 1] = Levels(given')]_vars

(* STREAM-END is the last token: a key that was possible in front of it,   *)
(* on whatever flow level, is stale behind it, and the loop in             *)
(* yaml_parser_fetch_more_tokens fetches nothing more.                     *)
StreamEndIsLast ==
    \A i \in DOMAIN scanner.tokens :
        scanner.tokens[i].type = "STREAM-END" => i = Len(scanner.tokens)

(* Every turn of that loop reads some of the text or is the one that ends  *)
(* the stream or fails; so it comes to an end for every text.              *)
FetchesRead ==
    [][scanner.started /\ scanner' # scanner /\ ~Delivering /\ ~scanner'.error =>
          \/ Len(scanner'.rest) < Len(scanner.rest)
          \/ Last(scanner'.tokens).type = "STREAM-END"]_vars
=============================================================================
