# Verification of r-yaml

TLA+ specifications of the R package *yaml*: `yaml.load`, which drives LibYAML's
event parser and builds R objects from its events, and `as.yaml`, which walks an R
object and drives LibYAML's emitter. Paths below are relative to the repository;
`r_parse.c` and friends are in `src/src/`.

## 1. The system

| Part | Code | State it keeps | Operations | Talks to |
|---|---|---|---|---|
| R wrappers | `R/*.R` | none | argument defaults, file reading | `.Call` into the two C entry points |
| Event loop | `r_parse.c` `Ryaml_unserialize_from_yaml` | stack of cells, list of aliases, `done`, global `Ryaml_error_msg` | one `switch` case per event | pulls events from the parser; runs R handlers and expressions |
| Conversions | `r_parse.c` `handle_scalar`, `handle_sequence`, `handle_map` | the tail of the stack | default conversion by tag, handler first | `r_ext.c` for handlers and classes |
| Map assembly | `r_parse.c` `handle_map`, `handle_merge`, `expand_merge`, `find_map_entry` | interim map (a pairlist), the cells still to be read | plain entry, merge of a map, merge of a list | only its caller |
| Helpers | `r_ext.c` | `Ryaml_error_msg`, the symbols of the markers | find and run a handler, set the message | both entry points |
| Serializer | `r_emit.c` | output buffer, the emitter, status of the last call, the number format | recursion over an R object, one event per node | pushes events into the emitter |
| Parser | `parser.c` | `state`, stack of states, stack of marks, tag directives, one token of look-ahead | one function per state | pulls tokens from the scanner |
| Scanner | `scanner.c` | token queue, stack of indents, simple keys per flow level | fetch and scan one function per token kind | pulls characters from the reader |
| Emitter | `emitter.c` | event queue, stack of states, stack of indents, column and context flags | one function per state | writes characters to the writer |
| Reader, writer | `reader.c`, `writer.c` | buffers, encoding, offset | decode, encode, refill, flush | input string, output handler |
| Containers, constructors | `api.c`, `yaml_private.h` | growing stacks and queues | push, pop, enqueue, insert, grow | all of LibYAML |
| Implicit tags | `implicit.c` (generated from `implicit.re`) | none | tag of a plain scalar | `handle_scalar`, `emit_string` |
| Loader, dumper | `loader.c`, `dumper.c` | - | never called by the package | - |

The package is single-threaded. What is hard in it is not interleaving but long
protocols between components that keep separate state: a parser that reports the
nesting of a document one event at a time, and a loop that rebuilds the nesting
from markers on a flat stack; a map that is assembled from pairs and merges in two
orders of precedence while the stack it reads from shrinks; and R code that runs
in the middle of a load, may fail, and may start another load that shares the
global error message. On the way out, an emitter that looks ahead before it
writes, refuses what does not fit, and leaves the refused event in its queue, while
its caller overlooks some failures; and a choice of quotes and styles, spread over
three files, which must agree with what the scanner makes of the text. In the
scanner, tokens that are inserted in front of others which were queued before them.

What makes each part correct:

* event loop: a document becomes one object; a collection is folded from its own
  start; markers never get into values; a load raises if and only if something
  failed; it ends;
* map assembly: a key occurs once; the entry that precedence calls for wins;
  duplicates and illegal merges fail; the second loop finds no plain pair;
* parser: its events follow the grammar at the head of `parser.c`; the state stack
  and the mark stack are empty at the end; a syntax error stops it for good;
* serializer: it sends the emitter a well-formed stream or reports failure; a
  failure below is never lost above;
* emitter: it accepts every well-formed stream and writes it to its end, refuses
  everything else for good, and its text is read back as the same events;
* scanner: possible simple keys are used or dropped before they are stale, block
  starts and ends are balanced, and every turn of its loop reads on.

## 2. The modules

| Module | Models | Role |
|---|---|---|
| `EventGrammar` | the grammar of events that `parser.c` produces | pushdown automaton, written over events: what each event does to the nesting |
| `EventStream` | the contract between event producers and consumers | `EventGrammar` as a producer, one action per event, with bounds; it may fail anywhere |
| `RValues` | R objects as far as decisions look into them | values, no state |
| `MapEntries` | the functions of map assembly | operators on an accumulator, with the loops as recursive functions; `AssembleMap` is `handle_map` as one operator |
| `MapAssembly` | `handle_map`, one action per iteration of its loops | state machine |
| `Builder` | the event loop, composed with `EventStream` | state machine; one step is one event and everything the `switch` does with it |
| `Parser` | the state functions of `parser.c` | state machine; one step is one call of `yaml_parser_parse`; the source of tokens is a parameter |
| `TokenStream` | what the scanner may deliver | the parser's environment, from the levels the scanner keeps |
| `TokenGrammar` | the grammar of tokens at the head of `parser.c` | reference: derives sentences and their events |
| `Characters` | the character classes of `yaml_private.h` | operators on sequences of characters |
| `ScanText` | the second half of `scanner.c`: what a token takes from the text and its value | operators on a scanner record |
| `Scanner` | the first half of `scanner.c`: fetchers, token queue, simple keys, indents | state machine; its turns are operators on a scanner record |
| `EmitterText` | the writers of `emitter.c` and its analysis of scalars and tags | operators on an output record |
| `Emitter` | the queue, the look-ahead and the state functions of `emitter.c` | state machine; one step is one turn of the loop in `yaml_emitter_emit` |
| `EmitterCaller` | a caller of `yaml_emitter_emit` that keeps to the grammar | what the emitter promises it; extends `Emitter`, with `EventGrammar` for the caller |
| `Implicit` | `implicit.re` | regular expressions as data, and their matching |
| `Serializer` | `r_emit.c` | state machine over what `emit_object` has still to do; extends `Emitter`; the recogniser of implicit tags is a parameter (`ImplicitTag`, in the runs `FindImplicitTag` of `Implicit`) |
| `MCMapAssembly`, `MCBuilder`, `MCParser`, `MCParserGrammar`, `MCScanner` | instances for TLC | finite inputs, and the documented result of a merge as an independent reference |
| `MCEmitter` | the emitter with its callers, and the scanner and parser on its text | composition, for TLC |
| `ProofLemmas` | facts on numbers, sequences, loops and `FlattenSeq` | lemmas |
| `MapEntriesProofs` | what the operators of `MapEntries` keep of a map, and their loops taken apart at either end | lemmas |
| `MapAssemblyProofs`, `BuilderProofs`, `ScannerProofs`, `ParserProofs`, `EmitterProofs`, `SerializerProofs` | theorems | proofs |

The two sides of the event interface meet in `EventGrammar`: `Parser` is shown to
produce nothing but steps of it (`ProducesGrammar`, an action property over all its
calls), and `Builder` consumes the steps of `EventStream`, which are the same
operators with counters. On the way out, `Emitter` consumes events, and a
refinement mapping from its state and its stack of states to the phase and the open
collections shows that what it takes is a run of `EventGrammar`
(`ImplementsContract`). `TokenStream` plays the same part between scanner and
parser: `Parser` is checked with everything it allows, and `Scanner` is shown to
deliver nothing else (`FollowsTokenStream`). `MCEmitter` closes the circle:
`Serializer` or any other caller, `Emitter`, the text, `Scanner`, `Parser`.

### How the state corresponds to the code

`Builder`: `stack` is the pairlist behind `s_stack_head`; a cell has its `CAR`
(`obj`) and, for a marker, the tag and the anchor that `handle_structure_start`
puts into its `TAG`. `aliases` is the pairlist behind `s_aliases_head`. `errorMsg`
is `Ryaml_error_msg`, by kind of message; `""` is an empty buffer. `done` and
`result` are the local variables; `failed` is a history variable (some handler
returned an error, or the parser did); `outcome` is what the call does in the end.
`phase`, `open`, `nodes` and `documents` belong to the parser: each action that
handles an event conjoins the step of `EventStream` that produces it.

A tag is one of the kinds that the code tells apart: the integer, float, boolean
and NA tags convert alike as far as the loop is concerned (one object, no error)
and are one kind `int`; any other tag (`"!foo"`) falls through every comparison.
`HandlerOutcomes` lists what a handler or an evaluated expression may do: fail or
return an object, and leave the message buffer untouched, emptied, or filled by a
nested call. A failing handler is a warning and the default conversion follows;
the model has both steps in one action, like the code. Warnings raised as errors
(`options(warn = 2)`) are not modelled yet: they leave the loop without returning.

`MapAssembly`: `todo` is the pairlist from `s_curr` on, `left` the merge pairs the
first loop leaves behind it; `sources` and `entries` are what the loops of
`handle_merge` and `expand_merge` still have to visit; `acc.map` is the interim map
with the flag that distinguishes merged entries. `acc.ignored` and `acc.warned` are
counters added to state the property on warnings.

`Parser`: `state`, `states`, `marks` and `tagDirectives` are the fields of
`yaml_parser_t`; a mark is kept as the type of the token it points at, a tag
directive as its handle. `reader` is the head of the token queue (`token`), the
scanner behind it (`source`) and `stream_end_produced` (`ended`). The token behind
one that is skipped is chosen at the skip; the type `NO-TOKEN` stands for a scanner
that fails when the parser peeks, so a failure of the scanner can come at every
peek of the code, also between an anchor and a tag or behind a pushed state.
`error` is `parser->error`, and `event` is what the last call returned. `phase` and
`open` are history variables: the consumer's view of the events so far. Each state
function is an action that does everything one call does, with
`yaml_parser_parse_node` as the operator `Node`, and `yaml_parser_process_directives`
and the loop over `...` unrolled up to `MaxRun`. The dispatcher has two more states
(`BLOCK_NODE_OR_INDENTLESS_SEQUENCE`, `FLOW_NODE`) that no code assigns; they have no
action. Allocation does not fail.

`TokenStream` lets the scanner deliver any token at any place, with three
exceptions that hold in `scanner.c`: `BLOCK-END` and the two block starts come only
outside of flow collections and in balance, the tokens of documents and the end of
the stream come when no block is open (or inside a flow collection), and
`STREAM-START` comes first and once. It is weaker than the scanner, which also knows
columns and simple keys; what holds for every such stream holds for the scanner's.

`Scanner`: the record `scanner` holds the fields of `yaml_parser_t` that the scanner
uses: `rest` is the text from `buffer.pointer` on, `index`, `line` and `column` are
`mark`, `tokens` is the queue and `tokensParsed` counts what was taken from it;
`simpleKeys` has one entry per flow level, a set that is empty when no key is
possible. One step is one turn of `yaml_parser_fetch_more_tokens`, that is one
fetcher with the white space, the stale keys and the unrolled indents in front of
it, or the delivery of one token. `given` is a history variable: the levels the
caller knows of. The operators of a turn take the whole record, so that `MCEmitter`
can repeat them as a call of `yaml_parser_scan` for its parser. The loops of
`ScanText` over the characters of a token are `Loop`: a turn that changes nothing
any more once it has come to the end, taken once more than there are characters, or
line breaks, left. Line breaks are LF, one letter of a class
may stand for it, `T` for the prefix `tag:yaml.org,2002:`, `Y` and `G` for the names
of the two directives (`Characters`). Characters outside of ASCII, the byte order
mark and the grave accent do not occur.

`Emitter`: the record `emitter` holds `state`, `states`, `indent`, `indents`,
`flow_level`, the three context flags as one (`context`), `tag_directives`, `out`
(the text with `column`, `whitespace`, `indention`, `open_ended`), `ok` (the result
of the state function) and `problem` (`emitter->error`). `queue` is `events`. `call`
says where the call of `yaml_emitter_emit` is: `processing` from `Emit` on, until the
emitter has to wait for more events (`returned`) or has refused one (`refused`). A
refused event stays in the queue, with everything the state function changed before
it gave up. `analyze_event` is done by `Valid` and `Analysis`, without the fields in
which the code caches it: they are rewritten for every event before they are read.

`Serializer`: the recursion of `emit_object` is `todo`, a list of what is still to be
done: send an event, convert an object, go through the elements of an unnamed list,
end it. An item whose predecessor gave 0 is passed over, as in the code, except for
the end of an unnamed list, which is sent all the same (`r_emit.c:793`). `failed` is
the result 0 of a conversion that has nothing to do with the emitter; the result of
the last call is `Result`. An object has its type, items, names, classes, tag and
levels. A number has its digits and the place of the first one; what `snprintf` prints of
it for a format is modelled but for rounding, and so is what the code does with that: the
switch to the scientific format, which stays, and the zeros that are removed. `sent` and `met` are history variables: the events that were handed over, and
the objects that `emit_object` was called for.

`TokenGrammar` derives the sentences of the grammar in the comment at
`parser.c:3-40`. Every derivation step that stands for an event is marked, so that
the expected events come out of the grammar and not out of the code. Left out are
the pair of a block mapping that has neither key nor value (it makes the grammar
ambiguous), and the pair with a `VALUE` but no `KEY`, which the comment allows and
`parser.c:878` refuses.

The operators of `MapEntries` keep an oddity of the code: with
`as.named.list = FALSE`, `find_map_entry` stops at the first entry whose *value* is
NULL (`Visited`). `UniqueKeys` and `MapsHaveUniqueKeys` say exactly what this may hide: a
key may come again only when its first entry, or one in front of that, holds NULL
(`HiddenByNull`).

The escapes of a double-quoted scalar are all there (`Escapes`, `CodeLength`), each with
the class of the character that it stands for, as everywhere in `Characters`.

## 3. What is checked

| Run | Question | Bounds | Result |
|---|---|---|---|
| `map_order` | default precedence, keys made strings: is the result the documented one? | mappings of up to 3 pairs; keys `"a"`, `"1"`, `1`; values scalar or NULL; merges of a map, a list of maps, an empty list, a list with a scalar, a scalar, NULL | pass |
| `map_override` | `merge.precedence = "override"` with `as.named.list = FALSE`: the same, and the pass that unlinks pairs, lost pairs, keys that come again | same | pass |
| `map_null` | duplicates behind a NULL value | same | violated, see findings |
| `event_loop` | every event stream, with aliases and with handlers and expressions that fail, return a scalar or a map, or clear the message | 4 nodes, 2 documents, 1 anchor, handlers for `str` and `seq` | pass |
| `maps_in_loop` | nested mappings with merge keys (override), uncoerced keys, NULL, `!omap` | 7 nodes, 1 document | pass |
| `nested_calls` | a statement of the code's own warning | 5 nodes, 2 documents | violated, see findings |
| `tokens` | every token stream of `TokenStream` | 6 tokens apart from the ends of blocks and of the stream; 3 handles, compatible and incompatible versions | pass |
| `token_grammar` | every sentence of `TokenGrammar` | 10 tokens, anchors and tags in both orders | pass |
| `empty_pair_key` | also with a `KEY` that no node follows in a flow sequence | 9 tokens, no anchors or tags | violated, see findings |
| `scanner` | every text of pieces: everything that starts a token or a comment, and longer ones of what opens collections and keys | 3 pieces of 26, 5 pieces of 7; simple keys of 4 characters | pass |
| `emitter` | a caller that sends any valid stream; one that goes wrong somewhere and goes on; `as.yaml` with about 700 objects, four settings of `omap` and `column.major`, and handlers | 3 nodes, one of them special; 2 wrong events; width 5 | pass |
| `unknown_objects` | objects that `as.yaml` does not know | same objects | violated, see findings |

`MatchesDocumentation` compares the result of the two loops with an independent
definition: spread all merges out in document order, put plain pairs first with
`override`, keep the first entry of every key. `LoopsComputeAssembleMap` ties the
loops to the operator that the event loop's model uses for the whole function, so
that the two models cannot drift apart; it is checked with `override`, where the first
loop changes the stack that the second one walks, and proved for both.

`RoundTrip` runs scanner and parser on the text that the emitter has written and
compares events, anchors, tags and values with those that were sent, whatever the
styles asked for. `ValuesComeBack` does the same for R objects: every element has
its text and, by the patterns of implicit tags, its type again. A number is compared
digit by digit with the object's own, each digit with its place, and not with what
`FormatNumber` makes of it; only one that has digits behind the last place of `precision`
is left out (see the end of section 4). `OutcomesAreTrue` ties the outcome of `as.yaml` to the state of
the emitter and to the objects: when a text is given out, when an error is raised, and
that "Unknown emitter error" is raised only for an object without a conversion;
`RefusalIsFinal` is why an overlooked failure *of the emitter* cannot get lost.
`IndentsFollowNesting` relates three stacks that different functions push and pop in
different turns: the states, the indentations and, as a number, the collections in
flow style.

*Why the bounds are enough.* Map assembly looks at one pair and the interim map at
a time; two pairs are needed for a conflict, a third to see what a conflict does to
later pairs, and each of the three can be a merge of two maps. In the event loop a
conflict between collections needs two levels and a sibling (four nodes), one
between documents two documents. `maps_in_loop` needs seven nodes: an omap of two
maps, or a mapping that merges another one and also writes its key. In the
parser, a state function looks at the stack of states only by pushing and popping,
so that what it can do wrong shows with one collection in another: the start of two
collections, an entry token and a node need five tokens, and a document behind
a document with a directive fits in six. Sentences of the grammar also spend
tokens on closing, which takes ten for a collection with a pair in a collection.
`MaxRun` is the number of tokens, so the unrolled loops are never cut short. In
`MCEmitter` it is 2: the emitter writes no more than one `...` in a row and two
directives.

A fetcher of the scanner depends on one or two characters, the columns and the
innermost simple key; five pieces hold a key in a collection with a line in
between, and three of any kind what the rarer characters do next to each other. The
limit of 1024 characters for a simple key (`SimpleKeyLength`) is 4 in this run, so
that texts of these lengths reach it. The emitter writes a node in one of four
contexts (root, sequence, mapping, simple key), flow or block, which two enclosing
collections give; the node itself is one of about 170: any of 31 values in any of
five styles, an alias, or one with an anchor or a tag. `BestWidth` is 5 instead of 80, which is
above twice the indentation, where the code would replace it, and makes ordinary
values fold. `SimpleKeyLimit` is the code's.

*Fairness.* The event loop and the loops of `handle_map` run in one thread and
wait for nothing: `WF_vars(Next)` says that a loop which can go on does. The same
formula for `Parser` says that its caller asks again, which the event loop does
until it gets `STREAM-END` or a failure (`r_parse.c:1180`), and that a call
returns. Inputs are finite, which the bounds of `EventStream` and `TokenStream`
express. No other fairness is assumed.

`Scanner` and `Emitter` state no liveness: `FetchesRead` says that each turn of the
scanner's loop leaves less text, and each turn of the emitter's takes an event from
the queue or ends the call.

*Deadlock* is not checked for map assembly and the event loop: a load ends, and its
model stops there. It is checked for the parser and the scanner, which can always be
called again, and for the emitter with its callers and readers, whose regular ends
are a step of their own (`Stop`): a caller that waits for ever is found.

## 4. Findings

1. `map_null`: with `as.named.list = FALSE`, a key behind an entry whose value is
   NULL can be added twice (`r_parse.c:648`).
2. `nested_calls`: a handler that fails because of a nested `yaml.load` is reported
   as handled, and yet the load raises the nested message (`r_parse.c:1331`).
3. `empty_pair_key`: the state for the key of a pair in a flow sequence skips the
   token by which it knows that the key is empty (`parser.c:1025-1030`; the
   corresponding state of flow mappings does not), so that `[ ? : x ]` is an error.
4. `unknown_objects`: `as.yaml(list(expression(a)))` gives a text without the
   element and those behind it, and no error, where `as.yaml(expression(a))` is an
   error: the end of the unnamed list is sent behind the failed element and its result
   replaces the element's (`r_emit.c:788-794`). In a named list the failure is reported.

Met while modelling, without a run:

* an anchor that is used twice keeps its first meaning: `handle_alias` searches the
  list from its head and `possibly_record_alias` appends to it (`r_parse.c:113`, `1080`);
* the first document, when implicit and an empty plain scalar, is written as nothing
  at all, and read as no document (`NothingWritten` in `MCEmitter`);
* a tag suffix with `,`, `[` or `]` is written without an escape (`emitter.c:1886-1896`)
  and not read back as such by `yaml_parser_scan_tag`; tags in `MCEmitter` do not
  have these;
* a folded scalar with a line that begins with a space and is itself folded is read
  back with other line breaks (`emitter.c:2310`); no value in `MCEmitter` is both;
* `yaml_emitter_write_indicator` resets `open_ended`, and the end of a stream never
  finds it to be 2 (`emitter.c:666`, `1830`);
* the pattern of the tag `timestamp` is covered by that of `timestamp#iso8601`, which
  comes first, and is never the result (`implicit.re:93`);
* a list as a column of a data frame is written row by row as `~`: `Ryaml_yoink`
  copies nothing of it (`r_emit.c:262`);
* the string `.na.character` is read back as `NA`, and an empty string of class
  `verbatim` as NULL, since they are written without quotes;
* behind a number that is wide, all numbers of a vector are scientific (`r_emit.c:121`);
* `precision` is documented as the number of significant digits (`man/as.yaml.Rd:19`), but
  is the number of digits behind the point for every number from 0.0001 on that is not
  written in the scientific format (`r_emit.c:120-124`): `as.yaml(0.0015, precision = 2)`
  gives `0.0`. `Milli` in `MCEmitter` is that number, and `IsCut` keeps it out of
  `ValuesComeBack`.

Also: a pair with `VALUE` but no `KEY` in a block
mapping is in the documented grammar and is refused (`parser.c:878`); a handler that
returns the symbol `sequence.start` or `mapping.start` is taken for the start of a
collection (`r_parse.c:419`, `874`), which is why the theorems below assume that none
does.

## 5. What is proved

For every set of objects and every mapping, under the assumptions that values are
well-formed (`ObjectsAssumption`) and options are Booleans:

* `TypeCorrect`, `KeysAreUnique`, `OverrideIsHonoured`, `OverrideNeverFails`
  (`MapAssemblyProofs`). The inductive invariant adds to the four properties what
  each pass guarantees about the pairs it has left: a merged map's keys come from
  objects that occur, `todo` and `left` together hold the merges that are not done,
  `left` holds merge pairs only, and during the first pass every plain pair is
  either still to do or in the map. `PlainPairsWin` alone is not inductive, because
  it says nothing before the end; uniqueness rests on `Matches` being empty for the
  key that is added. `NoInternalError`, a part of that invariant, is in the runs
  what `MatchesDocumentation` and `InternalErrorsUnreachable` say of that error.
* `LoopsCompute`: the two loops, iteration by iteration, end with `AssembleMap` of
  the pairs, also when they end early. The invariant (`Computes`) says that what is
  left to do, applied to the map made so far, always gives `AssembleMap(pairs)`; of
  the first loop it says that the merge pairs passed so far, and then the pairs still
  to do, merge like all the pairs in a row (`PutOff`). It needs that a pass is
  unrolled at its first pair and at its last (`UnrollPass`), that an error ends every
  loop (`ErrorEndsLoops`), and that the second loop sees merge pairs only
  (`MergePassTakesAll`, from the invariant above).

For every event stream, every set of tags, anchors and handlers, under the
assumption that no handler returns a marker symbol:

* `StackFollowsParser`, `DocumentsAreSeparate`, `FirstDocumentStays`
  (`BuilderProofs`). The inductive invariant places the open collections of the
  parser on the stack by an increasing function `f` from nesting depth to cell:
  cell `f[k]` is a marker of the right kind, no other cell is a marker, the parity
  of the cells behind a mapping's marker is the parser's debt of a value, and the
  first open collection sits right above the objects of the finished documents.
  The lemmas `PushValue`, `PushMarker` and `Collapse` show that the three kinds of
  step preserve it, and `LastMarkerIsInnermost` that the search finds `f[depth]`.

About the global message, with nothing assumed of the handlers but that an outcome
is one (`BuilderAssumption`):

* `FailuresRaise`: a failure is never swallowed, although a handler may empty or
  overwrite the message at any time. The invariant is that a failed conversion has
  ended the loop *and* left a message; each conversion is shown to say why it fails.
* `WarningsAreNotRaised`, the converse, needs `NoNestedErrors`: no handler leaves the
  message of a load of its own behind. The run `nested_calls` shows that the
  hypothesis cannot be dropped (finding 2).

Under the assumption that handlers return R objects (`HandlersReturnObjects`: all
their parts are objects, and none of these is a marker symbol):

* `LoopTypes`, `MarkersStayOnTheStack`, `InternalErrorsNeverFire`. Added to the
  invariant of the stack is what cells, aliases and the result hold (`Values`):
  objects whose parts are objects. A mapping that ends hands its cells to
  `AssembleMap`, so the proof goes through every operator of `MapEntries`:
  `HandlePairsStays` and the lemmas below it keep maps made of objects, keep their
  keys unique, and never set the error of the second loop.
* `LoadedMapsHaveUniqueKeys`, with the exception that `HiddenByNull` states for one map
  (finding 1), and also under `HandlersReturnUniqueKeys`: R lets a handler return a list
  with a name twice, and the loop hands that list out as it is.

The outcomes of the run `event_loop` satisfy the four hypotheses on handlers; those
of `maps_in_loop`, which has no handlers, do so trivially.

For every scanner, whatever tokens it delivers and wherever it fails:

* `EventsFollowGrammar` (`ParserProofs`): every call of `yaml_parser_parse` reports an
  event that the grammar allows at that point, or an error; with
  `DocumentsBalanceStates`, `MarksBalance`, `FirstTokens`, `DirectivesStayLocal`
  and `ParserTypes`. The grammar alone is not inductive: what is popped at the end of
  a node has to be the state behind *that* node. The invariant assigns to each state
  the collections it stands for (`FramesOf`: none for the states of documents, one
  for a collection, two for a pair in a flow sequence) and the mark it owes, and
  says that those of the whole stack in a row, and of the state, are `open` and `marks`.
  Where a state counts the node it waits for (`Behind`) and where in the stream it may
  be (`Where`) are the other parts, and of directives, that no handle is twice in
  `tag_directives` and that the two defaults are there in a document. The lemmas
  about `FlattenSeq` (`FlattenAppend`, `FlattenPushed`, `FlattenLengths`) make pushing
  and popping changes at the end of those sequences.

For every text (a sequence of characters: `TextsAssumption`) and every limit on the
length of a simple key and of a version number:

* `KeysStayQueued`, `BlockStartsMeetEntries`, `KeysStayShort`, `NothingFollowsTheEnd`,
  `TurnsRead`, `TypeCorrect` and `ScannerImplementsStream` (`ScannerProofs`), all from
  `ScannerInvariant`. What the caller got says nothing of the tokens that are still in
  the queue, and a `:` may insert `KEY` and the start of a block in front of some of
  them. The invariant therefore *walks* the queue: `Walk` is a function from places in
  the queue to what the caller will know there, each step being allowed to it
  (`Allowed`), and its end agrees with the levels of the scanner (`Queued`). Every
  possible key waits at its place (`KeysWait`), those of outer levels first
  (`Nested`), the walk has the key's own flow level there, and behind it
  no token of a document comes outside of flow collections (`Encloses`): that is what
  allows a block to be opened in front of all that. `WalksOn` and `WalksAround` say
  how the walk changes with a token at the end and with one in between; each fetcher
  has a lemma that takes it from one scanner to the next (`FetchPlainFetches` and its
  like). `StreamEndIsLast` needs that the keys in front of `STREAM-END` are behind
  its line (`Closing`), since only the key of the innermost flow level is removed
  there.
* Every function that scans a token is shown to leave the queue, the keys and the
  indents alone and to read something or fail (`Consumes`). Its loops keep that in each
  turn, however many turns there are (`LoopStays`); that `Loop` has turns enough is a
  matter of the values, which the round trips compare.

With `EventsFollowGrammar`, in which the parser's tokens are arbitrary, the
reading side is covered from the text to the events, and `BuilderProofs` goes on from
there.

For every caller and every set of events, under the assumption that the directives
of a document are a sequence of tag directives (`CallerIsTyped`):

* `EmitterImplementsContract`, `EmitterRefusalIsFinal` (`EmitterProofs`), with
  nothing assumed of the order of the events. The writers only change `out`, `indent`,
  `indents`, `context` and `flowLevel`, so that each state function is reduced
  to one of three turns: it refuses, it begins or ends a node, it ends a collection
  (`Keeps`, `TurnOutcome` and the lemma of each function). The inductive invariant
  says of a stream that is not refused that the bottom of `states` is the state behind
  the document and that everything above belongs to a collection (`Nested`), and
  of a refused one that the event at the head of the queue is refused in the state
  at hand and that the emitter can see far enough to meet it (`Stuck`). The latter
  is not obvious: the function of a document's start appends tag directives before it
  finds one that is taken, so that its second attempt starts from another state than
  its first (`RefusedAgain`). `MovedIsProduced` maps each turn to a step of the grammar.

For a caller that keeps to the grammar (`EmitterCaller`), whatever the events, as long as
their tags and the prefixes of their directives are texts (`CallerIsTextual`):

* `GoodCallersAreServed`: the emitter refuses nothing, on however long and deep a
  stream, and holds nothing back once the stream has ended. This is the
  other half of the two theorems above, which say only what may be accepted. The
  caller is ahead of the emitter by what is in the queue, so the invariant
  (`Promised`) says that the queue *leads* from where the emitter is to where the caller
  is: there is a run of `EventGrammar` over exactly these events (`Leads`). Then the head
  of the queue is one that the grammar has next, and each state function is shown to
  take that (`GrammarIsAccepted`); a call cannot return at the end of the
  stream with something in the queue, since `yaml_emitter_need_more_events` asks only
  behind the start of a document or of a collection, and the end of the stream is
  neither (`HeldBackIsNoEnd`).

For a caller that keeps to nothing but types (`CallerIsTyped`, `CallerIsTextual`,
`CallerWritesText`: values, anchors and handles are texts over any alphabet, a tag is
made of characters that `TagContent` has a form for, a scalar's style is one of the six):

* `EmitterTypes`, `IndentsAreFollowed`: the types, and that the stack of indentations and
  the flow level follow the stack of states. The types are not inductive without the
  latter: `POP` of an empty stack gives anything, and a flow level counted down from
  zero is no level. The level in turn needs the nesting (`Structured`) and that
  an end is taken only where it fits (`Stuck`). A collection counts from its first turn
  on, not from the event that starts it, so `Levelled` counts the states in which
  something of the collection is written (`Begun`). Each turn is then one of three kinds:
  a node, which begins the collection around it if that is due (`NodeStep`), an end
  (`EndStep`), or one outside of the content of a document (`OutsideStep`).
* For the types of the output every writer is followed through every character
  (`WriteDoubleQuotedTyped`, `WriteFoldedTyped` and the others): what is written is text
  over known characters, the column counts them, whatever the value, its style and the
  width. The writers are passes over a value (`Pass`), recursive functions, that keep what
  their steps keep (`PassExists`).

For `as.yaml` with any object and any recogniser of implicit tags (`SerializerProofs`):

* `OutcomesHold`: a text is given out only for a stream that was written to its end, and
  an error is raised only for an object without a conversion or with an empty tag, the one
  without a reason only for the former (a failure that is not the emitter's is never
  forgotten but by the end of an unnamed list, and a refusal by the emitter has its
  problem). What
  is to do is read as a stream (`Shape`): an object that is still to be converted counts
  as one node, the elements of a list that are still to be converted as its
  end. `ObjectIsNode` and `ElementsEnd` say that what replaces them leads to the same
  place; rows, mappings and omaps are concatenations of such parts (`CollectionIsNode`).
  As long as all objects met can be converted, what is to do leads from where the
  emitter's caller is to the end (`Served`), so that the promise of
  `GoodCallersAreServed` applies and nothing is refused. For the text that is given out
  this does not help, because an overlooked failure (finding 4) breaks the stream.
  That half is `Closed`: the ends of the document and of the stream stay the last two
  items, an item is passed over only behind a failure, and a refusal by the emitter stays;
  when both were sent and the last call succeeded, the emitter has met the end.
* The hypotheses name sets rather than restrict them: `RObjects` is closed under
  what `emit_object` goes on to (elements of lists, results of handlers, cells of a data
  frame, which has names), `WrittenAs` holds the texts of its elements and names, and the
  emitter's constant `CallerEvents` is the set of events that can be made of these
  (`ObjectsAreTyped`, `TextsAreKnown`, `CallerIsAsYaml`). A tag is any text, also the
  empty one, and what several strings in the attribute do is part of it.

The loops of `MapEntries`, of `ScanText` and of the directives run over data of any length.
That they keep what their steps keep is proved by induction over the number of
iterations, in first-order form: a set that holds 0 and with each number its
successor (`UpTo`), instead of the library's theorems with operator parameters. The
same induction shows that the recursive functions are there (`LoopExists`,
`RunsExist`), since the CHOOSE behind one says nothing unless its equation has a solution.

Only model-checked, and why:

* liveness (`Terminates` and its like): fairness and ENABLED are beyond the prover;
* `MatchesDocumentation`: the result of `AssembleMap` against the documented order of
  precedence; the reference is made of folds with operators as arguments
  (`FlattenSeq`, `SelectSeq`), for which only the facts above are proved;
* `AcceptsGrammar`, `EventsAsDerived`: `TokenGrammar` is recursive, and that the
  parser accepts a sentence is a statement about all its calls in a row;
* the round trips (`RoundTrip`, `ValuesComeBack`): they compare the result of many
  calls of four components in a row, and their operators are recursive;
* that no key is added twice is false without `as.named.list` (finding 1), so
  `KeysAreUnique` excepts the keys behind a NULL value, as the run does;
* the digits of numbers (`ValuesComeBack`): the proofs take the texts of elements as given.

## 6. What is not modelled, and the plan

| Part | Why |
|---|---|
| `reader.c`, `writer.c` | decoding and encoding; planned as operators over byte sequences |
| `api.c`, the macros for growing stacks, queues and strings | allocation; all stacks and queues of the models are unbounded sequences, and no allocation fails |
| `implicit.c` | generated; its source `implicit.re` is modelled |
| R wrappers | argument defaults and file reading, no state |
| `loader.c`, `dumper.c` | compiled, never called by the package |
| `canonical` output, line breaks other than LF, escaped output of non-ASCII characters | `canonical` is never set; the other two are arguments of `as.yaml`, of which the defaults are modelled |
| warnings turned into errors | they leave the event loop by a jump; see below |

In the order of their worth:

1. `Session`: nested calls and warnings that leave the loop, the life of the parser
   and of the output buffer, the global message across calls.
2. Reader and writer encodings, and the growth of stacks and queues.
