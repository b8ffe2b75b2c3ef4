# A TLA+ model of yarutsk

yarutsk is a Python library, written in Rust, that loads YAML, lets a program
change it and writes it back with its comments, blank lines, styles, anchors and
markers. This directory holds TLA+ modules that model its components, TLC
configurations that check them on small instances, and TLAPS proofs about them.
Paths below are relative to the repository.

## 1. Inventory

Loading runs one pipeline, pulled from its end:

    str / bytes / stream -> Scanner -> Parser -> Builder -> YamlNode -> live Python tree

and dumping runs back:

    Python objects -> extraction -> YamlNode -> arena -> emitter -> str / stream

Each stage owns its state; a call of a later stage pulls as much of an earlier one
as it needs. There are no threads of the library's own: concurrency enters through
Python (shared trees and schemas under free-threaded builds, callbacks that run
user code in the middle of an operation), failure through streams that raise.

| component | state | operations | hard behaviour | what makes it correct |
|---|---|---|---|---|
| Scanner `src/core/scanner.rs` | character buffer, mark, token queue, simple keys, indents, flow level, sticky error | `next_token`, one `fetch_*` per token | a `:` turns a token already queued into a key; indentation closes several collections at once; comments are tokens in the same queue | inserted tokens land before their key; one simple key per flow level; every opened block is closed |
| Parser `src/core/parser.rs` | state, return stack, one-token slot, anchors, tags | `next_token` | empty nodes made up without input, errors that leave the automaton in the middle | well-nested events; the stack is never empty when popped; the stream ends |
| Builder `src/core/builder.rs` | frames with pending keys, documents and metadata, comments waiting for a node, last content line, anchor table | `absorb_comments`, `process_event`, `parse_iter` | comments arrive before or after their node's event; spacing is derived from marks of different kinds | frames follow the events; comments and blank lines reach one node, in order |
| Iterator `src/py/py_iter.rs` | parser, builder, `done`, error slot | `__next__` | a failed call can be followed by another; a stream error hides behind a parse error | documents come out once, in order, with their metadata; stream errors surface |
| Streams `src/py/streaming.rs` | reader: buffer, partial UTF-8, mode, `done`; writer: buffer, mode, error | `next`, `fill_buf`; `write_str`, `finish` | chunk boundaries inside a character; writes that fail | no character lost or split; nothing written after an error; earlier documents stay |
| Entry points `src/lib.rs` | none | `load*`, `iter_load*`, `dump*` | lookahead of one item, a document at a time | separators and partial output as documented |
| Live tree, bridge `src/py/live.rs`, `convert.rs`, `py_*.rs` | slots with inline scalars, aliases or Python handles | `node`, item access, mutation, `extract_*`, `materialise_*` | promotion on first access, identity of aliases, cycles, callbacks | one object per slot; mutations reach the tree; cycles are refused |
| Sorting `src/py/sort.rs` | entries taken out of the mapping | `sort_mapping` | key functions and comparisons that raise | a permutation of the entries, comments with them |
| Schema `src/py/schema.rs` | loaders, dumpers, `frozen` | `add_loader`, `add_dumper`, `freeze_schema` | binding and registering at the same time | nothing changes once bound |
| Emitter, arena `src/core/emitter.rs`, `arena.rs` | work list, arena | `from_yaml`, `run` | iteration in place of recursion, markers between documents | output order is tree order; documents stay apart |
| Data model `src/core/types.rs`; style strings, debugging | - | - | - | - |

`PROJECT.json` lists the same components with their status, and under `hazards`
the places where each can go wrong.

## 2. Modules

* **Scanner** - the tokenizer. `scanner` is `struct Scanner`; one action is one turn of
  the loop of `fetch_more_tokens`, which fetches a word or delivers the head of the
  queue, and each fetch function is an operator on the state. The text is chosen while
  it is read: a word, and the blanks, line breaks and comments before it (`Gaps`).
  `ahead` remembers what a fetch function has looked at beyond its word, so that the
  next word agrees with it. `StaleSimpleKeys` uses a column instead of a character
  index, which is the same on the line a key must stand on. `brackets`, `tidy`, `flat`
  and `nest` are for the properties only: what the text's own brackets and the delivered
  tokens say is open. An error ends the scanner, as it does in the code.
* **EventStream** - what the event layer promises: the sequences of events a
  consumer may see. State: `phase`, `nest` (the path of open constructs) and the
  last `event`.
* **Parser** - the pushdown automaton of `parser.rs`, one action per call of
  `next_token`, i.e. per handler. `state`, `states`, `anchors` and `tags` are the
  fields of `Parser`; `cur` is the token slot with the scanner's progress. Tokens are
  chosen when a handler peeks, so a behaviour covers *every* token sequence, also
  ones no scanner delivers. A call that fails keeps what the handler had changed and
  the caller may go on. `Open` is the refinement mapping to EventStream: what the states on the stack stand for
  (`Held`, `Below`) and what the current state does (`At`).
* **Builder** - `builder.rs`, driven by EventStream (which Parser implements), one
  action per turn of the loop of `parse_iter`: comments are absorbed, then the event
  is processed. `builder` is `struct Builder`, with `meta` holding the metadata of
  the nodes in the order they begin. `src` is the source text as far as marks tell
  of it: which lines hold content and comments, whether the next token has been
  peeked. `ReadTo` and `Readable` say where tokens and comments may lie and which
  comments a call has read by the time its event is processed: the scanner queues the
  comment behind a quoted scalar, a block scalar's header or a flow indicator before
  the token itself. A comment is named by its line.

* **LoadStream** - loading from a Python stream or a string: `PyIoCharsIter`
  (`reader`, one action per call of `read_chunk`, with its error `slot`), the
  characters the scanner pulls ahead of its tokens, and the three callers:
  `__next__` of the iterator (`IterTurn`), `parse_stream` and `parse_stream_first`
  with `do_load` (`LoadTurn`). A turn of a caller's loop is one `NextToken`. The
  stream may return any chunk, text or bytes, may cut characters and may fail at any
  call. Tokens are cut down to scalars (a quoted one is several characters, so that a
  failure can strike inside it), document markers and errors; an error of the scanner
  is sticky, as it is in the code.
* **DumpStream** - `do_dump` and `do_dump_all` to a stream. `pulled` and `at` are the
  position in the iterable and in the documents; `writer` is `PyStreamWriter`; `rest`
  is what the emitter has still to write of a document, fragment by fragment. The
  iterable, a conversion and any write may raise; a write that raises may have
  written a part.
* **Arena** - `ArenaDocument::from_yaml`, one action per task. `lower` holds its local
  variables, the stacks `tasks`, `completed` and `keys`, the arena `nodes` and the names
  in `anchors`. The tree is chosen as it is visited. Nodes and scalar keys are numbered
  in the order of the tree, so that the properties can tell where each has gone. A root
  is no alias, nor does an alias stand for another one. A collection has either style
  wherever it stands, and a block scalar may stand in a flow collection: a program can put
  it there, and so does an alias that takes the place of its anchor (`RestoreAnchor`).
* **Emitter** - `emit_docs_to`: the documents are lowered, then written by
  `ArenaEmitter::run`, one action per operation of its work list `ops`. `out` is the
  text: lines of pieces with widths. What the code writes aside and strips of its last
  line break (`emit_inline_to_temp`) is written in place, followed by `Strip`. `TypeOK`
  says of each operation what the code's `unreachable!()` arms rely on: its node is in
  the arena and a mapping, a sequence or an entry's value as the operation has it.
* **MappingPromise** - what a mapping promises: entries change one at a time and only
  when a program asks.
* **LiveMapping** - the scalar entries of a `YamlMapping` and the calls on them, one
  action per borrow of the mapping's cell, by several threads. `slot` is `LiveNode`
  and `heap` the `PyYamlScalar` objects node(key) has promoted slots into. A
  `setting` says whether there is a GIL and whether key functions may raise. With the
  GIL a thread gives way only where Python code runs; without it, between any two
  borrows, and a call that meets another borrow fails. `Doc` is the refinement
  mapping to MappingPromise.
* **ParserProofs**, **BuilderProofs**, **ScannerProofs**, **LoadStreamProofs**,
  **DumpStreamProofs**, **LiveMappingProofs**, **EmitterProofs** - their theorems.
* **SequenceFacts** - lemmas about sequences, recursive functions and finite sets that
  several of these proofs need.
* **MCScanner**, **MCBuilder**, **MCEmitter**, **MCLive** - the texts, trees and settings
  the runs choose from. A run starts in any one of them, so that one run covers short
  inputs of every form and longer ones of the forms that belong together.

Composition: Scanner delivers the tokens Parser chooses from; Parser accepts any token
sequence, so it relies on nothing the scanner promises, while `TokensNest` shows what the
scanner does promise. Parser implements EventStream and Builder is driven by EventStream.
The module Emitter extends Arena: documents pass from one to the other.
LoadStream abstracts the pipeline to the point where a document is complete; LiveMapping
implements MappingPromise.

The definitions headed "Fault for the checks" are seeded faults: each property is
also run against a model with one definition replaced by such a fault, and must fail.

## 3. Runs

| run | module, configuration | bounds | properties |
|---|---|---|---|
| scanner | MCScanner, MCScanner | eight kinds of text: every word in texts of two; flow words in texts of five and six; block words in texts of five on three lines; mixed ones; simple keys of up to 8 columns | `TypeOK`, `StacksConsistent`, `KeysAreQueued`, `CommentsInOrder`, `RequiredKeysAreKept`, `TokensNest` |
| parser | Parser, MCParser | one name for anchors, one tag handle, stack up to 2 when a container opens, one failed call | `TypeOK`, `StackDiscipline`, `EventsWellNested` (refinement of EventStream), `DocumentsAreSeparated`, `StreamEndIsReached` |
| builder | MCBuilder, MCBuilder | five kinds of text: every form of node with 4 nodes, depth 2, 2 lines, 1 comment, 2 documents, 1 anchor; plain, quoted and block scalars in block collections with 4 nodes, 4 lines, 2 comments, 2 keys; the same in two documents, with 3 comments; repeated keys with 3 comments; items six lines apart. A count of blank lines stops at 2 | `TypeOK`, `StackFollowsEvents`, `DocsAligned`, `AliasesResolve`, `CommentsOnceInOrder`, `InlineOnOwnLines`, `BlankLinesAreReal`, `ItemsKeepBlankLines` |
| load | LoadStream, MCLoad | 5 bytes in chunks of up to 2, characters of one and two bytes, the lead byte of three, continuation bytes out of place; quotes; all callers, streams and strings; conversions may fail | `TypeOK`, `EveryByteDecodedOnce`, `DocumentsAreWhole`, `OneDocumentAtATime`, `StreamErrorIsFinal`, `CallsReturn` |
| dump_stream | DumpStream, MCDump | 3 documents of up to 3 fragments and their marker, a buffer of 2 | `TypeOK`, `NoFragmentLost`, `EarlierDocumentsRemain`, `SuccessIsComplete` |
| emitter | MCEmitter, MCEmitter | ten kinds of tree: shapes of up to 6 nodes, flow with block collections and block scalars in it, comments, keys that are nodes, long or block scalars, anchors and aliases under two names, two documents with markers | `TypeOK`, `LoweredWhole`, `WrittenOnceInOrder`, `CommentsInPlace`, `AliasesFollowAnchors`, `EntriesAligned`, `FlowHoldsNoBlock` |
| live | MCLive, MCLive | two threads, two calls each, two keys; the GIL with key functions that return, and no GIL with ones that may raise | `TypeOK`, `HandlesAreLive`, `PromiseKept` (refinement of MappingPromise), `NodeIsStable` |

Words of a text: five block words on three lines hold a collection in a collection and
a dedent that closes both; six flow words hold a bracket inside a bracket and a pair.
A line shorter than the real limit of 1024 characters shows a key on either side of it
because a plain scalar may be `KeyLimit` + 1 wide.

The automaton looks only at the top of its stack, so a container in a container in a
document shows every pair of a state and the state it returns to; one anchor is
enough because anchors are looked up by name and never removed. For the builder
four nodes give a collection with a key and a value beside another item, or three
items; four lines give every order of a comment, a blank line and content between
two nodes. `count_blank_lines` clamps its result to 255, to fit a `u8`; the model clamps
to the constant `BlankLimit`, which the run sets to 2, so that a gap can be longer.

Five bytes hold two documents with a marker between them and a character cut at any
place; with chunks of two, a chunk can hold the end of one character and the beginning
of another, or decode to nothing. A buffer of two fragments fills inside a document and
is left with something at its end. A document is complete when the next marker or the end is
seen, so more documents repeat what two show. For the mapping, two calls of two
threads give every pair of calls interleaved and every pair in sequence; a second key
shows what a sort does to an entry nobody else touches.

Trees of six nodes hold a collection in an item of a collection with something on either
side. Comments, anchors and special keys are combined with smaller trees: where each is
written depends on its node, the entry it is in and the collection around that.

All runs but the parser's switch deadlock checking off: the end of the text, the bounds on
lines and nodes, the end of the only call and the bound on calls stop them.

Five further runs show where the code does not do what the repository says:

| run | property | what happens |
|---|---|---|
| comment_at_end | `NoCommentLeftOver` | a comment on a line of its own below a document of one scalar is lost |
| scanner_pairs | `PairsNest` | `[a: [b]]`: the mapping made of the pair is closed before the inner sequence, and the text is rejected |
| emitter_indent | `EntriesAligned` | with an indent of four, `- a: 1` goes on with `b: 2` two columns further in |
| emitter_keys | `AliasesFollowAnchors` | a block collection that is a key loses its anchor, the aliases to it stay |
| live_sort | `FailureChangesNothing` | `sort_keys` whose key function or comparison raises leaves the mapping empty |

Other disagreements that the models show, without a run of their own:

* A node has one slot for an inline comment; of two that compete for it the second is
  dropped (`attach_inline`, `builder.rs:273`).
* The scanner gives no end line for a wrapped quoted scalar (`scanner.rs:2100`), so its
  continuation lines count as blank lines above the next node: `BlankLinesAreReal` fails
  when the forms hold "wrapped". The bracket of a flow collection alone on its line
  counts in the same way; the writer ignores what is recorded for it.
* Blank lines above an alias item are not recorded (`builder.rs:771`):
  `ItemsKeepBlankLines` leaves texts with anchors out.
* `... # c`: the comment waits inline (`builder.rs:270`) and goes to the first scalar of the
  next document. `InlineOnOwnLines` names this exception: a comment on a line with content
  but without a node.
* The inline comment behind the value of a repeated key goes to the mapping's last entry
  (`builder.rs:270`), or waits for it if the value is a quoted scalar, whose comment is read
  ahead. `InlineOnOwnLines` names this exception too (`IsPassedOver`), and for no other node
  may a comment leave its line.
* A chunk is decoded as a whole (`streaming.rs:151`), so an invalid byte behind a first
  document that is complete makes `load` fail, though docs/api.md:22 says that later
  documents are not validated.
* A stream that fails inside a token: `__next__` returns the ParseError of the text so far
  before it looks at the error slot (`py_iter.rs:58`), and the scanner's error is sticky,
  so the error of the stream is never raised, though streaming.rs:27 says it is stored "so
  the caller can surface" it.
* Without the GIL, two threads in node(key) for one entry: the slot is tested in one borrow
  and promoted in another (`convert.rs:884`), and the second promotion makes a null of
  the handle it finds.
* `- # c`, an alias on the next line, then another item: the comment waits for a scalar
  and goes to the later item (`builder.rs:671`).
* A collection of block style inside a mapping of flow style, and a block scalar inside any
  flow collection, are written in block form between the brackets: only items of flow
  sequences are converted (`emitter.rs:1454`, `1648`, `1791`, `1800`). A program can build
  such a tree, and `RestoreAnchor` makes one of `a: &x [...]` in block style and `b: {c: *x}`
  when `a` is deleted (`arena.rs:136`). The run emitter writes such trees;
  `FlowHoldsNoBlock`, `CommentsInPlace` and `EntriesAligned` are about the documents
  without them (`FlowFits`), while `TypeOK`, `LoweredWhole`, `WrittenOnceInOrder` and
  `AliasesFollowAnchors` hold of them too.
* Comments inside flow collections, on nodes that are keys and behind a root collection
  are never written.
* `RestoreAnchor` overwrites an anchor of another name (`arena.rs:116`), and `anchors` knows
  names only (`arena.rs:136`): aliases to the other name dangle, and an alias to a name
  that another node has taken over refers to that one.
* After node(key) has promoted an alias, `get_alias` does not name it any more
  (`py_mapping.rs:412`).
* `set_alias` on an entry that is an alias nests one in the other, and node(key) then
  returns a plain value (`live.rs:145`; docs/api.md:269 promises a node).

In the run builder `BlankLinesAreReal` and `ItemsKeepBlankLines` are about texts of plain,
quoted and block scalars in block collections without anchors (`Plainly`): wrapped scalars,
flow collections, anchors and indicators on lines of their own break them in the ways listed.
Empty nodes are left out there because the code deliberately infers no spacing from them.
`InlineOnOwnLines` is about the same texts, and about those with repeated keys.

## 4. Fairness

Two properties are about liveness. In Parser, `FairSpec` asks weak fairness of
`NextToken`: parse_iter calls `next_token` in a loop until StreamEnd or an error, so
a call that is possible is eventually made. Nothing is assumed of the scanner: the
property starts when it has delivered StreamEnd.

In LoadStream, `FairSpec` asks weak fairness of the steps inside a call: the code runs
them in loops without waiting for anything but `read()`, which is assumed to return or
raise. Nobody has to make a call, so `Call` has no fairness. `CallsReturn` then says
that no call loops for ever on chunks that decode to nothing; `MaxInput` bounds what a
stream holds, as a finite file does.

In LiveMapping, `FairSpec` says that a call that has begun goes on; only the run
live_sort uses it, so that its counterexample is a call that ends.

## 5. Proofs

All theorems hold for every value of the constants that the named assumptions of the
modules allow: any sets of names, keys and texts, any bounds, any streams, documents
and numbers of threads. Every property below is also checked by a run, on small
instances.

A property is seldom inductive as it stands; for each module an invariant is proved
that is, and the properties follow from it. Where a component's operations are functions
of its state (Scanner, Builder), the lemmas speak of states and the invariant is only
lifted to the specification at the end.

`SequenceFacts` holds what the library does not: how sequences split at their ends and
compose, what one step of a recursive function over a sequence adds, and induction over
the natural numbers and over sequences. The library states induction for an operator,
which cannot be passed on here; `InductionOverSet` and `SequenceInduction` state it for
a set - of the numbers, or of the sequences, for which the statement holds.

### The parser

`ParserProofs` proves

* `TypeCorrect`: `Spec => []TypeOK`,
* `StackSafe`: `Spec => []StackDiscipline`,
* `WellNested`: `Spec => EventsWellNested`, the refinement of EventStream,
* `BoundariesSeparate`: `Spec => []DocumentsAreSeparated`.

`StackDiscipline` alone is not inductive: a handler that returns into the state on
top of the stack needs to know that this is a state that runs inside a document, or
DocumentEnd when the stack has one element, and parse_node pops a stack its caller
may just have pushed on. The invariant `Inv` therefore says of `state` and `states`
together what they may be, with the types of the other variables. `PopControl` and
`PushStack` say that popping and pushing keep it, `ParseNodeInv` covers parse_node
for any stack its callers prepare, one lemma covers each handler, and `NextInv`
joins them.

For `WellNested` a state on the stack stands for a construct that awaits a node; popped,
the same state stands for the construct with that node complete. So `Path` is `Below`,
what the stack says, followed by `At`, what the current state says, and a handler has
to be matched with one event of the grammar only. `Turn` says what that is for a call
inside a document: a leaf, the start of a collection, the end of one. Calls between
documents have lemmas of their own (`Crossing`). The theorem speaks of behaviours up to
the first call that fails, as the property does: after a failure the caller has been told
that the sequence is broken.

For `BoundariesSeparate` the invariant `Separation` says that the parser is back in
ImplicitDocumentStart only after an explicit `...`, and that after a document ended
implicitly the token slot still holds the token that showed it, which is no directive.

### The builder

`BuilderProofs` proves

* `TypeCorrect`: `Spec => []TypeOK`,
* `StackFollows`: `Spec => []StackFollowsEvents`,
* `DocumentsAlign`: `Spec => []DocsAligned`,
* `AliasesAreKnown`: `Spec => []AliasesResolve`,
* `CommentsKeepTheirPlace`: `Spec => []CommentsOnceInOrder`,
* `BlankLinesExist`: `Spec => []BlankLinesAreReal`,
* `ItemsKeep`: `Spec => ItemsKeepBlankLines`.

Whatever an operation does to comments, lines and metadata, to what is *open* it does one
of three things: nothing (`Alike` and `Rest`), completing a node (`Completes`: a root, a
value, an item or a complex key), or opening a collection (`Opens`). The end of a
collection pops a frame (`Pops`) and completes the node it stood for. One lemma per
operation says which; the four parts of the invariant `Good` then have to survive these
three only. `Shape` (a path of events begins with its document, and only collections
follow) is needed because popping the frame must reveal a construct that awaits a node;
`Aligned` needs `nextMeta`, the document that has been announced and has no root yet;
`Resolves` knows where a name is while its collection is open, on the frame. The kind of
a frame is part of `HasKey`: a sequence has no pending key (`Frame::Mapping(mf) if
mf.pending.has_key()`).

Comments stand on nodes, on frames, in the slots of the builder and, within an operation, in
its hand. The invariant `Neat` counts them all. `Once`: a comment has one place.
`Sorted`: each place is that of a node, or of the node a frame will have (`Target`: a mapping
with a pending key keeps the comments of the value to come), and the comments of an earlier
node come before those of a later one and before those that wait. `Known`: all of them have
been read, so that the next ones come behind. `KeysFirst` is what makes a new entry safe: a
mapping that awaits a key has no comments left for a value.

The invariant `Level` is about texts that satisfy `Plainly`. `InStep` and `Behind` say how far
the builder's `last_content_line` may be from the source: no content lies between them but a
token the scanner holds, and the comments there still wait, so the comments taken
before a node are all that the gap above it has besides blank lines. The clamp makes a count
smaller only (`Clamped`), for any `BlankLimit`. `Funded` is an account:
the blank lines kept on nodes and frames are no more than the free lines behind the builder.
Counting a gap moves the builder past it and pays for what is kept (`Balanced`); taking blanks
from a frame to a node moves them only. `ItemsKeep` adds `AtScalar`: behind a scalar the
builder stands on that scalar's last line.

### The scanner

`ScannerProofs` proves

* `TypeCorrect`: `Spec => []TypeOK`,
* `StacksAgree`: `Spec => []StacksConsistent`,
* `KeysStayQueued`: `Spec => []KeysAreQueued`,
* `CommentsStayInOrder`: `Spec => []CommentsInOrder`,
* `RequiredKeysStay`: `Spec => RequiredKeysAreKept`, about steps.

Between two calls the scanner is `Fresh`, `Steady` or `Finished`. `Steady` is `Sound` and
`Keyed`. `Sound`: one simple key per flow level and one for the block, indentations that
rise (`Rising`), a queue in the order of its lines (`Ordered`), and no possible key on a
line that has been left (`Passed`). `Keyed`: a possible key leads, over comments only, to
the token it was saved for; those comments stand no higher than the key; the place of an
inner key lies behind the token of the outer one. `KeysAreQueued` alone is not inductive
because `insert_token` moves what lies behind its place: it needs the order of the places
of several keys, and what may stand between a place and its token.

Inside a fetch function the invariant is suspended: a key has been saved whose token is
not queued yet. `Ready` is the state of the scanner then: whatever comments come before
the token, the state is `Steady` once it is there. `Quiet` is a method that only queues
comments and gives keys up, `Grows` one that queues tokens, `After` one that inserts, and
leaves the queue before its place as it is. `Near` is used for block collections: outside
flow collections a possible key stands on the mark's line, so the indentation that
`fetch_value` rolls to is a column of that line.

`RequiredKeysAreKept` has an invariant of its own, `KInv`, and a relation `Met` of the
scanner before and after a step. `KInv` adds `Due`: the only key that can be required is the
one of the block level, because `required` is set outside flow collections alone; it is on
no later line than the mark; and where a key may be saved it stands on an earlier line, so that
`stale_simple_keys` raises before `save_simple_key` or `remove_simple_key` reaches it. `Met`
says that the scanner failed, or `Due` holds again and each required key is still in its
place or has its Key in the queue. The last case is `fetch_value`'s alone: the fetches of
nodes and indicators keep the key (`Held`), and those that allow a key again must have
failed or raised it before (`Cleared`). Blanks and comments move the mark, and a new line
may allow a key (`Moves`), but then the old key is on an earlier line.

### The iterator

`LoadStreamProofs` proves

* `TypeCorrect`: `Spec => []TypeOK`,
* `BytesAreDecodedOnce`: `Spec => []EveryByteDecodedOnce`,
* `DocumentsAreDelivered`: `Spec => []DocumentsAreWhole`,
* `OneAtATime`: `Spec => []OneDocumentAtATime`,
* `ErrorIsFinal`: `Spec => StreamErrorIsFinal`,

for every alphabet, chunk size and stream. The invariant `IInv` has one part per stage.
`Reads` says that the bytes read are the characters decoded and the part of one that is
kept; it rests on lemmas about the recursive function that decodes (`Decode`), which say
how the characters of two chunks compose wherever the cut is. `Pulled` says what the
scanner has taken of those characters, and `Calls` what each caller has been given: the
documents of the text so far (`DocumentsOf`), of which the builder holds the rest
(`Parsing`), or an error (`Broken`). `ErrorIsFinal` rests on an invariant of its own: an
iterator that has raised the stream's error is done, runs no call, and answered last with
the error or a stop.

### The writer

`DumpStreamProofs` proves

* `TypeCorrect`: `Spec => []TypeOK`,
* `FragmentsAreKept`: `Spec => []NoFragmentLost`,
* `FailureKeepsDocuments`: `Spec => []EarlierDocumentsRemain`,
* `SuccessMeansAll`: `Spec => []SuccessIsComplete`.

The invariant `IInv` has the types and four facts. `Whole`: until a write raises, what the
destination has, what is in the buffer and what the emitter still holds make up the text
of the documents begun, and afterwards the destination is a prefix of it. `Settled`: that
text does not change any more, because whether another document follows is known when one
begins. `Control` ties the writer's error to the outcome, and the empty buffer to the time
between documents. `Before`: in a document or after a failed write, the earlier documents
are in the destination.

### The mapping

`LiveMappingProofs` proves, with the GIL and without, with key functions that raise and
that do not,

* `TypeCorrect`: `Spec => []TypeOK`,
* `HandlesStayLive`: `Spec => []HandlesAreLive`,
* `NodeStaysTheSame`: `Spec => NodeIsStable`, which speaks of settings with the GIL,
* `PromiseIsKept`: `Spec => PromiseKept`, the refinement of MappingPromise.

`HandlesAreLive` speaks of the slot of a key and of what was handed out for it. A step
that deletes, sorts or promotes keeps it only if the order names exactly the entries
that exist, each once, also while a sort has them drained (`Ordered`); if only the
thread in its key function sorts, and every pending call knows its key (`Pending`); and
if a fresh handle is one that no slot and no caller refers to (`GivenOut`). With the
types (`Typed`) these parts make the invariant `Inv`: one lemma per action, with
`StoreInv` for the two calls that replace an entry, `RefusedInv` for calls that fail at
once, and `Quiet` for the borrows that only read.

`NodeIsStable` needs the scheduler: `Alone` says that a thread between two borrows holds
the GIL and that, when it is about to promote an entry, the entry is still inline.
Without the GIL a promotion can meet an entry that another thread has promoted (section
3).

`PromiseIsKept` maps the entries of the mapping, seen through their handles, to those of
MappingPromise, for settings with the GIL and key functions that return. Two entries never
share a handle, or a setter would change both (`Separate`); what an assignment has read of
the old entry in an earlier borrow is still so when it writes (`ReadIsCurrent`, which
needs the GIL as `Alone` does). `Guarded` joins the three.

### The arena and the emitter

`EmitterProofs` proves, for every tree that is lowered and written,

* `LoweringIsWhole`: `Spec => []LoweredWhole`,
* `TypeCorrect`: `Spec => []TypeOK`,
* `FlowStaysFlow`: `Spec => []FlowHoldsNoBlock`.

`from_yaml` drains its stacks by counts that were fixed when a collection was visited, with
the tasks of all its descendants in between. `LoweredWhole` speaks of the end only; what is
inductive is an account of the tasks that are left. `Takes`, `Gives`, `TakesKeys` and
`GivesKeys` say what a task, with all it leads to, does to the two stacks, and `Path` says
that a sequence of tasks always finds what it takes. `Bound`: the tasks on the stack are a
path from the stacks as they are to at most one node and no key. A visit replaces itself
by tasks that make the same path (`CollectionFits`, with `EntriesPath` for the entries of a
mapping, whose keys may be nodes or not). `Forest`: a node comes behind its children and
has one parent, or none and is on the stack of completed nodes, once. A Finish task names
exactly the last of those (`EntriesName`: entries take one or two each, and no node is left
over), so the forest stays one (`ForestGrows`); in the end it is a tree (`ForestTree`).

For `TypeOK` an operation must find its node when its turn comes, after the operations
pushed since (`GoodOps`). The children of a node are in the arena because it is a tree
(`ChildAt`), a document's arena does not change once it is there (`ArenasStay`), and the
arms of `DoDocument` leave no root out because a root is no alias (`RootsGood`, by
`RootFirst`: until the tasks are done, the first of them is the root's own). One lemma per
operation shows that each of its arms pushes such operations, and that no value or item is
without an arm (`EveryKind`).

`FlowHoldsNoBlock` speaks of the text, line by line, for documents that `FlowFits`: around
each flow collection there is a set of nodes that can be written between brackets with all
below them (no block scalar, and in a mapping no value or key that is a block collection;
an item of a sequence may be one). What excludes other documents is said of the trees, where
section 3 shows that the code writes block style; nothing is assumed of what `run` does.
`Inside` is the largest such set, and every node in flow style is in it (`FitsInside`).
`Brackets(out, d)` says that the last line has d brackets open, all other lines none, and
that no entry and no block scalar's header comes after a bracket that is open;
`Nested(ops, d, nodes)` that the stack closes just these d, and that every operation that
comes before a bracket is closed is one whose text can stand there (`Flat`), on a node that
is `Inside`. An operation may push only what `Bears` allows at its depth (`OpNests`); the
one place where the two styles meet is `DoSequenceFlowItem`, which writes an item in block
style as if it were in flow style (`SequenceFlowItemNests`), and in a mapping there is no
such arm, which is why `Inside` treats the two differently. When everything is written the
stack is empty, so no bracket is open. `FlowFits` is no invariant: a further document may
break it, and then the property has nothing more to say (`FitsBefore`).

### Only model-checked

* Liveness (`StreamEndIsReached`, `CallsReturn`), which is out of the provers' reach.
* The scanner's `TokensNest`.
* Of Builder, `InlineOnOwnLines`.
* What else the emitter's text looks like: `WrittenOnceInOrder`, `CommentsInPlace`,
  `AliasesFollowAnchors`, `EntriesAligned`.

## 6. What is left

What `WrittenOnceInOrder` and the other properties of the emitter's text say is a fold over
a tree of any depth, and is not proved.

Not modelled:

* Sequences of the live tree, container children, `update`, extraction with its cycle and
  anchor bookkeeping and the drop worklist (`convert.rs`, `py_sequence.rs`, `live.rs:53`):
  the mapping's calls show the same borrows on one level, and the rest needs a model of
  Python's object graph.
* The schema: `add_loader` tests `frozen` and registers under separate borrows
  (`schema.rs:146`), which matters to free-threaded builds only.
* Scalar typing, equality of keys and format conversions (`types.rs`), quoting, wrapping
  and number formatting in the emitter, escapes and tag spelling in the scanner: functions
  on text that the repository's tests reach.
* The string sinks of `dumps` and `dumps_all`, which cannot fail; argument checks; the
  recursive `Emitter` methods, which are compiled for tests only.
