# PotentCodables in TLA+

PotentCodables is a Swift library of codecs (JSON, CBOR, ASN.1 and YAML) built on one tree encoder and
one tree decoder; for YAML it vendors libfyaml, a C library with a scanner, a parser, an emitter,
documents, path expressions and a thread pool. Three things are hard about it, and the project is
about them:

- the order of calls. A `Codable` value is foreign code that is handed an encoder or a decoder, opens
  containers, nests them, keeps them, throws, catches, and calls back, while the library keeps stacks,
  coding paths, cached containers and captured indices that have to stay in step;
- what is decided before it is known. The scanner of libfyaml learns that a token was a key when it has
  already queued what follows, the emitter learns what a collection is when it has the next event, an
  alias means the last anchor of that name;
- threads. The pool of libfyaml hands works from thread to thread with single compare-and-exchanges.

The models let the client, the text, the document and the scheduler do anything the code admits, and ask
what still holds. Paths are relative to the repository; `Sources/PotentCodables/ValueEncoder.swift` is
shortened to `ValueEncoder.swift`, and `Sources/Cfyaml/src/lib/fy-parse.c` to `fy-parse.c`.

## The parts of the system

| Part | State | Operations | Talks to | Hard about it | Correct when |
|---|---|---|---|---|---|
| ValueEncoder | container stack, coding path, finalizers per encoder; key and index captured by each nested container | encode primitives and values, open containers, nested containers, super encoders; `deinit` writes back | the value's `encode(to:)`, the `Transform` of the codec, ARC | nested containers are written back when they are deallocated, where nothing can be thrown | the tree has what was asked for, in that order; every error fails the session; nothing traps |
| ValueDecoder | value stack and coding path per decoder, index per unkeyed container | decode as primitive, value, dictionary or array; nested containers, super decoders | `init(from:)`, the `Transform` | one decoder object is lent to all nested calls; errors may be swallowed | a value is read where the coding path says; indices stay in bounds; a failure consumes nothing |
| SchemaState, ASN1Decoder, ASN1Encoder | stacks of keys and possible schemas, scopes and containers by coding path | step into a key, expand a schema, drop keys; unbox; box and roll up | ValueEncoder, ValueDecoder | reused between calls for whatever the two coding paths share; steps throw half-way | a value meets the schemas of its own path; what is written is read back field by field |
| CBOR reader and writer | position in the stream, loops that are running | `CBORSerialization.cbor`, `data`, `encodeStream` | CBOR transforms | definite and indefinite items nest; breaks; keys that become equal | a stream is read as the grammar says; an item written is read back |
| Scanner of libfyaml | indents, flow collections, simple keys, queue of tokens | `fy_fetch_tokens`, `fy_scan_peek` | the text, the parser | a token becomes a key after others were queued behind it; stale keys are removed lazily | no internal error; indents and brackets are those the parser has open |
| Parser of libfyaml | state, stack of states | `fy_parser_parse`, `fy_parser_reset` | scanner, YAMLReader, loaders | runs behind the scanner; resets; streamed aliases | its events are the tour of well-formed documents; it comes to an end |
| Emitter of libfyaml and YAMLWriter | queue of events, state, stacks of states and of saved contexts, column | `fy_emit_event` | YAMLWriter | writes before it knows what follows | what it writes is parsed to the events it was given |
| Documents of libfyaml | nodes, pairs, anchors | builder, recursive loader, resolve, clone, editing, composer, streaming | the parser's events | anchors are put on again; merges change what is walked; copies are not told their parents | what is resolved is what the text means; every node is owned by exactly one |
| Scalars of libfyaml | atom, room for its text, pending breaks and blanks | `fy_scan_*_scalar`, `fy_atom_iter`, `fy_token_get_text`, `fy_atom_cmp`, `fy_emit_token_scalar` | scanner, emitter | the room is counted by one pass and filled by another; text is folded when written and when read | the text is what the source means; what is written is read again |
| Paths of libfyaml | parser of expressions, walk results, path text | `fy_path_expr_build`, `fy_path_exec`, `fy_node_by_path`, `fy_node_get_path` | documents | an operator's meaning depends on what was pushed before it | an expression finds what it means; the path of a node leads back to it |
| Thread pool of libfyaml | free bits, works in hand, pools with counters, offers | `fy_thread_work_join`, stealing and standard mode, shutdown | its client's works, which join further works | nested joins, works stolen while their owner takes them back, lost wakeups | each work is executed once, a join returns when its works are finished |
| DER, JSON and YAML readers and writers, transforms of CBOR, JSON, YAML and AnyValue | cursor | box and unbox per type | ValueEncoder, ValueDecoder | conversion at the limits of types | round trip of each type |
| Refs, KeyedNestedEncoder/Decoder, KeyStrategy, support types | index of allowed types (static) | forward calls | any encoder | shared index | the value decoded is of the type encoded |

## Modules

| Module | Models |
|---|---|
| `ValueEncoder` | `ValueEncoder.swift`: an encoding session |
| `OrderedTree` | what an encoding session promises, without storages and paths (abstract specification) |
| `ValueDecoder` | `ValueDecoder.swift`: a decoding session over a document |
| `SchemaState` | `SchemaState.swift`, and what `Schema.swift` says of tags and defaults |
| `ASN1Decoder`, `ASN1Encoder` | the transforms of `ASN1Decoder.swift` and `ASN1Encoder.swift`, each EXTENDS `SchemaState` |
| `CBOR`, `CBORReader` | items and symbols; `CBORReader.swift` and `CBORStream.swift` |
| `CBORGrammar` | all streams that hold an item, built without reading |
| `CBORSerialization` | `CBORWriter.swift`; reading any stream, writing the item, reading it back |
| `FyScanner` | `fy_fetch_tokens` of `fy-parse.c` and what it calls |
| `FyParser` | `fy_parse_internal` of `fy-parse.c`, EXTENDS `FyScanner` |
| `FyEvents` | what a reader of the events relies on: the tour of well-formed documents (abstract specification) |
| `FyEmitter` | `fy-emit.c` as `YAMLWriter.swift` drives it, EXTENDS `FyScanner` for the lexemes it writes |
| `FyRoundTrip` | writer, emitter and parser together: the text that was written is read |
| `FyAtoms` | `fy-atom.c`: the iterator that makes the text of a token line by line, and the comparison of texts |
| `FyScalars` | the scanners of plain, quoted and block scalars in `fy-parse.c`, EXTENDS `FyAtoms` |
| `FyScalarWriter` | `fy_token_text_analyze`, the choice of a style and the writing of a scalar in `fy-emit.c`, EXTENDS `FyScalars` |
| `FyNodes` | the heap of nodes, pairs and anchors of `fy-doc.c` and the helpers on it |
| `FyLoaders` | `fy-docbuilder.c` and the recursive loader, EXTENDS `FyNodes` |
| `FyResolve` | `fy_document_resolve`: aliases, merge keys, loops |
| `FyEditing` | clones, and every public operation that changes a tree |
| `FyIterator` | `fy_document_iterator`: the events of a document that is in memory |
| `FyComposer` | `fy-composer.c`, `fy_parse_compose` and the paths a callback is shown |
| `FyStreaming` | `FYPCF_RESOLVE_DOCUMENT`: anchors collected from the event stream and replayed |
| `YamlMeaning` | what a document means, told from its tree and not from the algorithms (reference definition) |
| `FyDocument` | loaders, resolution, composer, streaming and editing on one document at a time |
| `FyPathExpr`, `FyWalk` | the parser of ypath expressions; the walk that executes them (`fy-walk.c`) |
| `YPathMeaning` | what an expression means (reference definition) |
| `FyPaths` | a client that looks up expressions, paths, references and JSON pointers |
| `FyThreadPool` | `fy-thread.c`: workers, both joins, futex words, shutdown |
| `ForkJoin` | what `fy_thread_work_join` promises (abstract specification) |
| `ValueEncoder_proofs`, `ValueDecoder_proofs`, `FyScanner_proofs`, `FyParser_proofs`, `FyParserScan_proofs`, `FyThreadPool_proofs` | the theorems and their lemmas |
| `MC...` | the instances that TLC checks, with their `.cfg` files |

Which composes which: `FyScanner` is extended by `FyParser` and by `FyEmitter`; `FyRoundTrip` extends the
first and instantiates the second. `FyNodes` ← `FyLoaders` ← `FyResolve` ← `FyEditing` and `FyLoaders` ←
`FyIterator` ← `FyComposer`, `FyStreaming`; `FyDocument` extends `FyEditing`, `FyComposer` and `FyStreaming`.
`FyAtoms` ← `FyScalars` ← `FyScalarWriter` ← `MCFyScalars`, which also says what scalars mean. `FyWalk` extends `FyLoaders` and `FyPathExpr`, `FyPaths`
extends `FyWalk`. `MCCodecs` runs one session of `ValueDecoder`, `ASN1Decoder`, `ASN1Encoder` or
`CBORSerialization`.

### ValueEncoder and OrderedTree

One session is one `encodeTree`. `calls` is the stack of activations of `subEncode`, one
per running `encode(to:)`; each encoder has its `storage` (container stack), the length
of its `codingPath` and its `finalizers`. Encoder 1 is the main one, the others are
`ValueReferencingEncoder`s with the `reference` that their `deinit` writes to. Actions
follow the functions: `PushContainer`/`FindContainer` (`container(keyedBy:)`),
`EncodePrimitive`, `SubEncode`, `NestedContainer`, `SuperEncoder`, `Release` (the whole of
`deinit`, with the roll-up, the write-back or the delayed error), `ReturnValue`,
`ReturnNothing`, `FinalizerThrows`, `RollUpFails`, `Unwind` and `Swallow`. The result is
a tree of container ids, so no recursion is needed.
A nested container does not outlive the `encode(to:)` that created it (`Returns` asks for
`Owned = {}`): one that escapes into a longer-lived object is outside the model.

Four constants say what a client or a build may do, because the code is right for some
and not for others:

- `NestInNested`: a nested container or super encoder opens further ones.
- `RollUpThrows`: the transform may refuse a container; only ASN.1's does
  (`ASN1Encoder.swift:217-223`).
- `ClientSwallows`: `encode(to:)` uses `try?`.
- `LexicalRelease`: nested containers die in reverse order of creation. Swift promises
  only that an object lives until its last use, so FALSE is what an optimised build may
  do.

`delayed` is no state of the code but a history: the encoders an error was ever delayed on. The code keeps the
finalizers that throw such errors in a list, and runs and clears that list each time an activation of the encoder
ends; what has to hold is said of the history, so that an error that got lost from the list would be noticed
(`DelayedErrorRethrown`, `FlatErrorsReported`, `DelayedErrorReported`).

`OrderedTree` is the abstract specification: a container is a list of slots in the order
they were asked for, a nested one fills its slot later. `CodecsBuildTree` is its `Spec` under
the refinement mapping of `ValueEncoder`, for the sessions that follow the discipline of a
codec: an item of a container is a slot, a referencing encoder that is alive is a slot not
filled yet, at the place its captured index or key gives it.

### ValueDecoder

The document is a tree of nodes with entries; `calls` is the stack of running
`init(from:)`, `storage` and `path` are per decoder, and a container the client holds is
a handle with the index of `ValueUnkeyedDecodingContainer`. Strings are node and key
names only; a key strategy is a function `Convert` on keys, with which two keys of a
document may collide. The `[String: T]` loop (`ValueDecoder.swift:1682-1698`), which pushes and pops
differently, is modelled on its own. The client decodes any entry as any type in any
order, keeps containers, throws and swallows.

### SchemaState, ASN1Decoder, ASN1Encoder

A schema is a table of nodes. `SchemaState` has the two stacks, the scopes and the
cached containers; `Resync`, `Step` and `Stepped` are the head of both transforms (drop
what is not shared with the coding path, step into each new key, take the possible
schemas), one action per key because a step may throw after the key was pushed. The
transforms add what is done with the possible schemas: `ASN1Decoder` matches a value and
assigns the values of a SEQUENCE to its fields; `ASN1Encoder` rolls containers up field by
field, which steps into absent fields with a scope of its own. Integers, strings and
times are tags with a small number. Constraints on values (sizes, ranges) and tagged
schemas are left out. The encoder's session ends with its first error: what happens
after swallowed errors is the question of `ValueEncoder`, and for the schema stacks of
the `ASN1Decoder` runs.

### CBOR, CBORReader, CBORSerialization

A stream is a sequence of symbols: a head (the initial byte and the integer or float after
it; writers take the shortest width, readers any, so the width is left out) or a byte of a
string. `CBORReader` keeps the loops that are running as `frames` and takes one symbol a
step; while `growing`, the stream is made up as it is read, so that all streams over the
constant `Heads` are explored and every one may end at any point. `IntMax` stands for
`Int.max`; a word reaches twice as far. `CBORSerialization` adds the writer, a recursive operator
(nothing is proved about it), and composes: what was read is written, at once or through
`encodeStream`, and read again. `GrammarFollowed` compares the reader with
`CBORGrammar`, the set of all streams that hold an item and of their beginnings, built by
length from the doc comments and not by reading. The writer is that of a build that checks assertions: an item with a
negative integer below `Int64.min`, which the reader accepts, stops it (`Asserted`), and `RoundTrip` says so
exactly; of keys of a map that are the same once written only the last is read back, which `Meaning` says.

### FyScanner, FyParser and FyEvents

A text is a sequence of lexemes separated by white space: an indicator, a word, a quoted scalar, a
comment; of a lexeme the scanner sees its kind, line, column, the further lines it covers and whether a
tab precedes it. `scan` is the state `fy_fetch_tokens` works on: `indents`, `flows`, `keys` (the simple
keys that may still become keys), `queue`, `keyAllowed` and the scalar that is being read. There is one
operator per `fy_fetch_*`, and `Fetch` chooses between them as `fy_fetch_tokens` does, with every error it
can report: "syntax" for the text's, "internal" for the library's.

`FyParser` adds `state` and `stack`, one action per state of `fy_parse_internal`. A step is one fetch, or
what the parser does with one token. With `profile.text = <<>>` the text is made up while it is read
(`GrowText`, `EndText`), from the lexemes and columns of the profile, so a run explores every text of a
profile; otherwise it is given. `Reset` is `fy_parser_reset`. `FyEvents` is the promise to whoever reads the
events: documents, each one node, nested properly; its `open` is what is open, and the refinement mapping
`Open` computes it from the parser's state and stack.

### FyEmitter and FyRoundTrip

The emitter is given one event after the other and writes lexemes at the line and column it has reached:
the queue of events, `state`, `stack`, `saved` (`struct fy_emit_save_ctx`), the flags that say whether the
line is still to be indented, and the four modes YAMLWriter uses. `FyRoundTrip` composes: a `writer` from
`Writers` gives events (the tour of `FyEvents`, so any well-formed documents up to a size), the emitter
writes, `HandOver` gives the text to a parser, and `read` counts the events it returns.

### FyAtoms, FyScalars and FyScalarWriter

What `FyScanner` takes for a lexeme is read here character by character: letters, blanks, breaks, quotes,
backslashes with the letter of their escape. A scanner cuts an atom out of a source and counts the room its
text needs (`Scan`); `ReadLine` is one line of the iterator of `fy-atom.c`; `ReadEnd` fills
the room with the text as `fy_token_get_text` does; `Compare` compares the
text with that of another scalar. `FyScalarWriter` puts a writer before it: `Write` analyses a text, chooses its
style in a mode and a place as the emitter does, writes it and hands the source to the scanner. Characters
outside ASCII stand for the width of their code; tab size and the legacy line breaks of
YAML 1.1 are left out. `Meaning` in `MCFyScalars` is the text by the rules of YAML, told from units and
lines and not from the iterator.

### Documents

`FyNodes` is the heap. A cell is never reused: a node that is freed keeps its cell, with `live = FALSE`,
so a use after free and a double free can be told. Texts of scalars are numbers; tags and comments are
left out. `FyDocument` takes one document through its life: its events are fed one by one to the builder
(`FyLoaders`), the composer (`FyComposer`) and the streaming resolution (`FyStreaming`); the document
iterator (`FyIterator`) gives the events of what was built, and drives the composer over resolved documents
(`ComposeLoaded`); the document is then taken,
cloned, resolved pass by pass (`FyResolve`) or edited (`FyEditing`, with the nodes in `own` being the
client's). Each operation of the library is one operator from heap to heap and one action. `YamlMeaning`
says what a document means from its tree alone: an alias is what its anchor was on last before it, a merge
adds the pairs that are not there.

### Paths

`FyPathExpr` is the parser of ypath: the scanner of glyphs, the stacks of operands and operators, the
precedences, the two modes (path and scalar) and `fy_path_parser_set_mode`. `FyWalk` is
`fy_path_expr_execute` with all methods. `FyPaths` is a client that asks, one after the other: an expression, the
path of a node, a reference, a JSON pointer, a route followed through aliases and merges. `YPathMeaning`
says what an expression tree means as a function on nodes.

### FyThreadPool and ForkJoin

What runs on a thread is a stack of frames, since a work may join further works: `at` is where the frame
is, `job` the work, `direct` and `threaded` what a standard join executes itself and has assigned, `word`
the futex word waited for. `work[t]` is `t->work`, `nextWork[t]` the offer, `free` and `loot` the bit
arrays `freep` and `lootp`, `left` and `pool` the counters and the pools of joins. A step is one access to
shared memory: a compare-and-exchange, a load, a futex call, so all interleavings of those are explored.
`ForkJoin` knows works only: one starts when its parent's join gives it out, a parent finishes when its
parts have; `JoinsAll` is its `Spec` with `started` mapped to what was executed.

## Runs

| Run | Module | What it shows |
|---|---|---|
| `encoder` | `MCValueEncoder` | sessions under three disciplines. A codec (JSON, CBOR, YAML; refusals none, errors swallowed) and ASN.1 on flat values never trap, report delayed errors and build the ordered tree; any client at all keeps insertions in bounds, and no encoder returns a value once an error was delayed on it |
| `codecs` | `MCCodecs` | one session each of ValueDecoder (any `Decodable`, colliding keys), ASN1Decoder and ASN1Encoder (nested, versioned, dynamically typed SEQUENCEs, to the first error) and CBOR (every stream of five symbols, cut off anywhere) |
| `thread_pool` | `MCFyThreadPool` | two workers and the client, four trees in the two modes: each work once, joins implement `ForkJoin`, no assertion of the standard mode fails, the client gets through |
| `yaml` | `MCFyRoundTrip` | every text of nine profiles: parsed to its end or refused, no internal error, events are a tour; and everything a writer emits is parsed to the events it was written of |
| `documents` | `MCFyDocument` | 4,253 documents: the loaders agree, but for the two cases `LoadedAsWritten` names, and own what they made, resolution and streaming give what the text means, iterating gives the events that were written, clones resolve alike, two edits in a row keep trees, paths in callbacks are places |
| `paths` | `MCFyPaths` | six documents, 2,635 expressions, 258 routes: what is found is what is meant; paths, references and pointers lead back |
| `scalars` | `MCFyScalars` | every scalar of up to four pieces in five styles is read to what it means, in the room that was counted, and compares as its text does; every text of up to four characters that is written, in any style, mode and place, is read again; but for the kinds named in the properties |
| `encoder_nested_error`, `asn1_decoder_swallowed`, `thread_pool_submission`, `yaml_reset`, `documents_insert` | | violated: findings 1 to 5 |

Distinct states: `encoder` 243,832; `codecs` 1,305,204; `thread_pool` 317,270; `yaml` 589,731;
`documents` 200,376; `paths` 35,942; `scalars` 503,896.

Bounds, and why they are enough.

- `encoder`: three encoders are the main one, a referencing one and one inside it or beside it, which is
  what the order of two nested containers and delay on a referencing encoder need; three containers (two
  of them for flat values) and two activations let one more be used after an error; two items distinguish before
  from after.
- `codecs`: three decoders, three containers open and three nested calls on documents of depth three with
  a null, a nested array, an object and two colliding keys. Eight calls of the ASN.1 decoder reach every
  field of a schema with two levels of versioned SEQUENCEs and a list of dynamically typed ones, and go back
  to the outer one. Five symbols of CBOR hold a map of two pairs, a break in every place of a map, and four
  items nested in one another; `IntMax = 7` stands for `Int.max`, and a word reaches twice as far: three bits
  are enough for a count that fits a word and not an `Int`.
- `thread_pool`: two workers and the client compete for one free worker and for one offer; the trees have
  a join inside a join, a join of two (which has a path of its own), a join of one and a join of more works than
  threads. The theorem about `ExecutedOnce` has no such bound.
- `yaml`: each profile has the lexemes of one concern (block collections, explicit keys, flow sequences,
  flow mappings, both mixed, document markers and directives, properties, scalars of several lines, tabs)
  and length four or five, enough to nest a collection in another and to leave it. `MaxQueue = 24` bounds
  the queue of a scanner that is stuck; texts of five lexemes never reach it, so `Terminates` is not
  cut short. Writers: JSON modes with 5 nodes and 3 collections; ORIGINAL and PRETTY with 6 nodes and 2
  collections, 4 nodes in both styles, 4 nodes with quoted and literal scalars, 3 nodes with anchors, tags
  and aliases, 3 nodes in 2 documents.
- `documents`: two anchor names that may be put on again, every three of 16 parts with aliases and merges in a row,
  keys that are collections in keys that are collections; `DepthLimit = 5` refuses some of them, and eleven more
  have collections at the limit, empty or not, or a key with further keys that are collections;
  `WalkDepth = 16` is the library's own; `MaxEdits = 2`, since a second edit meets what the first left behind.
- `scalars`: four pieces of quoted text (three of plain text and of blocks) put a break or an escape between
  blanks that stand between letters, which is what folding tells apart; pieces are text, blanks, LF, CR LF, indentation
  one column more and less, quotes, escapes and indicators. Requests of four characters have a blank run
  between two letters, and `LineWidth = 5` stands for the 80 columns after which a line is folded, so
  short texts are folded too. The properties name what is read or written otherwise (`QuotesTogether`,
  `CrLfEnd`, `EscapeEnds`, `NoText`, `OneDeeper`; `LeftAtBlanks`, `BlanksAtBreaks`, `FlowUnquoted`,
  `BlockBlanks`): these are defects of the code, listed below.
- `paths`: two questions in a row are not bounded, the parser's mode is carried over.

Deadlock is checked, except where a session ends: the codecs, the encoder, the pool.

Fairness. The Swift library runs only when its client calls it: it has no scheduler, and its runs are safety.
The parser and the round trip are loops that go on until they are done, `[]<>~Busy \/ []<><<RoundTripStep>>_all`.
The pool assumes `WF_vars(Next)`: some thread that can run does run. The operating system promises more,
fairness among the threads, which is not needed.

Every property has a mutant: a definition that is changed as a plausible mistake in the code would change
it, with which the same run finds the property violated. The mutated definitions stand in the modules,
named as mistakes.

## Proofs

What is proved holds for every value of the constants, and rests on the named assumptions of the modules and
on nothing else. `PROJECT.json` lists the theorems.

### ValueEncoder_proofs: the encoder, for all keys and all bounds

- `TypeCorrect`: `Spec => []TypeOK`.
- `InsertionInBounds`: `deinit` inserts inside its array (`ValueEncoder.swift:1128`).
- `DelayedErrorsRethrown`: once an error was delayed on an encoder, every activation of that encoder ends with an
  error, however often it is activated again after the client swallowed the one before (`ValueEncoder.swift:427`,
  `475`).
- `MainErrorsReported`: so an error that was ever delayed on the main encoder fails `encodeTree`.
- `KeyOrderStable`: no step moves or drops a key of a keyed container.

The inductive invariant is `IInv == TypeOK /\ CallsOK /\ ReferencesOK /\ InsertInBounds /\
ErrorsKept`. `InsertInBounds` is not inductive alone: the index a nested container captured stays in
bounds only because the array it points into grows and is never freed or rolled up while a referencing encoder
that is alive refers to it; `ReferencesOK` and `CallsOK` say so, and that an activation's containers are where
its encoder's storage says they are. `ErrorsKept` ties the history to the list: an encoder an error was delayed on
has a finalizer that throws, and keeps it, since the list is cleared only when none of it throws. The proof has one step per action.

### ValueDecoder_proofs: the decoder, for every document and every client

- `ValuesFollowedAlways`: `Spec => []ValuesFollowed`. Whatever a `Decodable` opens, nests, throws and swallows,
  a decoder it may use looks at the value its coding path names, a container reads the value its
  decoder's path names, and its index never passes the end of its array.
- `ElementKept`: `Spec => FailureKeepsElement`.
- `TypeCorrect`: `Spec => []TypeOK`.

`ValuesFollowed` says something of the current activation only. What makes it survive a return is what the
activations below will find when those above have left, so the inductive invariant has a view for
each (`Views`): the last is the decoders as they are, and each other is what the one above leaves behind,
with its value and its step popped and its decoders gone (`LeavesBehind`). In its own view every
activation, and every container it opened, looks at the values its paths name (`ViewOK`). `Consistent` adds what
`AdvanceIn` needs when a call returns: the element it was made for is still in the array, because the
container of a caller cannot move while the call runs (`ActivationOK`). The three things a step can do to the views, to use
them, to begin another and to end one, are the lemmas `GrowsKeeps`, `EntersKeeps` and `LeavesKeeps`; each action is one of them.

`DocumentsAssumption` says what documents are: their entries lead to nodes, and the keys of one keyed node
are different (`valueToKeyedValues` gives a dictionary). The node that a path leads to, `At`, is defined by
recursion on the path; its two equations, `AtEmpty` and `AtAppend`, are proved from the well-foundedness of
the order of the naturals (`LeastMember`).

### FyScanner_proofs, FyParserScan_proofs: the scanner, for every text

- `FetchKeeps`: one fetch, at whatever lexeme, keeps the scanner typed and sound.
- `ScannerSound`, `ParserTypeOK`, `ParserNoInternalError`: in every state of a parser on any text, of any length and
  layout, given or made up, and wherever it is reset, the scanner is typed and sound and has not
  reported an internal error.

`FyScanner_proofs` has a lemma for each operation of `fy_fetch_tokens`. `NoInternalError` depends on when a
simple key may be required: a key is required when it stands at the column of the block around it, and
replacing a required key is the internal error. Sound says why that does not happen: the levels of the keys grow
from bottom to top (`KeysOrdered`), where a key may start in block context every key left is on an earlier line
and is removed before (`KeysPast`), and the scalar that is read fits the line of the reader (`TextFits`).
Between the steps, `Scanned` adds what the parser and the text have to do with it: lexemes that are ahead
follow the reader's line, `Waiting` says what a reset leaves in the queue (tokens that are consumed before
the stream starts, or a parser that gets no further). The theorems are about `FyParser`'s `Spec`; a text
that was written (`HandOver` of `FyRoundTrip`) is one of its given texts.

### FyParser_proofs: the parser, for every stream of tokens

- `ParserRefinesEvents`: `Spec => EventsAreATour`. Whatever tokens the scanner makes, the events are the tour of
  well-formed documents; the mapping is `Open`, computed from the state and the stack of states.
- `StackFitsState`: the invariant it rests on. The stack is empty exactly between documents, its
  bottom is the end of the document and nothing else is, and while a node is awaited the top is the state that
  has the node behind it. Without it a pop could find no state, or one of the wrong collection.
- `OpenNests`: what is open nests.

### FyThreadPool_proofs: the pool, for any number of threads and any trees of works

- `ExecutedOnceAlways`: `Spec => []ExecutedOnce`, in both modes.
- `PlacedAlways`: the invariant behind it. Each work is followed from the array it is in to its execution. A work
  that is still to be executed is at exactly one place: in a frame of the join it belongs to, or of
  the thread that took it; in the word `t->work` of a thread that waits; or in `next_work` of a thread that
  offers it (`HeldIn`, `Tokens`). A work leaves its place by the one compare-and-exchange that succeeds, so of an
  owner that takes its offer back and a thief only one has it. The rest says what makes the places disjoint:
  where each kind of frame may stand on a stack and what it holds there (`Good`, `Rested`, `PlaceOK`: only a
  worker offers), that a thread that does not wait has the work it executes in `t->work` (`Busy`), and
  that in the stealing mode works are counted before they are handed out (`Pooled`).

`TreesAssumption` says that the works of a client are trees: an entry of an array of works belongs to one
join (the works are structures in an array that the caller gives to one call of `fy_thread_work_join`,
`libfyaml.h:8010`), and the client's own work to none.
There is a lemma per action, and they end in one step over `Next`.

### What stays with TLC, and why

- `Terminates` of parser and pool, and the fairness in `JoinsAll`: liveness, out of the prover's reach.
- `ScannerAgrees`: it compares counts (`Cardinality` and `Count` of what is queued) between scanner and parser.
- `JoinsAll`, `StandardAsserts` and `TypeOK` of the pool: that `work_left` never passes zero is a count of the works
  that are not done; the invariant that is proved follows works, not counts.
- `ReadsMeaning`, `ComparesTexts`, `WrittenReadsBack`: what folds over a text compute for every text.
- `ReadsBack`, all of `FyDocument` and `FyPaths`, `RoundTrips` and `GrammarFollowed`: what is compared are
  trees, by recursive operators on both sides, which the provers cannot unfold. (Recursive functions on naturals can be
  reasoned about, as `At` is in `ValueDecoder_proofs`.)
- `CodecsNeverTrap`, `FlatErrorsReported`, `CodecsBuildTree`: the discipline of a client is a restriction of
  its calls that reaches over several encoders; the theorems here hold without it.
- `SchemaState`, the ASN.1 transforms, and CBOR.

## Findings

Where a document, comment, assertion or test disagrees with what the code does; each is a run that TLC
finds violated, and `PROJECT.json` quotes the lines.

1. An error of a container nested in a nested container is lost: `encodeTree` returns a value without the element
   (`ValueEncoder.swift:1119`).
2. A step that throws leaves its key on the stack: after `try?` a wrong schema is used and in the end the process
   stops (`SchemaState.swift:121`).
3. A worker of the stealing mode is free before its work is cleared: the submission to it is refused,
   `assert(!rc)` fails, and without assertions the work is lost (`fy-thread.c:895`).
4. A parser that is reset after an error keeps the tokens and the simple keys of the old text
   (`fy-parse.c:6879`).
5. Two insertions at one path end in an assertion, since the copy the first one leaves is not told its parent
   (`fy-doc.c:2313`).

Also seen while modelling. The models follow the code in each of these; no run is given to them, and the
properties of the passing runs say where they set one aside.

- `ValueEncoder`: the error `finalize()` throws leaves a container on the storage, and in a referencing encoder
  `deinit` then stops the process (`ValueEncoder.swift:427`, `1121`); the placeholder of a refused nested
  container is unwrapped without a check (`451`); two nested containers alive together in an unkeyed
  container captured one index, so their order is that of their release (`1128`).
- `ValueDecoder`: keys that are equal after conversion are refused, where two comments say that one is used
  (`ValueDecoder.swift:730`); `nestedContainer` of an unkeyed container moves the index before a duplicate key
  throws (`1446`); a null in a `[String: T]` is dropped for some `T` (`1694`).
- ASN.1: a versioned field decoded before its version fails with "none marked" (`SchemaState.swift:234`); a
  SEQUENCE without a required field is encoded (`ASN1Encoder.swift:279`); one whose version has a default and is
  absent is refused (`276`); a value that is no integer is encoded as the default of its INTEGER (`501`); a
  super decoder reaches the `fatalError` of an uncached container (`ASN1Decoder.swift:110`).
- CBOR: the offset and a count are added with a check for overflow that stops the process (`CBORStream.swift:74`);
  a negative integer below `Int64.min` is read and kept, and an assertion of the writer stops the program
  (`CBORWriter.swift:113`); a limit that a comment gives as `Int32.max` (`CBORSerialization.swift:35`).
- Scanner and parser: an empty entry of a sequence that is not indented is refused (`fy-parse.c:6038`); a
  sequence without indentation is a complex key of the first pair only (`5385`); a zero-indented block scalar
  takes indentation from every line after it (`3440`); `%YAML` and content without `---` are accepted; a tab
  before `?` or `-` at the end of a line makes it plain text (`4110`); `fy_parse_input_reset` unrefs queued inputs
  without removing them (`6649`).
- Streaming resolution: in `[&b 0, &a [&b 1, *b], *a]` the replay of `*a` has `b = 0`, where the comment at
  `fy-parse.c:7982` says the closest anchor; `{<<: {}}` dereferences NULL or asserts; a mapping with two merge keys loses
  track of keys and values; explicit keys do not override merged ones; anchors inside a merge's value are lost.
- Emitter: a literal scalar of one line as a key is written as a simple key and reads back as one scalar
  (left out of the writers); a sequence as key of a block mapping is refused by the parser but for the first
  pair (the exception in `ReadsBack`); two implicit documents in a row merge; an emitter in state END cannot
  be used again.
- Scalars, read: the room counted for single quoted text with quotes next to each other is too small and the
  token is cut (`fy-atom.h:77` says it is guaranteed to fit); it is too large for other texts, which end in octets nobody set
  (an empty literal at the end of the input, `"\` before two breaks, folded text with empty lines before an
  indented one, kept text at the end of the input); CR LF before the closing quote counts twice; an escaped blank or
  tab at the end of a line is lost, and a break that is escaped counts as one behind an escaped backslash; a block scalar of blanks alone is formatted from an uninitialised break; a
  folded line indented by one column after an empty line is folded; `- k: |` takes its content at the parent's
  column; the sign of `fy_atom_memcmp` is wrong when one text begins the other.
- Scalars, written: a double quoted text folded at a run of blanks, a single quoted one at two blanks, plain and single
  quoted text with blanks beside breaks, block scalars of blanks and folded ones with lines that begin with blanks lose
  characters; CR becomes LF outside double quotes; a flow collection gets text with a character to escape unquoted
  (`fy-emit.c:1325`), and `[a<TAB>,b]` reads as two items.
- Iterator: a pair without value, which `fy_node_mapping_append` accepts, ends the iteration of its mapping
  (`fy-doc.c:7389`; `libfyaml.h:7785` says all nodes); `fy_parse_compose` with `FYPCF_RESOLVE_DOCUMENT` on `[a, *x]`
  composes an empty stream and returns 0 (`libfyaml.h:7235`).
- Documents: merges whose mapping has a key that is an alias, or whose value has an anchor, fail to resolve;
  a merge key whose value is a mapping written in place is refused; `[*b, &b 1]` is accepted; a clone of
  `[&a 1, *a, &a 2, *a]` resolves differently; after a clone the pairs of the source name the copy as
  parent, and a sort of the copy dereferences it; the recursive loader dereferences NULL for a key that is a
  mapping with two keys that are collections; the builder refuses an empty collection at the depth limit, the
  recursive loader does not (the exceptions in `LoadedAsWritten`); `fy_node_insert` refuses to delete but at the root (`libfyaml.h:2403` says it
  deletes); `fy_document_set_root(NULL)` and pairs set to NULL dereference it.
- Composer: a request to stop inside a complex key is dropped unless it is made at its last event
  (`libfyaml.h:7174`); a stop in mid-document makes `fy_parse_compose` return -1.
- Paths: the parser's mode survives a reset and is not restored after a comparison or a method, so the next
  look-up is read in scalar mode (`fy-walk.c:750`; `libfyaml.h:5838` says otherwise); digits of an index are
  put together with `|` (`853`); `any()` keeps its input whatever it finds (`2457`); `!=` and `==` are both true of
  different nodes that are equal; an unmatched parenthesis is accepted, one without operands dereferences NULL; a
  sibling is always an error; a JSON pointer ends after an index of a sequence (`libfyaml.h:2536`); merges
  in merged mappings are not looked into.
- Thread pool: destroying the pool right after a stealing join may trip `assert(w_exp != WORK_SHUTDOWN)`;
  `fy_work_pool_signal` posts the pool's word when the joiner may have returned (`759`); the first word of free bits is
  wrong for a multiple of 64 threads (`466`); `are_all_reserved` and `is_any_reserved` are inverted (`298`).

## Not modelled

The conversions between Swift types and values of a format are functions on data (dates, big integers, floats,
URLs, escapes), which unit tests cover better; likewise the decoding of UTF-8 in libfyaml,
its hash tables, diagnostics and hash functions. Comments as tokens and the emission of documents in memory are left out. The command line tools (`fy-tool.c`, `internal/libfyaml-parser.c`) and the tests
are clients of the library. The Swift package compiles `src/lib`, `src/util`
and `src/xxhash` of libfyaml: the thread pool is built and used only by its own tools. `PROJECT.json`
lists every part with the reason.
