# YMLParser: a verification development

YMLParser (`src/src/*.c`) is a small YAML library in C: a lexer that turns a
text into an array of tokens, a recursive-descent parser that turns the tokens
into a tree of values, a writer that goes the other way, and an API to look
things up in a tree and to change it.  The modules of this directory model it in
TLA+, TLC checks them on bounded instances, and TLAPS proves what matters most
for every instance.  Paths below are relative to the repository root.

## The system

| Component | Where | State | Operations |
|---|---|---|---|
| Drivers | `src/YMLParser.c:1055-1191` | a `Parser` on the C stack, the documents | `YMLParse`, `YMLParseStream`, `YMLDestroy`, `YMLDestroyStream` |
| Parser | `src/YMLParser.c:42-101,642-1051` | `p->pos`, `p->ok`, `p->error`, `p->anchors`, one C frame per activation | `parse_node`, `parse_scalar`, `parse_flow_sequence`, `parse_flow_mapping`, `parse_block_sequence`, `parse_block_mapping`, `apply_merge`, `anchor_add`, `anchor_find`, `anchors_clear` |
| Scalars and tags | `src/YMLParser.c:178-638` | none (pure, but for the heap) | `infer_scalar`, `unescape_double_quoted`, `unescape_single_quoted`, `fold_scalar`, `apply_tag` |
| Value tree | `src/_yml_utils.[ch]` | a tree of `YMLValue` | `yml_deep_copy`, `yml_value_free_impl`, `yml_strdup` |
| Hash map | `src/_hm.[ch]` | `entries`, `cap`, `len`, `alloc` | `hm_new`, `hm_set`, `hm_get`, `hm_next`, `hm_grow`, `hm_free` |
| Dynamic array | `src/_da.[ch]` | a header before the elements: `len`, `cap`, `alloc` | `da_new`, `da_push`, `da_len`, `da_free` |
| Allocator dispatch | `src/_allocator.[ch]` | none (the client's `ctx`) | `YMLALLOC`, `YMLREALLOC`, `YMLCALLOC`, `YMLDEALLOC` |
| Lexer | `src/_lexer.[ch]` | position, line, column, `flow_depth`, the tokens | `lex`, with `normalize_encoding` before it |
| Writer, builders | `src/YMLWriter.c` | an output buffer; the tree it edits | `YMLWrite`, `YMLWriteStream`, the map and array builders |
| Tree API | `src/YMLParser.c:1193-1329`, `src/YMLParser.h` | the shared `YMLNULLVallue` | `YMLMapGet`, iterators, type checks |
| Error state | `src/YMLParser.c:17-32` | thread-local `g_ok`, `g_error` | set by every call, `YMLPrintError` |

`YMLParser.h` at the root of the repository is generated from these files.

How they interact.  A driver calls `lex` once, then `parse_node` once
(`YMLParse`) or in a loop (`YMLParseStream`), and sweeps up: tokens, anchor
table, on an error the tree.  The collection functions call `parse_node` for
each element and are called by it: the recursion and the shared cursor, flag and
anchor table are the whole of the interaction.  Everything a value owns is taken
from the client's allocator; the tokens, the anchor table, a stream's array and
the buffers of block scalars come from `malloc`.  There are no threads inside
the library: the only concurrency is between a client's threads, which may read
one finished tree, and the error state they would share is thread-local.  A client
builds and changes trees through the builders, which own a copy of whatever they
are given, and hands them to the writer.

What is hard in it:

 * progress: every loop ends only if a call inside it consumes a token;
 * errors: `p->ok` is a flag that every activation on the stack has to look at
   after every call, and the functions return a value *together with* an error;
 * ownership: values move from a shell into an array or a table, are deep-copied
   for an anchor, an alias and a merge, are converted by a tag, and are dropped
   on an error; nothing but the order of the calls says who frees what;
 * failing allocations, most of which are not checked;
 * indentation: the nesting comes from comparing columns, in three functions;
 * documents: what a document leaves unread, and which anchors it leaves behind;
 * tables: open addressing, growth in the middle of an insertion, pointers into
   the table;
 * two allocators in one tree: each node names its own, a copy takes the target's;
 * the text: characters that are indicators only in some contexts, encodings told
   apart by their first bytes, buffers that grow while they are filled;
 * the way there and back: what the writer leaves unquoted is the reader's to type.

PROJECT.json lists these as hazards, each at its line.

## The modules

| Module | What it models or holds |
|---|---|
| `YMLValue` | A value as a record, with the number of heap blocks behind it (`own`), and the pure operations on it: `Push`, `HmSet`, `Has`, `Get`, `ApplyTag`, `TagCost`. |
| `Parser` | The parser and its drivers, one action per straight piece of code between two calls or two tests of a loop. |
| `ParserProps` | What the parser promises: the type invariant, the safety and liveness properties, the ledger of the heap. |
| `YMLTexts` | Token arrays `lex` can return: every array up to a length over an alphabet of lexemes, with lines and columns. |
| `YMLTrees` | Well-formed documents: a family of trees, how each is written, and what it says once aliases and merge keys are resolved. |
| `Dictionary` | What `_hm.h` promises: a finite map whose calls take effect at once, or fail and change nothing. |
| `HashMap` | `_hm.c`, one action per turn of a loop. |
| `HashMapProps` | The invariants of the table, and the refinement of `Dictionary`. |
| `Chars` | Characters, and the two searches over a text everything below is made of. |
| `Encoding` | `normalize_encoding` and its decoders over bytes; and how a client writes code points in each encoding. |
| `Lexer`, `LexerProps` | `lex`, one action per branch of its loop; what it promises, and what `YMLTexts` assumes of it. |
| `Scalars` | The pure functions `parse_scalar` calls: `infer_scalar`, the unescape functions, `fold_scalar`. |
| `Writer`, `WriterProps` | The serialiser, a stack of activations as in `Parser`, over a stream or a buffer; what it promises of the buffer. |
| `RoundTrip`, `RoundTripProps` | `Writer`, `Lexer`, `Scalars` and `Parser` composed; which trees come back. |
| `TreeApi`, `TreeApiProps` | The builders, deep copies, destruction and lookups, block by block; what they promise. |
| `MCTexts`, `MCTrees`, `MCHeap`, `MCHashMap`, `MCLexer`, `MCRoundTrip`, `MCTreeApi` | Instances for TLC. |
| `ParserProofs` | Theorems about `Parser`, for every value of its constants. |
| `HeapProofs` | The ledger of the parser's heap, for every value of them. |
| `HashMapProofs` | Theorems about `HashMap`, and that it implements `Dictionary`. |
| `LexerProofs`, `LexerTextProofs` | Theorems about `Lexer` and `Encoding`: the cursor, places, buffers and failures; the tokens against the text. |
| `TreeApiProofs` | Theorems about `TreeApi`: who owns what, and what lookups find. |
| `WriterProofs` | Theorems about `Writer` as it runs in `RoundTrip`: the buffer and the result. |
| `Totals` | The sum of a sequence, which the heap's ledger and the length of a text are made of. |
| `Facts` | The lemmas they share: induction over sets of numbers, remainders and powers of two; sequences and their sums. |

### How `Parser` corresponds to the code

`tokens`, `pos`, `ok`, `err`, `anchors` are the fields of the C `Parser`
(positions are 1-based).  `stack` is the C call stack: a frame holds the
function, the place in it (`lc`), its indentation argument (`col`), the position
of the call (`at`) and its locals: the collection under construction (`v`), the
key, the tag and anchor of a `parse_node`, and what `apply_merge` has still to
walk (`work`).  `ret` is the value returned last.  `pc` is the place in the
driver and in the client, who destroys what it got.  `docs` is what was handed
over.  `live` counts, for `malloc` and for the client's allocator, the blocks
taken and not given back; `faults` counts the allocations that failed.

The labels of a frame: `enter` (at the call), `dispatch` (a node's tag and anchor
are read), `loop` (a collection's loop test), `elem` and `put` (waiting for the
value of an element or of a pair), `merge` (inside `apply_merge`), `close` (behind
the loop), `tail` (a node waiting for its value, then the exit code).  An action
stands for all the code up to the next label, with every effect it has on the
cursor, the error, the heap and the anchors.

What is abstracted, and how:

 * A token's text is a name, of which `"NULL"` and `"none"` are taken for pointers that
   are not there; a plain scalar's kind is what `infer_scalar` makes of it.  A tag is its name after `!` or `!!`.
 * A value owns a number of blocks instead of pointers; sharing shows up as a
   ledger that is smaller than what can be reached.
 * An error message is a short name.
 * Allocations: each step may have one of its allocations fail, `MaxFaults` in all.
   A deep copy fails at its shell or not at all; the storage of an array
   (`da_new`, `da_push`) and the growth of a table do not fail.  (In `TreeApi` all
   of these do.)
 * Undefined behaviour the parser can be driven to by a failed allocation
   (`strtoll`, `strcmp` or `hash_str` of NULL) is the outcome `crashed`.

Bounds of the model: `MaxKids` (a collection takes no further kid), `MaxDocs`
(a stream's result takes no further document; the surplus is destroyed, so the
ledger stays exact), `MaxFaults`.  They make endless loops finite cycles, which
is what TLC needs to tell that a loop is endless.

`FairSpec` adds weak fairness of the next step: the library is straight C on the
caller's thread, and nothing in it waits.

### `YMLTexts` and `YMLTrees`

`Arrays(alphabet, columns, n)` is every token array of up to `n` lexemes that
some text lexes to: on the same line only where the lexer would split there (a
plain scalar runs on to a ':', a block scalar eats its lines unless its header goes
on, as in `|1 a`, and is empty then; a document marker starts a line), with the columns the text would have, flow tokens by
`flow_depth`, and the one EOF.  `Docs` is a set of records: an array and the
trees it was written from; `Pairs` says what a mapping holds once its merge keys
are resolved, stated over the tree and not by the parser's algorithm.

### `HashMap` and `Dictionary`

`entries`, `cap` and `len` are the fields of `_hm`; `newer` is `new_entries`
while `hm_grow` moves the keys over; `idx` is the index of the loop that runs;
`live` counts the blocks the map holds (itself, its table, its keys).  A call
starts at `SetCall` or `GetCall` and runs through `grow`, `move` and `probe`
until it answers.  Each of its allocations (`hm_new`'s, the new table, the key)
may fail.  `GrowMove` moves one entry; the probe inside it is the operator
`ProbeEnd`.  The masks of the code are remainders, which is right for powers of
two only: `PowerOfTwo` says that a number has no odd divisor but one, and `TypeOK`
that `cap` is such a number.  `Pairs` are the keys and values of the used slots.  `hash_str` is a constant, any function; the keys' strings and what
the values own are left to `YMLValue`.  A client may walk the table with
`hm_next` between the calls, and break the walk off; `walk` carries, for the
property, one key that was there when the walk began.

`Dictionary` has the same calls over a map `dict`.  The mapping takes `dict` to
the pairs in the used slots of `entries`: since the old table stays in place
until the new one is complete, growth is a stutter, and a call takes effect at
its last step.  `FairSpec` has weak fairness of the steps of a call under way and
of nothing else: a client need not call.

### `Encoding`, `Lexer`, `Scalars`

A text is a sequence of characters, a character a string of length one; bytes that
are no ASCII go by their number.  `source` is the caller's memory: bytes up to the
terminator, and behind it two bytes over and over, since `normalize_encoding` looks
at four bytes and searches for an end that may not be there.  `text` is what `l.p`
runs over, `storage` where that is (the caller's, the transcoded copy, freed).
`p`, `line`, `col`, `flow_depth`, `error` are the fields of the C `Lexer`.  A token
carries, beside its own fields, where in the text it began and ended; the code
never looks at that, the properties do.

A step is one turn of the loop in `lex`: `skip_ws` and the branch taken, in the
order of the code (a branch's guard excludes those before it).  A search inside
a branch is a function `next` over positions, one turn of the C loop each, and
`Follow(next, i)` the place where it stays.  `Sources` are families of memories a caller may
point at, `SourcesAssumption` that they are bytes; `CharsAssumption`, which TLC
evaluates, that only the zero byte reads as the end of a text.  `lex_block_scalar` alone takes
several steps, one per piece appended to its buffer, because each append may find
the buffer full and `realloc` may fail there; `BlockCap` is 2 where the code has
256.  `Push` is `da_push`: `room` is the capacity of the array of tokens, which begins at
`TokenCap` (64 in the code).  A full array is doubled, or cannot be, and then the token
is dropped and `lex` goes on (`_da.c:25-27`); `dropped` counts such tokens for the
properties, and `GrowCrash` is the read of the header `realloc` gave away
(`_da.c:29`).  `pc = "astray"` is the read behind the text: a backslash before the `'\0'`
(`_lexer.c:355`), or an encoding whose terminator is missing.

`Scalars` follows the C functions over characters.  `strtod` is external and
modelled as the C standard has it, without values.  `Cooked` and `Kind` are what
`parse_scalar` makes of a token, and give `RoundTrip` the token as `Parser` knows it.

### `Writer` and `RoundTrip`

`ctx` is the `_YMLWriteCtx`; `ctx.buf` is what was written.  `work` is the stack of
`_yml_write_node`, whose frames keep the kids still to be written: an array's in
order, an object's in any order, since that is the table's.  A step hands its pieces
(`_yml_emit` calls) one after the other to `_yml_emit`, which is where a buffer ends:
after a piece that does not fit nothing is written any more.  `cap = Stream` is a
`FILE *`.  `Trees` in `WriterProps` are the trees up to `MaxDepth` levels, one set
per level, and `Size` is how long their text is, a function of the tree and the
depth it stands at: `JobsAssumption` says that the trees to write are such trees, and TLC
evaluates it.

`RoundTrip` is the README's example: write into a buffer, `YMLParse` the buffer.  The
three are instances over one set of variables and run one after the other; `HandText`
and `HandTokens` are the two calls between them.

### `TreeApi`

`nodes` is the forest of all `YMLValue`s of the client's trees, wherever they are
stored, with their allocator and the capacity of what they hold; `live` is the set
of blocks taken and not given back, each with the node and the purpose it was taken
for and the allocator it came from.  So a block that is still pointed at but not in
`live` is a dangling pointer, one in `live` that no tree points at a leak, and a
block given back to another allocator than it came from the end of the process
(`crashed`).  A builder is one step: its value is built first (`NewScalars`,
`NewArrays`, `Copies`: a value, its blocks, the allocation that failed), then stored
by `map_insert` or `da_push`.  Any one allocation may fail, at each place where the
code asks for one; `failed` names it.  Growing an array may end the process as well:
see the last section.

A lookup (`_YMLMapGet`) is a step per segment of its path, on its own thread,
interleaved with the others'; `g_ok` is the error state per thread.  Only a finished
tree is shared (`Share`), as the documentation wants it.

## The runs

| Run | Instance | Shows |
|---|---|---|
| `texts` | `MCTexts`: 11 thousand texts of up to 4 lexemes (block, also with block scalars that leave their line unread; flow; streams with an anchor and an alias), both drivers | `TypeOK`, `CallDepth`, `IndentNests`, `AnchorScope`, `ErrorUnwinds`, `BlockTextsEnd`, `ErrorEnds` |
| `trees` | `MCTrees`: documents of trees of depth 2 with block scalars, aliases, merges in every order and pairs of documents, both drivers | `ReadsWhatIsWritten`, `Terminates` |
| `heap` | `MCHeap`: a few texts of each construct, every tag on every type of value, keys set twice, block scalars no value is read from, and short broken texts, both drivers, both allocators, with and without a failing allocation | `HeapConserved`, `NothingFreedTwice` |
| `hash_map` | `MCHashMap`: 4 keys with equal hashes, chains over the end and a growth from 4 slots to 8, or 8 slots from the start; every allocation may fail | `TypeOK`, `ProbeChain`, `RoomLeft`, `EachVisitedOnce`, `FreedWhole`, `Refines`, `CallReturns` |
| `lexer` | `MCLexer`: every text of up to 3, 4 or 5 characters over eight alphabets (flow, lines and markers, line breaks, quotes, names and tags, block scalars with six headers, numbers), special words, and code points of every UTF length in ten encodings with three continuations in memory; an array of two tokens before it grows; two failing allocations | `TypeOK`, `Places`, `LosesNothing`, `TokensFitParser`, `QuotesClose`, `BlockBody`, `InferAsDocumented`, `FoldByRuns`, `DecodesWhatIsEncoded`, `FailureReported`, `Advances` |
| `text` | `MCRoundTrip`: strings and keys over small alphabets, in every position of trees up to depth 3, indents 0 (the default), 1, 2 and 4, with and without `---`, and small trees into buffers of 0 to 14 bytes | `RoundTrips`, `BufferHolds`, `NothingAfterOverflow` |
| `api` | `MCTreeApi`: up to 4 nodes in up to 2 trees, both allocators, tables of 2 slots and arrays of 1 before they grow, one failing allocation; two threads and four queries on trees of up to 3 nodes | `TypeOK`, `Ledger`, `NothingDangles`, `OneAllocator`, `CrashHasCause`, `LookupsAnswer`, `BuffersReturned`, `CopiesStayApart` |
| `flow_hang` | flow texts, `YMLParse` | `[ :` never returns: violates `Terminates` |
| `stream_docs` | stream texts, `YMLParseStream` | two lines are two documents: violates `DocumentsAreMarked` |
| `all_freed` | the documents of `trees`, `YMLParse` | a merged key that the mapping sets itself leaks: violates `AllFreed` |
| `oom` | the texts of `heap`, one failure | a NULL string with code 0: violates `FailuresReported` |
| `utf16_tokens` | the marked UTF-16LE texts of `lexer` | tokens point into memory that was freed: violates `TokensPointIntoText` |

The properties, in words:

 * `CallDepth`: the C stack never holds more than two frames per token read.
   Nothing counts depth, so this is what bounds the recursion.
 * `IndentNests`: a block collection directly inside another stands strictly
   deeper, whatever the text.
 * `AnchorScope`: no anchor in the table was defined before a `---` or `...` the
   cursor has passed.
 * `ErrorUnwinds`: after an error no activation is opened, at most a closing
   bracket is read per step, no document is kept, and no later success takes the
   error back.
 * `BlockTextsEnd`, `ErrorEnds`, `Terminates`: without flow collections every text,
   however malformed, is read until the driver returns, or until the loop of
   `YMLParseStream` stands at a `:`, `,`, `]` or `}`, which no node begins with and
   nothing there consumes; either driver returns once an error is met; both return
   for every well-formed text.  `Terminates` is false for broken flow
   collections: `flow_hang`.
 * `ReadsWhatIsWritten`: a well-formed text is read as the tree it was written
   from, without an error.
 * `HeapConserved`: as long as there was no error and no failure, each step leaves the
   difference between the blocks taken and those that can still be reached as it was,
   but for the four places where the code loses blocks, and there by exactly the
   blocks listed: a tag that sets the type of a value that owns memory (`!!null` and
   `!!float` on a string or collection, `!!str` and `!!bool` on a collection,
   `YMLParser.c:565-642`; `tests/test_advanced.c:100` has one), a key set again
   (`_hm.c:81`), a block scalar passed by or not read (`YMLParser.c:684`), the nodes of
   a stream's last anchors (`YMLParser.c:1101`).  Taking any of the four out of the
   property makes `heap` find the leak.
 * `NothingFreedTwice`: whatever fails, nothing that can be reached has been given
   back.  Blocks may be lost then; many are.
 * `ProbeChain`: each key is stored once, with no free slot between its home slot
   and it, also in the table that grows.  `RoomLeft`: a slot is always free.
   Together they are why a probe finds what was stored and ends; `CallReturns` and
   `Refines` say so of the calls.
 * `EachVisitedOnce`: a walk meets each key that was there once, unless a set grew
   the table meanwhile.  That includes a set of a key that is there: the load is
   tested first (`_hm.c:74`), so a client cannot rely on overwriting being safe.
 * `FreedWhole`: `hm_free` gives back everything the map took.
 * `Places`: line and column, which are the parser's whole notion of nesting, are
   those of the text, also behind a block scalar that gave spaces back.
 * `LosesNothing`: between the tokens are only blanks and comments, and a token is
   its value but for quotes, sign and trailing blanks, unless one was dropped.
 * `TokensFitParser`: what `YMLTexts` assumes of a token array, and `texts`, `trees`
   and `ParserProofs` with it, holds of what `lex` returns, unless a token was dropped:
   the EOF may be the one.  `Hanging` scalars are the
   block scalars whose header names an indentation and goes on with other text.
 * `QuotesClose`, `BlockBody`, `FoldByRuns`, `InferAsDocumented`: the scalars against
   definitions over the whole text, not by the code's loops; for plain scalars the
   table of the comment at `YMLParser.c:104-113`, with two exceptions (`strtod` also
   takes hexadecimal floats and `nan(...)`).
 * `DecodesWhatIsEncoded`: whatever the encoding and whatever lies behind the text,
   the code points come out; `Tellable` lists the texts that cannot be told.
 * `FailureReported`: an allocation that fails inside `lex` fails the call, but for one
   that was to make the array of tokens grow.  Each of those costs exactly one token,
   and the first `TokenCap` tokens are always there.
 * `Advances`: each step moves the cursor on or lowers a rank below it.  With the
   deadlock check this is termination of `lex`, as a safety property that needs no
   fairness.  Texts with a lone carriage return are left out: on those `lex` pushes
   empty scalars for ever.
 * `RoundTrips`: a tree comes back *if and only if* it is not `Lossy`.
 * `BufferHolds`: the result is the length of the text, computed from the tree, or -1
   exactly when text and `'\0'` do not fit; `NothingAfterOverflow`: no short piece
   is written after a long one did not fit.
 * `Ledger`: without a failed allocation, nothing leaks and nothing is freed that is
   still owned, for each allocator, after any sequence of builders, copies and
   destructions.  `NothingDangles`: with one, nothing reachable was freed, but for
   the growth in `map_insert`.  `OneAllocator`: below a custom node all is custom.
   `CopiesStayApart`: no call changes two trees.
 * `CrashHasCause`: the three ways a correct client can bring the process down.
 * `LookupsAnswer`: each thread gets the answer of its own call, whatever the others
   do between its segments.  `BuffersReturned`: a lookup gives its path back.
 * `AllFreed`, `DocumentsAreMarked`, `FailuresReported`, `TokensPointIntoText`: what the documentation and
   the tests say, and the code does not do; each is refuted by its run.

`api` looks at states through a `VIEW`: which number a node has makes no difference to
any action or property, and neither has the order of a table's kids, so a state is
its trees as values, the number of free ids and of live blocks, the lookups and the
error states.  Threads are symmetric.  A client may stop between any two calls, so
`api` does not check for deadlock; every other run does.

Bounds.  Four keys are one more than the smallest table takes without growing,
and make their chains collide and wrap in tables of four and of eight; the
library itself asks for 8 slots, which the instance also starts with.  Four lexemes are enough for every transition of the parser between two
constructs (open, key, colon, value; open, element, stray token, close), two
columns for deeper, equal and shallower, and `MCTrees` covers what needs longer
texts.  A lexer's branch looks at four characters at most (`---` and what follows), which the
alphabets' lengths cover, and a block scalar's buffer of 2 grows twice on 5
characters.  An array of 2 tokens is full on most texts; with two failures one token is lost and the
next kept, or two are lost in a row.  `RoundTrip` has the code's 64.  In `api` four nodes are a tree of a collection in a collection and one
to overwrite or to copy; arrays of one and tables of two grow at the second kid.
Passing runs together take every action.  `MaxKids = 6` is above what any
of these texts fills without looping, `MaxDocs` likewise.  The texts of `heap` are read
with both allocators; properties of the ledger exclude block scalars under a custom allocator, whose
buffer moves from one ledger to the other.

## The proofs

`ParserProofs` proves, for every set of token arrays that satisfies
`InputsAssumption` (EOF is the last token and no other), every bound and both
drivers:

| Theorem | States |
|---|---|
| `TypeCorrect` | `Spec => []TypeOK` |
| `DepthBounded` | `Spec => []CallDepth` |
| `IndentationNests` | `Spec => []IndentNests` |
| `AnchorsScoped` | `Spec => []AnchorScope` |
| `ErrorsUnwind` | `Spec => ErrorUnwinds` |

All follow from one inductive invariant, `IInv` (theorem `Invariance`).  `CallDepth`
alone is not inductive: a frame must know where it was called, so `Good` says that
the i-th frame was called at token i/2 at the earliest, that a flow collection has
read its bracket by the time it loops, that a frame below the top waits for its
callee, and that after an error the top is at a label that only unwinds.  `Link`
relates the columns of a caller and its callee, `Scoped` says that no marker lies
between an anchor's definition and the cursor.  Three lemmas (`ShapeSetTop`,
`ShapeCall`, `ShapeReturn`) say that the three things a step does to the stack
keep its shape; each action then shows that it does one of them, and where it
moves the cursor.  Frames and values have no type in the invariant: `IsSeq` says
that a sequence is one without saying of what.

`HeapProofs` proves, under the same assumptions and with any number of failed
allocations:

| Theorem | States |
|---|---|
| `NothingFreed` | `Spec => []NothingFreedTwice` |

Its invariant `HeapInv` holds together with `IInv`, on which each of its steps rests.
The ledger is an inequality, since blocks may be lost: every lemma `...Heap` about an
action shows that what can be reached grows by no more than the step takes from the
allocator, and shrinks by at least what it gives back.  For that a value must own at least
what its kids own, all the way down.  Values are trees of any depth, and there is no
induction over them to cite; so `Sane` says that the value lies in some set each member
of which has its kids in the set and owns at least their sum (`Closed`), and that is
what deep copies, `Push`, `HmSet` and `ApplyTag` keep.  A mapping's keys are distinct
(`Distinct`): a key set twice writes over one value and not two.  Sums over stacks, tables and kids
are recursive functions (`Total`); the lemmas about them (`TotalAppend`, `TotalReplace`,
`TotalAtLeast`) go by induction over a set of indices.  The buffer of a block scalar
changes hands when `parse_scalar` reads the token: from the library's side, which `Unread`
counts from the cursor on, to the value's, which is sound because the two allocators are
one then (`SameAllocator`, a hypothesis of the property).

`HashMapProofs` proves, for every set of keys and of values, every hash function
into the naturals (`HashAssumption`), every capacity a client asks for and every
failure of an allocation:

| Theorem | States |
|---|---|
| `TypeCorrect` | `Spec => []TypeOK` |
| `ChainsUnbroken` | `Spec => []ProbeChain` |
| `RoomIsLeft` | `Spec => []RoomLeft` |
| `WalksVisitOnce` | `Spec => []EachVisitedOnce` |
| `AllIsFreed` | `Spec => []FreedWhole` |
| `ImplementsDictionary` | `Spec => Refines`: every call is one step of `Dictionary` or a failure of it, everything else a stutter |

`IInv` adds to the properties what a call under way knows (`Probing`: the slots
between the key's home and `idx` are used, and none holds the key), what a growth
has done so far (`Moved`: the new table holds exactly the entries below `idx`), how
many blocks there are (`Blocks`) and where a walk is (`Walked`).  The table is a
circle; the lemmas about it speak of the distance `(i - h) % cap` from the home
slot, and the step that does the work is that filling the first free slot of a
chain keeps every chain.  That a probe finds a free slot is a counting argument:
`len < cap` is one of `IInv`'s parts, and `len` the number of used slots.  The
doubled capacity is a power of two again because an odd divisor of `2 * cap`
divides `cap`.  The refinement needs no history variable: `dict` is a function of
`entries`, and `ProbeChain` is why `hm_get`'s answer is the dictionary's.

`LexerProofs` and `LexerTextProofs` prove, for every family of memories that
satisfies `SourcesAssumption`, texts of any length in any of the encodings, every
initial capacity of the array of tokens and of a block scalar's buffer and every
failure of an allocation (`NothingLost` and `TokensFit` have in the property that
no token was dropped):

| Theorem | States |
|---|---|
| `TypeCorrect` | `Spec => []TypeOK`: the cursor stays in the text but for the two cases of `astray`, and the buffer of a block scalar always has room for its `'\0'` |
| `PlacesRight` | `Spec => []Places` |
| `FailuresReported` | `Spec => []FailureReported`: only the growth of the array of tokens may fail unreported, at the cost of one token each, and of none of the first `TokenCap` |
| `TranscodedFits` | the copies `decode_utf16` and `decode_utf32` fill are as large as what they write, for every memory and every byte order |
| `NothingLost` | `Spec => []LosesNothing` |
| `QuotesClosed` | `Spec => []QuotesClose` |
| `LexAdvances` | `Spec => Advances`: with the deadlock check of `lexer`, that `lex` ends on every text without a lone carriage return |
| `TokensFit` | `Spec => []TokensFitParser`: what the theorems about `Parser` assume of a token array, and what its instances do |

`IInv` of `LexerProofs` says that line and column are those of the cursor's place in
the text, of which every token and every block scalar under way keep their own
copies, that `Len(buf) < cap` for the latter, of the array of tokens (`ArrayOK`) that
what was pushed fits and that it holds `TokenCap` tokens at least by the time one is
dropped, and that without an error the allocations that failed are as many as the tokens
dropped.  A branch is a search or several,
one behind the other; the rule used for each is `FollowKeeps`: what holds at the
first place and is kept by each turn of the loop holds where it stays, as long as
the turns go forward.  `FlattenKeeps` is the same rule for the pieces a decoder
writes.  `LexerTextProofs` adds `ReadInv`: `LosesNothing` for the text up to
`ReadTo`, which is the cursor, but the scalar's start while a block scalar is read,
since only its end makes it a token.  `QuoteInv` says what `QuotesClose` does of each
token, and distinguishes the text a backslash made the cursor leave.  For a
double-quoted scalar the loop's invariant is that the place reached is escaped if and
only if an odd run of backslashes stands before it (`DoubleRuns`); for a
single-quoted one, that the quotes passed come in pairs (`SingleRuns`).

`TokensFit` looks at neighbours, so its invariant `FitInv` says of the tokens so far that
they fit (`FitSeq`, with the flow depth before each as a function of its number), and
of the last one what can still follow it where the cursor is (`LastFits`): a delimiter
behind a plain scalar; behind a block scalar another line, the end, or a header that goes
on (`GoesOn`).  While a block scalar is read it says that its header's line is over
(`BlockFits`).  At a lone carriage return `lex` appends empty scalars for ever and never
returns, so nothing has to fit there (`Stuck`).  Two tokens with equal line numbers have
no line break between them, since `Places` holds (`SameLineFacts`).  The first
attempt failed at `|1 a`: the text behind an indentation indicator is not part of the
scalar, and `YMLTexts` had no token array in which something follows a block scalar on its
line.  It has now, and `texts` reads them.

`TreeApiProofs` proves, for any number of nodes, keys, threads, queries and failed
allocations, and any capacities to start with:

| Theorem | States |
|---|---|
| `TypeCorrect` | `Spec => []TypeOK` |
| `LedgerBalances` | `Spec => []Ledger` |
| `NothingIsDangling` | `Spec => []NothingDangles` |
| `OneAllocatorBelow` | `Spec => []OneAllocator` |
| `CrashesHaveCauses` | `Spec => []CrashHasCause` |
| `TreesStayApart` | `Spec => CopiesStayApart` |
| `LookupsAreRight` | `Spec => []LookupsAnswer` |
| `BuffersComeBack` | `Spec => []BuffersReturned` |

`IInv` has three parts.  The forest: every kid is a node, no node has two parents or two
places in one, capacities hold the kids, and nothing hangs in the air.  The books: while
nothing has failed `live` is exactly the blocks the trees owe, and after a failure it still
has all of them, but for the growth in `map_insert`; and whatever hangs below a custom node
is custom (`Unmixed`).  And the lookups:
a call under way is where its path leads, with the rest of the path left.  Trees
have no size to induct over, so a subtree is the least set that holds its root and the kids
of its members, and that the roots' subtrees are all there is says that every
set closed in this way is the whole forest.  A builder's effect is then one of two: new nodes
are grafted, or a subtree is cut out; a copy is the image of the subtree under a renaming.
Where a path leads is a recursive function over its segments (`Trail`), which exists
by `SetInduction`.  The proof corrected the model: `failed` is the first allocation that
failed, also when an array that moves ends the process later in the same call (`After`).

`WriterProofs` proves, for every family of calls that satisfies `JobsAssumption`:
trees of any depth, any number of kids and any texts and keys, any indentation
(a negative one included), with and without `---`, into a stream or a buffer of any
size:

| Theorem | States |
|---|---|
| `BufferIsRight` | `Spec => []BufferHolds` |
| `NothingFollows` | `Spec => NothingAfterOverflow` |

`BufferHolds` speaks of the result only; its invariant `WInv` (theorem `Invariant`) says
at every step where the rest of the text is: the characters in the buffer, those the
activations on the stack still owe and the last line break are the `Whole` text, as long
as everything fitted; and once something did not, the whole text does not fit either
(`Account`).  The second half is what makes -1 exact: a piece that does not fit is part of
the text, so the text is at least as long.  What the stack owes (`Owes`) is a running
sum from its bottom, what one activation owes (`ToCome`) the total of the lines of
the kids that are left, in whatever order they will come; entering a kid takes its line
out of the sum and pushes an activation that owes it (`ToComeLess`).  `EmitFacts`
carries one call of `_yml_emit` over to the pieces of a step: either all their characters are
in the buffer, or they and the `'\0'` had no room.  An activation holds a tree of a level
that goes down by one from frame to frame, so that `Size` can be a recursive function over
levels; that it and `Trees` exist is proved by `SetInduction` (`SizesExist`, `TreesExist`).

What the theorems assume is what the modules `ASSUME`, each of which TLC evaluates
on the instances, and nothing else.

Only model-checked, and why:

 * liveness (`Terminates`, `ErrorEnds`, `BlockTextsEnd`, `CallReturns`), which TLAPS
   cannot state proofs of;
 * `ReadsWhatIsWritten` and `RoundTrips`: their references are RECURSIVE operators,
   and the modules that hold them (`YMLTrees`, `RoundTripProps`) have no SMT backend;
 * `BlockBody`, `FoldByRuns`, `InferAsDocumented`: folds and sorted sequences over
   operators, which no installed prover instantiates; `DecodesWhatIsEncoded`: powers of
   two by `^`, on which there are no axioms;
 * `HeapConserved`, the equality of which `NothingFreed` is the half that holds of every
   text: what it says is lost depends on where each block is, and the proved invariant
   bounds a value's blocks by those of its kids from one side only.

What computes over data of any size is still reasoned about, although the provers
have no induction rule to cite with an operator: the searches are recursive
*functions*, whose existence `EndsExist` proves once by induction over a set of
positions (`SetInduction`), and facts about them are instances of that set.

## Where the code and its documents differ

Beside the five violation runs:

 * The comment at `src/YMLParser.c:37-40` says that an alias returns the same
   pointer; the code makes a deep copy, and the mutant `SamePointer` shows what the
   comment's version would do to the heap.
 * `YMLParser.h:100-101` promises code 2 when memory runs out; `parse_error` always
   sets 1.  `YMLParser.h:156-158` knows code 2 of a lookup as a type mismatch only; it
   is that of a failed copy of the path, too.
 * `_da_push` reads `hdr->alloc` after `realloc` gave the header away
   (`src/_da.c:29`).  While the freed header is intact nothing is seen; with glibc an
   array that grows beyond 8192 values, and a text of more than 4096 tokens, has a
   mapping of its own, which `realloc` moves, and the process ends there.  In
   `TreeApi` any growth may end so, one of the causes of `CrashHasCause`, and in `Lexer` that of the tokens (`GrowCrash`).
 * README.md:321 says that children inherit their parent's allocator.  That holds
   below a custom parent (`OneAllocator`).  Below a malloc parent a custom child
   keeps its own, and the next deep copy gives its shell to the wrong one
   (`src/_yml_utils.c:37,55`): another cause of `CrashHasCause`.
 * A token the array could not grow for is dropped while `lex` succeeds
   (`src/_da.c:25-27`, `_lexer.c:638`), so `YMLParse` reads on with a token missing,
   behind the array if it was the EOF, where README.md has a code for memory that ran
   out: the exception in `FailureReported`.
 * `YMLParser.h:247` calls the writer's `.error` a static message buffer; it points into
   the context on the stack of the call that has returned (`YMLWriter.c:534,554`).  Not
   modelled, like all texts of messages.
 * `map_insert` frees the old value before `hm_set`, whose growth may fail
   (`YMLWriter.c:75`): the exception in `NothingDangles`.
 * A lookup through a value that is no object keeps its copy of the path
   (`YMLParser.c:1275`): the exception in `BuffersReturned`.  The message of a type
   mismatch is made from that copy after it was freed (`YMLParser.c:1261`).
 * README.md:453-464 checks once after several calls; every lookup resets the error
   state (`YMLParser.c:1207`), so only the last one counts.
 * What does not survive a round trip (`Lossy` in `RoundTripProps`): plain strings that
   `infer_scalar` types (`Null`, `TRUE`, `12`, `1e5`), that end in a blank or start
   with `]` or `}`; floats `%.17g` writes without a point; keys that need an escape,
   the key `<<`, an empty collection behind a key; `...` at the start of a line.
 * A block scalar's header swallows the line behind its comment
   (`_lexer.c:395-398`), and text behind an indentation indicator is left to be the next
   token, the scalar being empty (`|1 a`, `_lexer.c:377-398`); a lone carriage return stops `lex` from stopping
   (`_lexer.c:283`), a backslash at the end of an open double-quoted scalar is
   followed by a read behind the text (`_lexer.c:355`).

## Not modelled

 * The amalgamated header (`YMLParser.h` at the root): generated from the files modelled
   here.  Examples, tests and tools: clients and build.
 * Texts of messages (`g_error`), and with them the read at `YMLParser.c:1261`.
 * Values of numbers, and the digits `printf` makes of them; plain scalars longer
   than the 63 characters `infer_scalar` converts.
 * The growth of the parser's arrays and tables, which have room in its model (in
   `TreeApi` it is modelled), and what the parser does with an array of tokens that
   lost its EOF; the block scalar's buffer a dropped token loses.
 * Pointers a client keeps across a growth (`hm_get`, elements of an array), and what
   it writes through the one shared null node a failed lookup returns.
 * Clients that change a tree while others read it: no document allows it.

## Plan

Done: all components modelled and checked; the parser's control and its heap, the hash
map with its refinement, the lexer with its encodings, the tree API and the writer's
buffer proved.  What is left:

 1. `Lossy` and the tree a text is read as without RECURSIVE operators, level by level as
    `Trees` is, so that `RoundTrips` could be stated where the provers reach it.
 2. `HeapConserved` as a theorem: the invariant `Sane` with the exact number of a value's
    blocks in place of its bound.
