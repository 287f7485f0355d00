# Oly in TLA+

Oly moves tree-shaped data between data sources. An inbound source produces
nodes, a queue holds them, an outbound source consumes them. The program is one
process and one thread; its difficulties are buffers shared by producers and
readers that alternate, pointers that must stay in step over long sequences of
calls, operations that fail half-way and leave something behind, and a start-up
of some twenty calls each of which may end the program.

## The system

| component | state | operations | talks to |
|---|---|---|---|
| string buffer, `core/string_buffer.c` | two regions, each with a read and a write pointer; a reservation; which region is written and read | `space_available`, `reserve_string_buffer`, `enqueue_to_string_buffer`, `dequeue_from_string_buffer` | used by the node queue |
| node queue, `node/node_queue.c` | a ring of slots, `in`, `out`; a stack of collections; a string buffer | `enqueue_to_node_queue`, `dequeue_from_node_queue` | fed and read by the run loop |
| node, `node/node.c` | id, key, value, parent, depth, end mark | copy, reset, push, pop, descend, ascend | data source, node queue |
| boundary, `data_source/boundary.c` | a char buffer and an OChar buffer, each with a current pointer; an ICU converter | put, flush, get, clear | used by the data source |
| data source, `data_source/data_source.c` | a status that sticks, a staged key, one node, options, a boundary | `stage_node_key`, `enqueue_ds_node`, `ds_ascend`, options | called by the drivers, read by the run loop |
| run loop, `core/oly_run.c`, `core/dispatch.c` | the two data sources and the queue | receive until the stream ends or the queue is full, then send until empty | everything above |
| drivers, `tests/prototypes/yaml_to_sqlite.c` | a YAML parser, a SQLite handle | `yaml_inbound`, `sqlite_outbound` | data source |
| tags, `node/tag.c` | the caller's value, used again and again | infer a type from text, import, convert | ICU |
| start-up, `core/init_oly.c` | descriptors, environment, streams, the program record | `init_oly`, `close_oly` | configuration, messages, node queue, tags |
| configuration, `core/config.c` | which files were found | search, load | start-up |
| messages, `core/get_errmsg.c` | the table of messages | `init_errmsg`, look-up by status | start-up, every error |
| sponge hash, `lib/sha_three/KeccakSponge.c`, `KeccakNISTInterface.c` | the queue of bits, the state, absorbing or squeezing | `Init`, `Update`, `Final`, `Squeeze` | hash helpers |
| hash helpers, `hash/` | none | `get_hashbits`, write and read hexadecimal text | sponge hash, streams |
| resources, helpers, debugging programs | none or one record | look-ups and conversions | - |

Calls go downwards and nothing calls back: the run loop calls a driver, the
driver fills the data source's node, the run loop copies that node to the queue,
the queue moves its texts into its string buffer. What is hard:

- **order of calls.** Reservation, enqueue and dequeue of the string buffer come
  from different callers; the state turns round in one call and back in another.
- **failing half-way.** A node whose text is refused has already got its slot and
  changed the stack; a string that is too long keeps its reservation; an insert
  that failed is forgotten by the next one.
- **borrowed text.** A node points into the data source's buffer until its text
  has been moved; the next node overwrites that buffer.
- **edges.** One slot, one character or one bit more or less: the end of the ring,
  the terminators of a string, a length that fills a reservation, padding.
- **end of the stream.** Producer and reader must both find out.
- **what was there before.** Descriptors the caller left open or closed, a union
  that holds the last value, a status of the last file.

`PROJECT.json` lists the hazards line by line with the properties that cover them.

## Modules

| module | what it is |
|---|---|
| `StringQueue` | abstract: a queue of strings with a reader that may be told EMPTY or that its buffer is too small |
| `StringBuffer`, `MCStringBuffer` | `core/string_buffer.c`, cell by cell, and its instances |
| `StringBufferProofs` | theorems about the pointers of `StringBuffer`, and that it implements `StringQueue` |
| `NodeFifo` | abstract: a bounded queue of nodes with FULL and EMPTY |
| `NodeQueue` | `node/node_queue.c` with the stack of `node/node.c`, without a caller |
| `NodeQueueCalls` | the queue driven by any document and a reader |
| `NodeQueueProofs` | theorems about the queue's parents and texts, and that it implements `NodeFifo` |
| `TextBatches` | abstract: texts put in, flushed as a batch, got out in order |
| `Boundary` | `data_source/boundary.c` as operators on a boundary |
| `BoundaryCalls`, `MCBoundary` | one call of the boundary per step, and its instances |
| `DataSource` | the inbound side of `data_source/data_source.c` as operators on a data source; extends `Boundary` |
| `DataSourceCalls`, `MCDataSource` | a driver's calls, one per step, and their instances |
| `DataSourceLemmas` | what the operators of `Boundary` and `DataSource` do, operator by operator |
| `DataSourceProofs` | theorems about the calls of the boundary and of the data source, and that the boundary implements `TextBatches` |
| `YamlInbound`, `MCYamlInbound` | `yaml_inbound` of the prototype on a `DataSource`, and its instances |
| `Transfer` | abstract: what a run promises to its user |
| `OlyRun`, `MCOlyRun`, `OlyRunProofs` | the whole program: `YamlInbound`, `NodeQueue`, the run loop, `sqlite_outbound`; theorems about the driver and about a run, and that a run implements `Transfer` |
| `StartUp`, `MCStartUp`, `StartUpProofs` | `init_oly` with configuration and messages, `close_oly` |
| `Tags`, `MCTags`, `TagsProofs` | `node/tag.c` |
| `SpongeFunction` | abstract: the padded input and the stream that follows from it |
| `Sponge` | the sponge of `lib/sha_three` |
| `HashText`, `MCHashText` | the helpers of `hash/` on a `Sponge`, and their instances |
| `SpongeProofs` | theorems about the sponge and the helpers, and that the sponge implements `SpongeFunction` |

### StringBuffer

Pointers are offsets from `buffer_start`, `NULL` is -1, `state` is abbreviated
(`WARA` is `WRITE_A_READ_A`). `mem` holds the cells; cells nobody wrote hold
`Junk` or, by chance, a terminator. `live` is a history variable: the strings
enqueued and not yet read, and where they are. Each function is one operator
with one disjunct per outcome: `Reserve` is locked, refused or granted,
`Enqueue` finds no reservation, releases it for an empty string, keeps it for a
long string, or stores; `Dequeue` finds the buffer empty, the reader's buffer
too small, or takes. `SizeT` is the conversion of a negative difference to
`size_t`. `keep_long_strings` is never set in the code and is false throughout.

The callers are part of the specification: writers reserve `Len + h` for a
string of length `Len`, with `h` in `Headrooms`, and enqueue into a reservation
a string of the length it was taken for. The node queue has `h = 2` for keys and
`h = 0` for values; with `h = 1` a string fills its reservation. `ReadsUnderReservation` says whether a reader may come
between the two calls. The run loop never does that, the test of the buffer does.

### NodeQueue and NodeQueueCalls

The slots are `0 .. Size`, where `Size` is `queue_size / sizeof(OlyNode)` and
slot `Size` is `queue_end`. The stack is a sequence of node ids, for its entries
are copies of nodes that are only followed to their parents. Of the string
buffer only the write pointer is left, since nothing dequeues from it and it
never leaves `WRITE_A_READ_A`; lengths are kept, texts are reduced to where a
pointer points (`Places`). `Enqueue` has one disjunct per way out: full, stored,
a text refused, a failed assertion, too shallow, a NULL pointer followed.

`NodeQueueCalls` adds the callers. A document generates nodes as the YAML driver
does: a collection descends before it is passed on and ascends when it ends, so
its own depth is that of its members; after the end of the stream the run loop
passes on the last node once more, at depth 0 (`EndOfStream`). An empty value
arrives as a NULL pointer, for that is how the boundary hands out an empty text.
`ReadsDrainedEnd` says whether a reader may come when `in` and `out` are both at
`queue_end`; there `dequeue` wraps without looking.

### Boundary, DataSource, YamlInbound

One call of a driver makes several calls of the data source, and one of those
several calls of the boundary, all in one step of the program. The two lower
modules are therefore written as operators on a record, one per function or per
step of a function, and the modules with a state call them.

The boundary's layout is computed as the code does, in bytes; the OChars are
modelled cell by cell, for `u_strlen` reads up to the next terminator whatever
was there before, and the chars as the sequence up to `c_now`. A wide character
is two chars and one OChar. `enqueue_ds_node` is a composition of its steps
(`Numbered`, `PutKey`, `PutValue`, `Descend`, `SetKind`, `Flush`, `TakeKey`,
`TakeValue`, `Produce`); the statuses that the code overwrites before anyone
looks at them leave no trace there. The
node's key and value are the texts at their pointers, since the run loop copies
the node before the next call. A key longer than `key_staging` is refused but
copied all the same, past its end; keys are at most `KeyMax` long, which is the
shortest that is refused. A value in a sequence is staged as a key too, and of the
length of values nothing is assumed: the model keeps it whole, and does not say
what it overwrites behind `key_staging`.

`YamlInbound` has one action per parser event. The document is a stack of places
(a mapping's key or value, a sequence's item), `written` the nodes it names and
`passed` those that came out of the data source.

### OlyRun

`OlyRun` extends `YamlInbound` and instantiates `NodeQueue`, so that a run is the
composition of the modules above, from the parser's events to the two tables.
`phase` is where `oly_run` is: `InboundEvent` is one event of the parser inside
the dispatch function, `Receive` hands the node to the queue, `Send` takes one
out, `Store` makes the two inserts. `AfterReceive` has the ways out of the first
loop. The tables keep what the schema's constraints look at; `refused` and
`faults` are inserts the database refuses for reasons of its own, at most
`MaxFaults`. `OutNodes` is what the uninitialised `out_node` of `oly_send` may
point to: a node with or without a key, or nothing usable. `DIED` stands for a
failed assertion and a NULL pointer followed.

### StartUp

`pc` is the call that `init_oly` makes next, and every call has a disjunct for
each way it may fail. `Exits`, `Dies` and `Aborts` are the three ways the program
ends: by a text, by the message of a status, or without its exit handlers. `fd`
says who opened each descriptor, and may hold anything of the caller's at first;
`block` counts the bytes of the new environment as they are allocated and as they
are written; `files` are the configuration files as they happen to be. The values
read from them are left out, for the code drops them.

### Tags

`value` is a union: `content` is what it holds and `of` the text it was made from,
so that a part left over from an earlier import shows. The regular expressions
and the number formats belong to ICU: constants say which of them match a text
and how much of it they read, whether it is whole, and whether the hexadecimal format
reads all of it. An import that drops or cuts what was read leaves a "cut number".
`convert_tag` without a type stores through NULL, as its inference is given NULL to
store to. `TagAssumption` is what the expressions of the
resource have in common, and the instance's texts include the odd ones.

### Sponge and HashText

A message is a sequence of numbered bits, so that what was absorbed shows which
bit went where. The permutation is opaque; how often it was applied says which
block of the stream is in the queue. One round of the loops of `Absorb` and
`Squeeze` is one step. `HashText` puts `write_hex_from_hash` and
`read_hash_from_hex` behind it; `Edit` is one change to the text by hand. The
permutation being opaque, `digit` says what the half bytes of a hash come to, and may
be anything: equal bits have equal digits, and nothing else is known of them. `Scanned`
is `sscanf` of `%02hhx`: spaces are overread, then two chars may be a sign and a digit,
and a number below zero leaves its two's complement.

## Runs

| run | instance | shows |
|---|---|---|
| `string_buffer` | 11 cells, strings of 0 to 2 characters, headroom 1 to 3, readers with room for 4, 5 and 8, fairness | the safety of the buffer, that it implements `StringQueue`, that refusal ends and the head is read |
| `string_buffer_exact` | headroom 0 | violated: the assertion at `string_buffer.c:146` |
| `node_queue` | 4 slots, any document of 6 nodes and depth 3, a text buffer of 16 cells, fresh depth 0 or 1 | parents, own text, the stack, what may crash the queue, and that the ring implements `NodeFifo` |
| `boundary` | sizes 15, 24, 26 and 27, texts of one to three characters, three puts between flushes | the two halves fit into the allocation; conversion stays inside the OChars; implements `TextBatches` |
| `boundary_layout` | size 25, one over a multiple of three as is the program's 1024 | violated: what `open_oly_boundary` zeroes at `boundary.c:79` runs past the allocation |
| `data_source` | size 27, 4 nodes, nesting 3 with `MaxDepth` = 2, keyless strings, a value too long to fit beside a key | every node has its own key and value |
| `yaml_sequence` | any stream of 3 nodes | violated: scalars of a sequence are taken for keys |
| `oly_run` | any stream of 5 nodes, 6 slots, one failing insert, a key that is too long, an empty key, a value that finds no room beside a key | nodes passed on are those written, the depth follows the document, relations are true, and the run implements `Transfer` |
| `oly_run_live` | any stream of 3 nodes, 4 slots, `MaxDepth` = 1, any `out_node`, fairness | the run ends, unless the last slot is the last one used |
| `start_up` | 5 descriptors, any of them open, any limit, 3 places for a configuration file, each none, good or broken | no file becomes a standard stream, no message comes too early, a missing configuration is really missing, the environment fits |
| `tags` | 20 texts, any sequence of inference, given type and import, with or without a type | what is inferred can be imported, and an accepted text is the whole value and of the type, but for the texts that `IsForeign` names |
| `hash` | bytes of 4 bits, rates and lengths as in `MCHashText`, updates up to 25 bits, messages up to 30, hashes of up to 2 bits with any digits, up to two neighbouring chars edited | implements `SpongeFunction`; a digest survives its text, and a text that differs passes for it only if its first change is `Overlooked` |

The passing runs take any input, and some properties say how far they hold.
`TrueParent` and `RelationsTrue` hold as long as no collection directly follows
its sibling, as which one counts that is too deep to descend into; `NodeAsGiven` until a string without a key has come;
`PassedAsWritten` up to the first alias, scalar in a sequence, empty key,
collection that is too deep or text that finds no room in the boundary (`seen`);
`DepthFollowsDocument` up to the first collection that is too deep;
`NotFoundIsTrue` while libyaml works and a descriptor is left;
`InferredIsImported` for texts that are no odd numbers (`IsOdd`), and `AcceptedIsOwn`,
as far as it speaks of the type, for texts that the type does not take for another
(`IsForeign`); `HeadIsRead` until a string fills its reservation. Outside these
conditions the code does something else, as described under "Findings".

Bounds. The 11 cells of the string buffer hold several strings and let both regions
be used, turned round and drained. With a headroom of one a string fills its
reservation (`EnqueueLong`), so that every disjunct fires; a headroom of zero is the
run of its own. A larger buffer adds strings between the ends but no new relation of
the pointers, and the proofs cover every length. Six nodes on four slots fill the ring, wrap both pointers
and leave nodes beyond; depth 3 gives a collection with a parent and a
grandparent; a text buffer that ends at 15 is a multiple of a text's three cells,
so that an exact fit leaves the write pointer at its end. The sizes of the
boundary are the remainders modulo three, which decide how its layout is rounded,
with three to seven OChars: room for two short texts and not for three. In
`data_source` some values fit beside no key, so that nodes follow a refused text
as well as an accepted one; nesting goes one deeper than `MaxDepth`. Four nodes
are two more than it takes for a text to be left behind by one node and to turn
up in another. `MaxNodes` bounds the nodes of a document and the ids used up, an
alias's among them; in a run it is at least one, for a stream without nodes passes
on a blank one. In `oly_run` five nodes meet six slots, one of which stays free:
the queue is then full for the repeated last node, and with four nodes that node
gets the last slot. In `oly_run_live` three nodes and two, on four slots, do the
same, so that the runs that never end are among the behaviours; a second collection
is too deep there, so that a node may come out at depth 0 and end the loop before the
last. The queue counts every text of a run with the same length (`KeyLen`,
`ValueLen`), a text that the boundary refused and the one before it alike; which
texts find room in the boundary is computed from the texts themselves. Five
descriptors are the three standard ones and two more, of which a limit of three
leaves none for a configuration file. Bytes of 4 bits keep what eight do for the
sponge: partial bytes, blocks of several bytes, a padding that just fits, is one
bit short, or needs a block of its own. What the half bytes of a hash come to is open, so
that they may be equal, zero or anything else: with two bytes of two hexadecimal
digits of two bits each, all of it is tried. An edit that changes one char, or two
that stand together, inserts, removes or appends one meets every char class of a
`%02hhx`; texts with `0x` are left out. `ReadsUnderReservation` is FALSE in every
run and in the theorems: the run loop finishes an enqueue before it sends.
`ReadsDrainedEnd` is FALSE in `node_queue` and in two theorems; `oly_run` has no
such restriction. Deadlock is not checked where the program really stops: on a
failed assertion, at the end of a document, when a run or start-up has returned.

Fairness. `LiveSpec` of the string buffer asks that writers retry and finish what
they reserved (weak fairness) and that readers with room for any string run again and
again, whatever readers with less room try in between (strong fairness: a writer makes its two calls back to back, so the reader also finds the
buffer unreserved again and again). `LiveRun` asks that the program runs on (weak
fairness of `RunNext`: one thread that waits for nobody) and that documents are
finite: a collection that could end again and again does end (strong fairness of
`EndCollection` while the parser is asked for events). The reader's own call of
the queue, the inserts and the end of the stream need nothing more.

## Findings

Three runs end in a violation that TLC reports: disagreements between the code and
its own assertion, comment and documentation. `PROJECT.json` quotes the lines.

- `string_buffer_exact`: a reservation of exactly the length of its string, as
  for the values of the node queue, leaves the write pointer at `buffer_end`,
  against which the next reservation asserts;
- `yaml_sequence`: the scalars of a sequence are taken for keys;
- `boundary_layout`: the loop that zeroes the end of the OChars runs to the size
  asked for, while the allocation is that size rounded down to whole characters: one
  or two bytes are written behind it unless the size is a multiple of three, one for
  the program's 1024. The comment at `boundary.c:43` says that the layout rather
  wastes a bit than overflows. `OverrunIsRemainder` proves how far it reaches.

The models show more, which no document of the repository speaks about; the
properties of the passing runs say exactly where it begins:

- an empty value is followed as a NULL pointer by the node queue (`CrashCauses`);
- a queue drained at `queue_end` never reports EMPTY: a run whose nodes leave the
  last slot to the repeated last node sends blank slots for ever (`FillsLastSlot`);
- a node that is outside of all collections because one before it was too deep, and
  was ascended from once too often, is taken for the end of the stream: nothing behind
  it is read, and the run reports OKAY; it too replays for ever when that node lies in
  the last slot (`FillsLastSlot`);
- `out_node` in `oly_send` is uninitialised; a key may get lost on the way or the
  program may stop (`OutNodes`, the key `Lost` in `Transfer`);
- a collection that directly follows its sibling collection gets no stack entry,
  so its members are given the sibling as their parent (`SiblingCollections`);
- the status of a failed insert is overwritten with NODE_CONSUMED, and the run
  reports OKAY (`Transfer` allows OKAY with `refused` rows);
- a text the boundary refuses leaves its node to be passed on without it, since
  BUFFER_OVERFLOW is overwritten, and NODES_TOO_DEEP likewise; the text of a
  keyless string stays in the boundary and turns up in a later node; an alias
  leaves its key staged; an empty key is taken for none, so that the string beside
  it is such a keyless one (`PassedAsWritten` excepts it);
- a string that is read while a reservation is held can make the enqueue that
  follows lose its string: with `ReadsUnderReservation` = TRUE TLC finds
  `ReservationHolds` and `QueueSpec` violated; a string one OChar shorter than its
  reservation is not stored and leaves the buffer reserved;
- with a libyaml that cannot start, a configuration file hides all later ones;
  files that are opened are never closed;
- a text that is no bool is accepted as one when the union held NULL or false
  before, and any text as null; an int of more than 32 bits ends the program, one in
  hexadecimal is cut, and of a text that is given as an unsigned int the format reads
  what looks hexadecimal; a text with a fraction that is given as an int becomes the
  number before it (`IsForeign`); octal numbers are inferred and not imported; the
  expression for infinity in the resource lets `-inf` infer as plus infinity;
- `convert_tag` without a type infers one through the NULL pointer it was given, and
  stores through it (`CRASHED` in `Tags`);
- `read_hash_from_hex` takes a lone digit for a byte and `+5` for 05, overreads a space
  for the first half, and reads `-8` as f8: of a digest with such a byte there are
  other texts that pass for it (`Overlooked`).

Some things were met while reading and are outside the models: the ring is
allocated in bytes, not slots (`node_queue.c:38`); the prototype's `main`
finalises its last statement twice; the home directory in `get_home` and the two
names in `init_primary_resource` are allocated without room for their terminator;
the values read from a configuration file are dropped, and the value of an unknown key is looked
up as a key; `init_locale` may return a pointer to a local array.

## Proofs

Everything below is proved for every value of the constants under the named
assumptions of the modules, and TLC has checked each property on an instance.

### The string buffer

`StringBufferProofs` proves, for every buffer length, alphabet and set of
strings, under `Disciplined` (callers reserve at least one OChar more than the
string has, and readers do not run while a reservation is held):

- `PointersSafe`: `PointerInv` is invariant. It says which region is used in
  which state, that the regions do not meet, and that a reservation starts at
  the write pointer and ends short of `buffer_end` and of unread text.
  `RegionsApart` alone is not inductive: what enqueue does to the pointers is
  only safe because of where the reservation lies, and where it lies is only
  safe because the regions were apart when it was granted.
- `TypeCorrect`: the type invariant, which says that no pointer leaves the
  buffer; it needs `PointerInv`.
- `AssertsNeverFail`: the assertions of `reserve_string_buffer` hold.
- `RegionsStayApart`, `ReservationsHold`: the two properties of the same names
  that `PointerInv` is made of.

`NoWrap` and `TurnIsSafe` are the arithmetic: no unsigned difference wraps, and
turning round keeps the regions apart. There is one lemma per operation.

Under the same assumptions the second half proves what the pointers are for:

- `StringsInPlace`: `QueueInv` is invariant. Every unread string is whole in the
  region that is read or in the other one (`EntriesPlaced`), the first begins at
  the read pointer and the last ends at a write pointer (`EndsPlaced`), each
  begins where the one before it ended or at the start of the other region
  (`EndToEnd`), those read later lie behind (`InOrder`), and all are in memory as
  they were enqueued. `UnreadIntact` alone is not inductive: that a read takes
  exactly the oldest string needs its place, and that its successor is found next
  needs the places of all. `LongQueue` is the case of a string that fills its
  reservation: it is copied there and not stored, and no unread cell changes.
- `UnreadStaysIntact`, `ReservationBoundsWrites`: no write reaches unread text,
  nor any cell outside its reservation.
- `ImplementsQueue`: the buffer implements `StringQueue`. The refinement maps the
  entries of `live` to their strings (`StringsOf`); a stored string is a `Put`, a
  taken one a `Take`, the other calls stutter or report.

The proof uses that the places depend on the read pointer and on the two write
pointers named by their role (`ReadWrite`, `OtherWrite`): turning round swaps what
is written, and leaves all three as they are (`TurnKeepsReaders`, `SamePlaces`).
`Disciplined` is needed: `string_buffer_exact` shows the assertions fail for
callers that reserve less. TLC has checked `PointerInv` and `QueueInv` on the
instance of `string_buffer`.

### The node queue

`NodeQueueProofs` proves, for every ring, text buffer, depth and document:

- `Invariant`: `Inv` joins the types, `DocumentInv` (which ids there are, how deep
  the document is against the last node), `StackMatchesDepth`, `StackInv` (the
  j-th stack entry is a collection of depth j), `SlotInv` (every slot but that of
  a failed enqueue owns its text and its parent lies right) and `CrashCauses`.
  `ParentDepth` alone is not inductive: the parent comes from the stack, the stack
  is cut by the difference of two depths, and the previous depth is read from a
  slot that a reader may have reset in between.
- `TypeCorrect`, `StackFollowsDepth`, `CrashesExplained` and `TextsAreOwned` follow,
  and with `WaitingInv`, which says that a slot that waits holds a node,
  `ParentsLieRight`.
- `ParentsAreTrue`: while no collection directly follows its sibling, every waiting
  node has the parent that the document gives it. `TrueInv` says that the
  collections that are open are then the first on the stack.

`EndOfStreamFails` is the lemma the run loop lives on: the last node passed on
once more at depth 0 is always too shallow, or the queue is full.

`ImplementsFifo`: the ring, mapped to the sequence of its
waiting slots, is a bounded first-in first-out queue. Neither the stack nor the
string buffer matters for it; the work is in the ring's arithmetic (`After`), which
treats `queue_end` as a slot. `ParentsLieRight`, `ParentsAreTrue` and
`ImplementsFifo` assume `ReadsDrainedEnd = FALSE`: reading from the drained end
brings back slots that were read before.

### The boundary and the data source

`DataSourceLemmas` says of each operator of `Boundary` and `DataSource` what it
keeps and what it returns; `DataSourceProofs` proves about their calls, for every
size of nine bytes or more, every alphabet with any of its characters wide, and
every text:

- `LayoutAlwaysHolds`: the halves lie apart in the allocation, and the gap and the
  end of the second one are zeroed. `Thirds` counts the layout in thirds of the size,
  `EveryLayoutFits` is the arithmetic, and no call changes the size.
- `OverrunIsRemainder`: the bytes zeroed behind the allocation are size % 3 many, for
  every size; with it `boundary_layout` is not a matter of one size.
- `ConversionAlwaysFits`: what is flushed ends short of the last terminator, since
  chars become at most as many OChars.
- `BoundaryIsBatches`: the boundary implements `TextBatches`. `BatchInv` says that
  the chars are the encoded texts with their terminators (`Spelling`), and that the
  OChars from the current pointer on are the texts not yet handed out.
- `NodesAreAsGiven`: until a string without a key has come, every node has its own
  key and value. The chars are then empty between two calls of `enqueue_ds_node`,
  `Accepts` says which texts find room, and `TakeKey` and `TakeValue` hand out the
  ones that were put in, or withhold the last.

What a boundary holds is built text by text and character by character, so that
lemmas about all texts need induction over data. `NumberInduction` and
`AppendInduction` get it without an operator as a parameter: over a set of numbers
or of sequences, by the least number that is not in it.

### The YAML driver

`OlyRunProofs` proves about the driver alone, for every stream of events and every
boundary:

- `DepthFollows`: the depth of the data source's node is the number of open
  collections. `DepthInv` adds that the data source is of its type and that its
  status between calls is never NODE_PRODUCED: with that status the next enqueue
  would be turned away while the driver believes it has descended. Only `Descend`
  touches the depth.
- `DriverTypes`: the types, through every refused text. `TypeInv` adds that the
  data source is `Typed`: its boundary keeps the two terminators at its end, at
  which every reading of a text stops; and that no more ids are used up than `MaxNodes` allows.
- `PassesAsWritten`: the nodes passed on are those of the stream. `PassInv` says
  that none is missing while the stream goes on, that the chars of the boundary are
  empty between two calls, and (`StagedInv`) that before a value its key is staged,
  or was too long, and elsewhere nothing is. Nothing is assumed of the lengths of keys
  and values: whether a text finds room (`IsRefused`) is computed where it is put in,
  and one that does not is an exception that `seen` names ("no room"), as an alias is.

### Start-up

`StartUpProofs` proves, whatever the descriptors, files, environment and failures:

- `Invariant`: `Inv` says for each place of `init_oly` which descriptors are taken
  (`FdInv`), what the program record owns (`MemoryInv`), which static variables are
  set (`StaticInv`) and how the program may have ended (`EndInv`).
- `TypeCorrect`, `StdFilesApart`, `MessagesAreReady`, `NoAssertionFails`,
  `ReturnIsReady`. `StdOpened` is the reason for two of them: since descriptors
  are looked at from 0 upwards, the lowest free one is the one asked for.
- `EnvironmentAlwaysFits`: the block of the clean environment holds what is copied
  into it. Only `cleanenv` sets the block (`BlockStep`); `NewBlockFits` compares the
  two sums, of which `SumFunction` shows that they do not depend on the order in
  which the environment lists its names.
- `NotFoundMeansNone`: a start-up that gives up for lack of a configuration file
  has met none. `SearchInv` is needed on top: no descriptor was spent while
  nothing was loaded, so that `fopen` failed for missing files only, and all files
  up to the current directory are missing.

### Tags

`TagsProofs` proves `TypeCorrect`, `InferenceAgrees` and `AcceptanceOwns` for every
set of texts and whatever ICU reads of them, from `TagAssumption`: no text matches
two expressions, but an int is a float as well. The invariant adds to the types
that an inferred type is one whose check the text passes (`InferInv`).
`AcceptanceOwns` names the texts that a type takes for another (`IsForeign`): any as
null, neither word as a bool, a fraction as an int, and what the hexadecimal format
reads in part or cuts. What is accepted besides is a value of its type and text.

### The run loop

`OlyRunProofs` proves about the whole program, for every stream of events, every
queue, text buffer and boundary, and every failing insert:

- `RunDepthFollows`, `RunPassesAsWritten`: what is proved of the driver alone holds
  inside a run. The driver's steps are steps of `YamlInbound`, or leave its
  variables alone.
- `RunTypes`: the types of driver, queue and tables. `RunTypeInv` joins those of the
  driver and of the queue to `RunInv`, for what the queue is given is typed only as
  long as the loop receives what the driver produced.
- `RunTransfers`: a run implements `Transfer`. `TransferInv` relates the queue to
  the nodes passed on and to the rows stored: what waits in the ring is the nodes
  from the first that is not settled to the last one, possibly with the last one
  once more, and after that only slots that were reset. The abstract steps are
  found per action (`Give` for a node passed on, `Deliver` or `DeliverLastAgain`
  or a blank one for a row), and the order of the rows comes from the ring's.
- `RunRelations`: the stored relations are those of the document. `RelationInv`
  adds to `RunInv` that the open collections are the first on the stack
  (`PathInv`, `ParentInv`); `ParentOf`, which is stated over the whole list of
  nodes passed on, is the entry of the stack at the node's depth.

These need `NumberInv`: the id of the data source's node is
the number of nodes passed on, as long as no call fails.

### The sponge

`SpongeProofs` proves, for every set of rates in whole bytes and every width of a
byte:

- `NothingIsLost`: no bit of the message is lost, doubled or moved, however it is
  cut into updates, partial bytes and blocks. While absorbing, `Filling` says where
  each bit of the message is: in absorbed blocks, in the queue, in what the running
  call has still to take, or in the byte whose bit order was changed.
- `SpongeIsFunction`: the sponge implements `SpongeFunction`. The padding is the
  hard part: `PaddedOnce` and `PaddedTwice` are its two ways, `PaddedInput` joins
  them. While squeezing, `Emptying` says how many bits of which block of the stream
  are left.
- `HashIsSponge`: the helpers of `src/hash` only ever make steps of `Sponge`, so
  that both hold for them.
- `DigestIsReadBack`: a digest is read back from its own text, whatever its half bytes
  are; and a text that reads as the digest has its first change, if any, at a place
  that reading overlooks. `DigitInv` and `TextInv` say that the half bytes stay the
  same digits while there is a text. `OwnTextIsRead` is the first half;
  `ChangeIsOverlooked` the second: up to the first change the text is the digest's own,
  so that the byte in question is read where it stands, and `ScannedHere` says what
  two chars read as.

### Only model-checked

Liveness: `RefusalEnds`, `HeadIsRead` and `RunEnds`, which the prover cannot treat.
Every other property of a passing run is also a theorem.

## Not modelled

`PROJECT.json` has the status of every component. Left out are:

- replacements of C library functions that are built only where the system lacks
  them (`lib/malloc.c`, `lib/strerror.c`) and libtool's loader, all vendored; they
  are a third of all lines, and with the two below and the test harness the larger
  part, so that the models stand for a small share of the lines;
- the rounds of the Keccak permutation in its variants, the duplex construction and
  the generator of known answers, which nothing calls: the permutation is a
  function on 1600 bits without control;
- `data_source/oly_yaml.c` and `node/tag_json.c`, which the Makefile leaves out;
- functions that nothing calls: `flush_outbound`, `copy_ochar_buffer`,
  `get_boundary_out_start`, `char_to_size`, `char_to_uint32`, `get_str_hashlen`;
- the data source's options, opening and closing, each a test and an assignment;
- wrappers of ICU and of the C library in `resources/` and `core/`, whose failure
  is one of the ways a call of `StartUp` fails;
- the debugging and demonstration programs and the tests' own harness.

What is left of the program's control is a converter that fails in the middle of
a text, and the accessors of nodes that only a future driver would call.
