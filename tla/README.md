# Verification of CommonLib_Linux in TLA+

CommonLib_Linux is a collection of C libraries and programs. Its own core logic
is in a handful of them: the TinyFrame serial protocol (`tf_demo/`, and a fork
of it in `tinyframe/`), the USB-pipe request/response protocol (`usbpipe/`), the
growable buffer (`common_utils/`), the logger (`lib_log/`), the B+tree in memory
(`lib_btree/`) and the B-tree database in a file (`sdb_test/filedb.c`). The rest is
vendored code, ports of nginx containers, examples and single-purpose tools.

This directory holds models of those six, the TLC configurations that check
them, and proofs checked by TLAPS. `PROJECT.json` maps every definition to the
lines it models and lists runs, mutants, hazards, findings and theorems. Paths
below are relative to the repository.

    tlc -workers 2 -config listeners_main.cfg MCListeners     # a run
    tlapm TFSessionProofs.tla                                 # a proof module

## 1. Inventory

### TinyFrame (`tf_demo/TinyFrame.c`, `TinyFrame.h`, `TF_Config.h`)

A point-to-point framing protocol for a serial line. One `TinyFrame` struct
has three parts with separate state:

| part | state | operations |
|---|---|---|
| listeners | `id_listeners`, `type_listeners`, `generic_listeners` and their `count_*_lst` | `TF_Add/Remove/Renew*Listener`, `TF_HandleReceivedMessage`, the expiry loop of `TF_Tick`, `TF_InitStatic` |
| transmission | `soft_lock`, `sendbuf`, `tx_pos`, `tx_len`, `tx_cksum`, `next_id` | `TF_Send`, `TF_Query`, `TF_Respond`, the `_Multipart` variants, `TF_Multipart_Payload/Close` |
| parser | `state`, `rxi`, `id`, `len`, `type`, `cksum`, `data`, `discard_data`, `parser_timeout_ticks` | `TF_Accept`, `TF_AcceptChar`, `TF_ResetParser`, one line of `TF_Tick` |

They interact by calls. The parser calls `TF_HandleReceivedMessage` with every
complete frame; a query installs an ID listener inside `TF_SendFrame_Begin`;
listeners are user callbacks and may call any function of the API, which is the
usual way to answer. `TF_Tick` is called periodically, "commonly" from an
interrupt handler (`TinyFrame.h:224`). The demos run `TF_Accept` in a thread of
its own.

What is hard: a dispatch suspended in a callback that changes the very tables it
loops over; a tick in the middle of it; the Tx lock, tested and set in two
steps; frames flushed in pieces from a buffer of fixed size; resynchronisation
of the parser after noise, loss and timeouts.

What makes it correct: loops reach every live listener; every `userdata` is
handed back exactly once; timed listeners go away; only whole frames reach the
line and the lock never leaks; the parser delivers every undamaged frame and
nothing else.

`tinyframe/TinyFrame.c` is a modified copy. Its parser
returns a code per byte in place of calling listeners, and
`tinyFramefRx` and `tinyFramefTx` hide the struct.

### usbpipe (`usbpipe/libpipe`, `usbpipe/host`, `device`, `sender`)

Requests and responses over one FIFO (`PIPE_TEST` build) that host, device and
sender all open for reading and writing. State of the host: `g_stInfo` (status,
fd, event handler), `g_seq`, the response list `g_list`, one listener thread per
`zw_usbpipe_uptp_init`. `call_sync` writes a request and polls `g_list` for its
sequence number; the listener polls the FIFO and pushes responses. Hard: any
reader can take any message; messages behind the first of a `read()` are lost;
no timeout; an uninitialised `msgType`; `uninit` under a running listener; a
linked list used by two threads without its mutex.

### mbuf (`common_utils/mbuf.c`)

`buf`, `len`, `size` over a heap block; init, free, resize, trim, append,
append-and-free, insert, remove, clear, move, printf. Hard: `realloc` failing
or moving the block inside an operation, take-over of a user's block, overlaps
and boundaries of `memmove`.

### lib_log (`lib_log/log.c`)

`mylog` formats a line and sends it to a System V message queue with
`IPC_NOWAIT`; a writer thread appends lines to the file of the day;
`init_log` removes old files, replaces the queue (which outlives the process)
and starts the writer. Hard: crash and restart with a full queue, midnight
between the steps of a line, the size limit with several writers, repeated
`init_log`.

### lib_btree (`lib_btree/btree.c`, `btree.h`)

A B+tree from keys to pointers: `node` and `height` per tree, nodes of a fixed
number of slots. `btree_insert`, `btree_remove`, `btree_merge`,
`btree_lookup`, `btree_last`, `btree_visitor`, `btree_grim_visitor`. One thread.
Hard: removal borrows from or merges with neighbours and recurses to the root;
insertion rebalances and splits upwards, and any of its allocations may fail; the
way down lowers keys before it is known how the call ends; `BUG_ON`
aborts where the author thought a case impossible. Correct: a
tree is a map, found again by its inner keys, that a failed call leaves whole.

### filedb (`sdb_test/filedb.c`)

A database in one file: a head with counts and a free list, key blocks that form
a B-tree, and value blocks that entries refer to. `db_create`, `db_open`, with
`db_checker`, `db_insert`, `db_delete`, `db_search`, `db_close`. A call writes
block after block with `pwrite` and has no log. Hard: the program or the disk
space ends between two writes; value blocks are counted, given up and handed out again;
deletion borrows and merges on its way down with copies of blocks in hand. Correct:
what a finished call did is in the file, the counts agree with it, and what a call
that was cut off leaves is the old or the new map, or is refused.

### Not modelled

Most lines of the repository are vendored: three copies each of sqlite3 and
mongoose alone are some 470,000 of 544,000. What follows is left out.

* `data_struct/ngx_pool`, `test_alist`, `struct_data/ngx_queue`,
  `ngx_array`, `test_bitrate`, `aac_parse/adts.c`, `in_cksum` of
  `linux_net/ping`, the payload builder/parser of `tf_demo/utilities`: planned,
  see section 6.
* `struct_data/ngx_hash`, `ngx_radix_tree`, `ngx_rbtree`, `nginx_module`,
  `live555_module`: nginx and live555 code, almost verbatim.
* `lib_mongoose`, `use_sqlite3`, curl, zlib: vendored; `test_mongoose` and
  `tmp_mongoose` are handlers whose control is in mongoose.
* `gui_filesearch.c`: a file search for a GUI whose other sources are not here.
* `smemcap`, `ntp`, `png2argb`, `sys_proc`, `tcp_cli`, `linux_net/*`,
  `timer_test`, `multi_pthread`, shell scripts and the many examples: I/O
  without state of their own. `PROJECT.json` lists each with its reason.

## 2. Modules

| module | models | extended by |
|---|---|---|
| `TFListeners` | listener tables, dispatch, expiry | `MCListeners`, `TFSessionProofs` |
| `TFTransmit` | Tx lock, composing, flushing, multipart | `MCTransmit`, `TFTransmitProofs` |
| `TFSession` | queries and answers of two peers; extends `TFListeners` | `MCSession`, `TFSessionProofs` |
| `RequestReply` | abstract: what `TF_Query` promises | instantiated by `TFSession` |
| `TFFrame` | frame layout and checksums, pure operators | `TFParser` |
| `TFParser` | parser, a line with faults, the fork's parser | `MCParser`, `TFParserProofs` |
| `Uptp` | UPTP host, device, sender, FIFO | `MCUptp`, `UsbpipeProofs` |
| `UptpList` | the response list, one memory access at a time | `MCUptpList`, `UsbpipeProofs` |
| `ByteString` | abstract: what an mbuf promises | instantiated by `Mbuf` |
| `Mbuf` | `mbuf.c` on a heap | `MCMbuf`, `MbufProofs` |
| `LibLog` | `log.c`, message queue, files, restarts | `MCLog`, `LibLogProofs` |
| `OrderedMap` | abstract: what a B+tree promises | instantiated by `BTree` |
| `BTree` | `btree.c` on its nodes | `MCBTree` |
| `KeyStore` | abstract: what the database promises | instantiated by `FileDB` |
| `FileDB` | `filedb.c` on the blocks of its file, write by write | `MCFileDB`, `FileDBLemmas` (and that by `FileDBProofs`) |

Definitions whose comment begins with "Mutant:" are not part of the model: each is a
plausible bug in the definition behind it, used to see that a property notices.

### TFListeners

A slot is `Null` or a record of the listener's fields; the rest of the record
is what the C struct holds. User code is not one action: `rx`, `tick` and `cl`
say in which callback (`TF_HandleReceivedMessage`, `fn_timeout`, cleanup with
`data == NULL`) the library is suspended, and while `UserRuns` the API is
called from there: adding and renewing any listener, and removing any but those
the next paragraph names. `cl` is a sequence, because a cleanup callback may
remove another listener and so have its callback called from within its own.
`IdCallbackReturn` etc. are the code behind the callback, up to the next
callback; the callback may have put any pointer into `msg.userdata`, NULL and an
object that has not been registered among them. The `for` loops between two callbacks touch nothing a
callback could see, so a turn to the next match is one step (`Offer`,
`TickExpire`, with `Aged` for the slots that are only counted down).

What callbacks are taken not to do: remove a listener whose cleanup callback
runs, which would call it again without end, since `cleanup_id_listener` clears
`fn` only behind the callback (`TinyFrame.c:276`); remove, unless `SelfRemove`,
the listener they run for; call `TF_InitStatic`.

Modes: `TickPreempts` lets `TF_Tick` start while a dispatch is suspended in a
callback; `SelfRemove` lets a callback remove its own listener. With both
`FALSE` (TF_Tick from the main loop, listeners end themselves by `TF_CLOSE`)
`UserdataAccounted` holds; with `TickPreempts` it does not (finding
`listeners_systick`).

Limits: `TF_Tick` is not interrupted by anything and does not interrupt the
middle of an API call or of a cleanup callback. A listener registered from a
callback of the tick in a slot behind the loop's position is counted down by
that same tick (`TinyFrame.c:1072`); the model has this behaviour, and
`TimeoutCounts` of `TFSession` says how far it goes. A failing call (table full, nothing found) changes
nothing and is no step. A listener without a timeout is registered without
`fn_timeout`, which would never be called. A message has an ID and a type; its data is left out.

### TFTransmit

A context is a thread or, with `Nested`, an interrupt level that runs only when
no higher one is active. `ClaimTest` and `ClaimSet` are the two halves of
`TF_ClaimTx`; `TF_SendFrame_Begin` composes the head and may fail to install the
query's listener; `TF_SendFrame_Chunk` and `TF_Multipart_Payload` do one turn of
the copy-and-flush loop; `TF_SendFrame_End` adds the checksum and releases the
lock. A byte is a record naming its frame and position, so that a byte in the
wrong frame is visible in `wire`.

`UncheckedRespond` adds `TF_Respond_Multipart`, which returns nothing: its caller
goes on although the claim failed (`TinyFrame.c:1041`): under it `FramesIntact` fails,
one frame's bytes landing between another's pieces. The run and the proofs leave
it off, that is, they take it that such a response is not sent while a context of a lower level sends. An empty
multipart frame is sent by `TF_SendFrame` at once and again, from whatever is in
`sendbuf`, by `TF_Multipart_Close` (`TinyFrame.c:958`); the model has this (`pc =
"close"`), and the passing run and the proofs exclude it by `0 \notin MultiLens`.
The fork's `TF_SendFrame_Begin` returns with the lock held when the listener
table is full (`tinyframe/TinyFrame.c:957`); its transmit side is not modelled yet.

### TFSession, RequestReply

`TFSession` extends `TFListeners` with the line: `TF_Query` takes an ID and
installs the listener, the other peer answers once, twice or not at all, frames
are lost in both directions or stay on the line as long as they like, and the
answers run through the dispatch and the ticks of `TFListeners` unchanged. A frame is whole
here, since bytes are the business of `TFTransmit` and `TFParser`. `held` of
`TFListeners`, the userdata in the library's hands, is the set of open queries,
which makes the mapping to `RequestReply`. `waited` and `early` are histories for
`TimeoutCounts`: ticks since the query was made or renewed, and queries made in
the middle of a tick, which may be one short.

### TFFrame, TFParser

`Compose` is the frame as `TF_SendFrame` writes it; `TF_AcceptChar` is the
state machine, a function from parser and byte to parser and message. Bytes come
from a peer's frames (`Send`, `Receive`), from noise, or changed (`Corrupt`); one
may be lost (`Lose`), and ticks pass. `hist` keeps the bytes of the frame the
parser thinks it is in.

The checksum is a parameter. `CksumAssumption` says that it is one byte, as in this
build. `SingleErrorCaught` needs `DetectsChange`, that a different byte or a different
intermediate sum gives a different sum; `MCParser` has TLC evaluate it for XOR. The
parser counts the bytes of every field in `rxi`, a number of `TF_LEN_BYTES` bytes,
hence the bounds on `IdBytes` and `TypeBytes` in `FormatAssumption`.

With `Fork = TRUE` the three states in which `tinyframe/TinyFrame.c` differs are
used. It carries on after a bad head (`:720`, finding `fork_head`), reports a frame
without payload before its head checksum is read (`:691`), and returns 0 for a
payload it has discarded (`:769`). The header calls the code an
"accept state {fail =0;sucesse =0xff}" (`tinyframe/TinyFrame.h:381`), whereas
the code uses 0 for a received frame; the model takes the code's meaning.

### Uptp, UptpList

`Uptp` has the three programs and the listener threads. `fd` and `open` separate the number in
`g_stInfo.fd` from the descriptors that are open, because the listener reads the
number twice (at its start for `poll`, before every `read`), with `uninit` possibly in
between; `uninit` never sets `bListemThreadExit`, so the thread stays. Its steps are
`Start`, `Poll`, `ReadFd` (the number is taken), `ReadEnter`, `Read` and `Handle`: a
`read` that has begun holds the file whatever becomes of the descriptor. A `read` that begins
with -1 or with a closed descriptor returns -1, and `zw_uptp_recive` asks `memcpy` for that many
bytes (`ReadFails`, `crashed`). The device opens the FIFO, receives, and answers in
three steps, with other messages in between. The FIFO forgets what is in it when nobody has it
open (`Left`); a program outside the model may have it open, so it may also remember.
One device program runs at a time. `call_sync` never sets `msgType`: `MsgTypes` are the values it
may have; with 1 the host's own listener takes the request for a response and
`call_sync` returns it. The sender's message has seq 1, like the host's first call,
and the device answers it. None of these makes a call return an *earlier* call's
answer, which is what `NoStaleAnswer` states. `call_sync` has no timeout, so it
may wait for ever; `CallReturnsUnlessLost` says in exactly which cases: a `read`, its own listener's included, took or dropped its request or answer, it was written to descriptor -1,
the listener has died, or no device runs.

`UptpList` has `LIST_INSERT_HEAD` and `LIST_REMOVE` one load or store at a time,
because neither `push` nor `pop_by_seq` nor `destroy` takes `mtxLock`. The two
threads overlap anywhere. `clash` records that a node was unlinked during a push;
then list and memory can be damaged, and the properties say that nothing less
than this does it: in particular the search of `call_sync`'s loop, which runs all
the time, is safe next to a push.

### ByteString, Mbuf

`Mbuf` keeps, for every struct, its three fields, and a heap of blocks with their
bytes. `ReallocTo` gives every address `realloc` may return; a call whose
allocation fails is the disjunct that leaves things as they are. `Content(m)`
maps an mbuf to the string of `ByteString`; `ImplementsByteString` is the
refinement. Its steps do not say which call they belong to, so a call that did what only
another call may do would pass; `CallsDoAsAsked` holds each call against the abstract operation of its
own name and arguments. `mbuf_printf` fails, with -1, when `vsnprintf` does. Its buffer for a long text
(`mbuf.c:170`) is taken to be granted: without it the code formats into NULL. Callers' duties taken over from the code: `mbuf_init` and the target
of `mbuf_move` own no block (otherwise it leaks), and the argument of
`mbuf_append_and_free` is a separate block. `mbuf.h` says of `mbuf_resize` that a
`new_size` smaller than `size` does not adjust ("不会调整"); the code shrinks down to `len`, and so
does the model.

### LibLog

A day's file is a sequence of numbered lines. `Receive`, `OpenFile`, `CheckSize`
and `WriteLine` are the steps of `recv_msg` between which another writer, a
restart or midnight can come. `Restart` ends the process at any point and keeps
queue and files. `read_filelist` lists at most `MaxCount` files (`Listings`).
`East` is 1 where local midnight is still the previous day for `gmtime()`, which
`file_alives_proc` uses to name the first day to keep. Formatting, the level filter and
directory creation are left out. A line logged before `init_log` goes to queue
identifier 0 (`s_msg_id`, `r_msg_id`); should such a queue exist, the line is in it or removed with it, and
in the model it is lost. `s_msg_id` and `r_msg_id` are two variables because a `msgget`
that fails in a later `init_log` (`log.c:278`) spoils the first only: the writer then goes on
with a queue nobody sends to. Two results the code does not look at are assumed to be good:
that of `msgctl(IPC_RMID)` (`log.c:284`), on which `NoStaleLines` rests, and of reading the log
directory (`log.c:157`), on which `CleanupBounds` does. `CleanupBounds` counts what `read_filelist` had no
room for (`Unlisted`): those files stay.

### BTree, OrderedMap

A node is the sequence of its used slots. The operators keep the names of the
functions and pass a record `s` along: nodes, root, height, memory left, error and
abort. The recursion over the levels is one of operators, so this module is for
TLC only. `room` is the number of nodes `calloc`
still grants in a call; every number up to what the call needs is tried.
After each call nodes are renamed in the order they are reached, since
addresses do not show, and a node that is lost or shared still does. The callers' duties
are at the head of the module. `dict`, read off the leaves, is the refinement
mapping to `OrderedMap`; `SearchesAgree` ties it to what searches find.

### FileDB, KeyStore

An action is the start of a call or one turn of its loop, which goes down one level of the tree;
`op` holds the call's local variables, among them its copies of blocks. A turn is an operator on
`s`: the handle, the file, and in `past` every image of the file so far. `Returns` and `GoesOn`
apply all writes of a turn, or let the program end with any of those images (`CutOff`). `Fails`
is a full disk, possible wherever `node_create` needs a block at the end of the file.
`setup.seed` are keys inserted first, without failures, so that a run starts on a tree of some
height. `Status` and `Found` are what a caller would see: whether `db_open` would accept the
file, and the map `db_search` shows. They are the mapping to `KeyStore`. What the model shows of
the code:

* A deletion that is cut off after the parent was written in a borrow (`filedb.c:748`), or after
  `node_match` wrote the neighbour's entry into the inner node (`:792`, `:801`), leaves a file
  whose counts agree: `db_open` accepts it, with one entry lost and another there twice. These
  images are marked `moves`, and `KeyStore` has the status `damaged` for them, allowed for
  deletions only; after any other write the file is the old map, the new map, or refused.
* A root split that gets its first block and not its second leaks the first (`:544`), as does an
  appended block that is not yet counted when the program ends; `spilled` names them, and
  `BlocksAccounted` says there are no others.
* `db_create` that ends before the root is written leaves a file that `db_open` refuses and
  `db_create` does not replace.

Keys are `DB_INT32KEY` whose differences fit an `int`, because the comparison subtracts (`:98`).
`M`, the number of children of a block, is between 55 and 254 in the code; 4 and 5 stand for
even and odd in the run, and the proofs are for every `M` from 4 on. `M = 3` would break
deletion and cannot occur.

## 3. Runs

Runs marked V must find their property violated by what the code does.

| run | question | bounds |
|---|---|---|
| `listeners_main` | tables and userdata under re-entrant callbacks, does a listener with a timeout go away | 2 ID, 1 type, 1 generic slot, 2 IDs, 2 userdata, timeouts up to 2 |
| `listeners_systick` V | the same with `TF_Tick` in an interrupt | 2 ID slots, timeout 1 |
| `transmit_interrupts` | three interrupt levels, soft lock | buffer of 4, head and checksum of 2, payloads of 0, 1, 3 bytes, 3 frames |
| `parser_bits` | noise, damage, loss, pauses | bytes of 1 bit, ID and LEN of 2 bytes, buffer of 2, payloads up to 3 |
| `fork_head` V | the fork and a wrong head | as above |
| `session_queries` | whose answer, whose timeout, does every query end | 2 ID slots, 2 IDs, 3 queries, 2 answers, timeouts up to 2 |
| `uptp_calls` | answers and calls, when a call returns | 3 calls, 2 inits, 3 device runs of three steps, 1 sender run |
| `list_threads` | the list under two threads | 4 nodes, 2 seqs |
| `mbuf_heap` | sizes, ownership, refinement, each call by its own arguments | 2 mbufs, 3 blocks of up to 3 bytes, inputs up to 2 |
| `log_lines` | order, restarts, size, clean-up, progress | queue of 2, 3 lines of mylog and one per writer, all of one length, 3 days, lists of 2 files, 2 runs, 2 inits each |
| `btree_map` | aborts, searches, leaks, refinement of maps | nodes of 4 and 5 slots with 7 keys and any number of calls; 3 levels with 13 or 16 keys and 3 calls; 2 trees |
| `filedb_calls` | counts, references, blocks, refinement with crashes | 7 databases with M of 4 and 5, from empty to 3 levels, 2 to 4 writing calls, 1 crash, values of 3 sizes |

Why the bounds are enough. Two ID slots make a listener behind, before and at the
loop's position, a count that shrinks past a hole, and reuse of a slot; one slot
of each other table is enough for the hand-over between the loops. In
`transmit_interrupts` a payload of 3 bytes overflows a buffer of 4 behind a head of
2, fills it exactly, and leaves less room than the checksum needs; three levels
nest twice; `IdMod` 2 wraps in a run. One-bit bytes with XOR make SOF, ID, length
and checksum bytes collide all the time, which is what makes resynchronisation
hard; payload 3 is beyond the buffer. Four nodes make removal of first, inner and
last node, and destroy over several. In `mbuf_heap` blocks of 3 bytes allow
insertion at both ends and in between, with and without growth; the cap on the
headroom is out of reach at these sizes, and covered by the proof, which holds for
all sizes and any choice of size that fits. `log_lines` has a queue that fills, two
writers, a file that is full after two lines, a third file that the list of two has no
room for, and a restart at every point.
In `session_queries` two IDs and three queries make the ID come round while the
first query's answer is still on the line, and the third query finds a full table or a reused slot.
In `btree_map` seven keys make a tree of two levels with every filling of its
leaves; the seeded trees, filled upwards (half-full nodes) and downwards, have the three levels
that stealing, merging and splitting above the leaves needs. The seven databases
of `filedb_calls` are chosen so that, at the leaves and above, borrowing from both
sides, merging, both kinds of `node_match`, a block with `M` entries that is
split, and a root that grows and shrinks all occur, each cut off at each of its
writes; one value fits with others, one fills most of a block and one fits nowhere.

The type invariant of `TFParser` is checked, because a buffer bound rests on it;
those of `TFListeners` and `Mbuf` are parts of inductive invariants and proved. Elsewhere the
properties leave no room for a variable out of its range.

Deadlock checking is off where every behaviour ends at a bound (frames,
calls, nodes, lines); it is on for listeners, sessions, parser, mbuf, B+tree and
database.

### Fairness

* `listeners_main`: `TF_Tick` strongly fair, because it is called periodically but
  may not start during a dispatch; the loops' steps weakly fair; the return of a
  callback strongly fair: it may call the API any number of times but returns. So it
  is with cleanup callbacks, at every depth of nesting: one may make others run, but returns.
  API calls and messages have none.
* `transmit_interrupts`: every context that has begun a frame goes on with it,
  strongly, because higher interrupt levels suspend it. Beginning a frame has none.
* `session_queries`: as `listeners_main`, with weak fairness for the return of a
  callback, which is enough here because queries are bounded. Nothing is assumed of the
  line or the other peer: a query ends by its timeout if by nothing else.
* `uptp_calls`: listener, device (with each of its steps) and the waiting loop go on when
  they can, weakly.
  The sender and the application's calls have none.
* `log_lines`: a writer thread that can go on does, weakly. Restarts and midnight
  have none.

## 4. Findings

`listeners_systick`: after a callback, `TF_HandleReceivedMessage` writes
`msg.userdata` into the slot (`TinyFrame.c:459`), which may be empty or hold another
listener by then: a pointer is never handed back, or a listener's own is overwritten. `fork_head`: `tinyframe/TinyFrame.c:720` carries on after a bad head. Each
quotes in `PROJECT.json` the comment the code disagrees with.

Other behaviours a reader may not expect are part of properties that hold, with their
cause named in them: calls that hang (`CallReturnsUnlessLost`), the unlocked list
(`NoWildAccess`), deletions cut off (`ImplementsKeyStore`), leaked blocks
(`BlocksAccounted`).

## 5. Proofs

All are safety properties of the whole specification, for every value of the constants within
the named assumptions of the modules. Model bounds such as `MaxFrames` are constants too, and
arbitrary. Where a theorem has a further hypothesis it is stated in the theorem, under `ASSUME`.

* **TFSessionProofs**, of which the first part is about `TFListeners` alone: `TypeCorrect`,
  `CountsCover`, `NothingSkipped`, for tables of any size and both modes. The inductive
  invariant is `IInv == TypeOK /\ CountsCoverLive /\ PendOK`. `NoListenerSkipped` alone is not
  inductive: that an offered listener is the first of those `Matching` finds says nothing of
  live listeners above the count, hence `CountsCoverLive`; and that `pend` holds live listeners
  of this message only, hence `PendOK`. The lemmas `FillCovers` and the like state once what
  filling and emptying a slot does to a count, and serve all three tables. `UserdataKept`
  (`UserdataAccounted`) has the hypothesis `Calm`, neither `TickPreempts` nor `SelfRemove`,
  without which it is false (section 4). It adds `AccInv`: the slots, but for those whose
  cleanup callbacks run, own `held`, each userdata once; no slot is being cleaned up twice, and
  none that is has been emptied already; and the listener whose callback runs is
  still in its slot with the userdata it was called with. The last part is what makes the write
  of `msg.userdata` behind the callback harmless.
* **TFSessionProofs**, second part, on top of the first and also under `Calm`: `AnswersAreOwn`,
  `DropsAreLate`, `TimeoutsCount`, and `SessionIsRequestReply`, the refinement. `SInv` adds to
  `IInv` and `AccInv` that IDs are given in turn, so a frame's ID is its query's number modulo
  `IdMod` (`LineInv`); that the tables hold listeners of queries under that ID (`TableInv`);
  that the listener in question has been called or is owed the frame (`OwedInv`); and
  `ClockInv`, which is `TimeoutCounts` in the middle of a tick, where the slots the loop has not
  reached are one behind. For the refinement every step of `TFListeners` is shown to leave the
  open queries alone or to end one of them.
* **TFTransmitProofs**: `MutualExclusion` (`OneSender`), `LockNeverLeaks` (`LockHasOwner`) and
  `OnlyWholeFrames` (`FramesIntact`) for any number of contexts and any sizes of buffer, head,
  checksum and payload, under `Discipline`: contexts are nested interrupt levels, or there is an
  atomic lock; `TF_Respond_Multipart` is not used; multipart frames are not empty. Plain threads
  on `soft_lock`, as in the demos, are outside: the comment at `TinyFrame.c:25` calls it "Not
  thread safe". The step that needs thought is the one between test and set: `ClaimIsSafe` says
  that a context in between has interrupted nobody who sends, and a higher level that sent
  meanwhile is idle when it goes on. `LockMeansHolder` ties the flag to the holder. `TxInv` adds
  that the wire is the completed frames and, while somebody sends, the flushed part of its
  frame, with the rest of what it has composed in `sendbuf`; mutual exclusion is what makes
  `sendbuf` its own.
* **TFParserProofs**: `ParserTypes`, `DeliveriesAreFrames`, `FramesAreDelivered` and
  `SingleErrorsAreCaught`, for every width of the fields and of a byte, every payload limit and
  checksum; the parser of `tf_demo` only (`~Fork`), since the fork delivers frames with a wrong
  head (`fork_head`). `PInv` says for each state what the parser's fields know of the bytes read
  since the SOF: which field is complete, which number the bytes of an incomplete one make, that
  `cksum` is the sum of the bytes so far. With it a delivery is `Compose` of its message
  (`RInv`). Conversely `FInv` says that, while an unharmed frame arrives, the bytes read are the
  part of the frame that is gone, so the parser is in the state that part determines. `EInv`
  carries a damaged byte forward: from there on the sum differs from the frame's, until the
  checksum shows it. A damaged length makes the parser expect another payload, and it never gets
  there, because the head's checksum comes first.
* **UsbpipeProofs**, for the protocol: `AnswersAreFresh` (`NoStaleAnswer`). `DataFitsSeq` says that
  in the FIFO and in the list data and sequence number belong together, whoever reads, repeats or
  drops what.
* **UsbpipeProofs**, for the list: `SearchIsSafe` and `PointersAreList`. `ListInv` says, at
  every load and store, which list `lh_first` leads to (`Chain`: a node is in it from the store
  to `lh_first` on, out of it from the unlinking store on), which of the pointers are yet to be
  set, and that a search is at a node of it; or that an unlinking overlapped with a push.
* **LibLogProofs**: `LinesInOrder`, `NothingStaleWritten`, `OldFilesGo` (`CleanupBounds`) and
  `FilesAreBounded`. `LogInv` follows a line from the queue to the writer and the files: behind
  one another they have rising numbers, as long as there is one writer, and what a process can
  reach is of its own run. `SizeInv` counts the writers that have found room in a file and not
  written yet: the size and a line for each of them stay within the bound.
* **MbufProofs**: `SizesFit` and `Ownership` for any number of mbufs and blocks, any sizes and
  headroom. `MemInv == TypeOK /\ SizeIsBlock /\ BlocksOwned` is inductive only as a whole:
  `SizeIsBlock` for the other mbufs survives a call because no block is shared, and a block
  `realloc` hands out is not another's because every mbuf's block is in `live`. `MbufIsString`
  is the refinement of `ByteString`: each operation is followed through `realloc`, `memmove` and
  `memcpy` byte by byte, and the other strings stay because their blocks are others.
  `CallsAreTheirOwn` (`CallsDoAsAsked`) says the same of each call with its own arguments.
* **FileDBProofs**, with its lemmas in **FileDBLemmas**: `ReopensAlways` (`CleanReopens`),
  `FitsAlways` (`NodesFit`), `AccountedAlways` (`BlocksAccounted`) and `RefsAlways`
  (`RefsExact`), for every order `M >= 4`, any keys, values and setups, and any number of calls,
  full disks and crashes. None of the four is inductive. The invariant is `DatabaseGood`
  (`FileIsGood`): there are a height for every block and a list `fl` of blocks such that the
  file is `Good`. `CountsOK` is what `db_checker` counts; `RefsOK` weighs the references to each
  value block and to each of its values, and says which block may have none; `TreeOK` has every
  key block with its bounds, one level above its children and with one parent; `FreeOK` makes
  `fl` the chain of free blocks. What neither leads to (`Spare`) is in `spilled`.
  - The four properties need one another: a value block is handed out again by the free list, so
    that it is exact rests on the references, and these on the entries being where the tree
    leads to, each once.
  - A call's copies have to be in it, too (`OpOK`): in the middle of a call `op.node` is the
    file's block and not full on the way of an insertion, has an entry to spare on the way of a
    deletion, and `op.match`, which `db_delete` writes back levels further down, is still the
    file's block at its place, an inner one above the one in hand.
  - For crashes, every image that a turn leaves is refused by `db_checker`, is the file of a
    good database, or is one of those marked `moves` (`Past`). Each write of each operation is
    looked at for this, which is where the order of the writes in `node_destroy`,
    `btree_split_child`, `btree_merge` and `ReleaseValue` counts. `Closed` carries it to the
    next `db_open`.
  - `M >= 4` is used where a merge must fit and a half must not be empty (55 is the least in the
    code).

Some of these need induction over data: the value of the bytes of a number, the sum of a
sequence, the size of a file. The library's induction theorems take a predicate as a parameter,
which the provers cannot instantiate. The proofs use instead that a set of natural numbers that
is not empty has a least element (`WFMin`), applied to the set of counterexamples
(`SetInduction`), and show for recursive functions on `0 .. n` that they exist before they
unfold them. The sums over a file's blocks in `FileDBLemmas` are a case of it: a write of one to
three blocks changes them by the difference of those blocks' weights (`WeighBlk`, `WeighTwo`,
`WeighThree`), and a sum of marks is the size of a union of disjoint sets, which connects it
with `Cardinality` in `RefsExact`.

Only model-checked:

* liveness (`TimedListenerExpires`, `LockReleased`, `QueryEnds`, `CallReturnsUnlessLost`,
  `LineLeavesQueue`): fairness and ENABLED are outside the prover's reach;
* `BTree` with its refinement: the code recurses over trees of any height, and so do the
  operators of the model, which the prover cannot take;
* `ImplementsKeyStore`: that the binary search finds what is there needs, beyond `DatabaseGood`,
  the order of the keys over the levels;
* the fork's parser, and the modes outside `Calm` and `Discipline`, where the properties do not
  hold.

## 6. Plan

Done: the modules above. Left, in this order:

1. Theorems: delivery by the parser composed with the transmitter, so that what one peer
   sends the other receives; the fork's parser for what it does keep.
2. `ImplementsKeyStore` from `DatabaseGood` and the order of keys; `BTree` with its levels
   as turns of a loop, as `FileDB` has them, and then its invariants.
3. The fork's transmit side and its `tinyFramefRx` buffer handling.
4. Containers: `ngx_pool`, `alist`, `ngx_queue` and `ngx_array`, each against its
   abstract container.
5. Pure functions against reference definitions: the bit-rate window, ADTS header fields,
   `in_cksum`, the payload builder and parser.

The whole project is meant to be checked in one go, so runs are kept few: a new
module brings one run, with several properties, and a violation run gives way
where a graver difference turns up.
