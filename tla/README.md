# ShareThought in TLA+

A verification development beside the Ubiquitous repository. The repository holds one
system of two programs, ShareThought (a chat server in C++ and an iOS client), the memory
allocator the server is linked with (jemalloc, as a forked copy under `dep/`), and a dozen
small course apps. The server, the client and the allocator carry the concurrency, the
failures and the timing; the apps are small, and share one run.

## The system

Paths: `SV` = `src/ShareThought/Server/src/sharethoughtserver`,
`CL` = `src/ShareThought/ShareThought`, `JE` = `src/ShareThought/Server/dep/jemalloc`.

### Chat server

One thread. `main` (`SV/Server.cpp:37`) binds a non-blocking socket, clears the table
`connections[2048]`, connects to MariaDB and runs `WorldUpdateLoop` (:107), which calls
`WorldUpdate` (:134) about every 50 ms. One call samples the clock, checks the database
connection, accepts at most one client, and walks the table. For each connection it
checks the keep-alive deadline (5 s to a probe, 5 s more to an answer) and then handles
at most one request.

| Component | State | Operations |
|---|---|---|
| connection table, keep-alive | `connections[]` with socket, deadline, flag, account, token | accept, probe, reap, `CMSG_KEEP_ALIVE` |
| requests, sessions, tables | the session in a slot; tables `User`, `Contacts` | register, login, logout, list, delete account, add/delete contact, chat |
| database connection | `SQLMGR->conn` | connect at start, reconnect before each call |
| update loop, timer | `realPrevTime`, `prevSleepTime` | measure, update, sleep |
| wire format | none | `ConstructPacket`, `DecodePacket`, length-prefixed strings, salted MD5, token |

What is hard: a handler's `return` leaves `WorldUpdate` in the middle of the scan; the
deadline is compared with a clock sampled earlier and checked before `recv`; a closed
peer looks like "no data"; `send` to a reset peer raises SIGPIPE; any statement can
throw, before or after it took effect; an account's deletion is three statements without
a transaction; a session outlives its account, and the account's name can be registered
again; two sessions of one user.

What makes it correct: descriptors are accounted for; deadlines are neither overlooked
nor early; every connection keeps being served; names and ids are unique; contact rows
name existing users; sessions keep their identity and change only their own rows; replies
match what was stored.

### iOS client

Everything runs on the main queue. `NetworkManager` (`CL/Networking/NetworkManager.m`)
keeps the socket, the packet whose header has been read (`tmp`, a global), and the
"Reestablishing Connection..." screen. It reconnects one second after every
disconnection, reads a header and then a body, answers probes, and posts notifications
to the screens. The screens (`LoginViewController`, `RegistrationViewController`,
`ContactListViewController`, `ProfileViewController`, the chat screen) send requests and
react to notifications; they keep what is on display and which buttons are enabled.

What is hard: a connection lost between header and body; a loss while the screen is being
dismissed, or over another screen, where UIKit refuses to present it; retries queued on another
queue; replies that never come; a server session lost under a client that believes it is logged
in.

### The allocator

`JE`: more than half of the repository's code of its own build. A thread allocates small
objects from its thread cache (`tcache.c`), which fills from and flushes to bins of an
arena (`arena.c`): runs of pages divided into regions. Arenas take chunks from and return
them to a store of freed chunks and the kernel (`chunk.c`, `chunk_mmap.c`), whose extents
are described by nodes of a base allocator (`base.c`); huge objects (`huge.c`) are chunks.
Red-black trees, a cuckoo hash table and bitmaps (`rb.h`, `ckh.c`, `bitmap.c`) find things.
A quarantine (`quarantine.c`) delays frees. `jemalloc.c` initialises all this, spreads
threads over arenas, and takes every lock around a fork; `ctl.c` (mallctl) moves threads
between arenas, adds arenas and gathers statistics.

| Component | State | Operations |
|---|---|---|
| arena | page map, run trees, bins' `runcur`, dirty counters | malloc, free, resize in place, purge |
| thread caches | stacks of objects, low-water marks, the switch, the thread's end | fill, flush, GC, enable, destroy |
| chunks | extents, huge tree, base pages, nodes | allocate, recycle, record, unmap |
| search structures | trees, tables, bitmaps | insert, remove, search, iterate |
| quarantine | a ring of freed objects per thread | free, grow, drain, clean up |
| table of arenas | `arenas[]`, threads' arenas, `ctl_stats` | initialise, choose, move, extend, refresh |
| mutexes | who holds and wants what | lock, unlock, prefork, postfork |
| sizes | none | classes, rounding, alignment, run layout |

What is hard: locks are dropped in the middle of an operation, to take memory from
elsewhere, and what was looked at before has changed after; objects and runs are in
transit then; memory may end at any of these points; a thread's end runs destructors in
an order that lets others free into what was torn down; counters are unsigned and shared.

What makes it correct: nothing is lost or given twice; the page map and the indices
describe what there is; counters balance; locks are taken in one order; what is granted
is as large as was asked.

### The other programs

`BaselineProject` is a console library (books, copies, students). `Exercise1` is a quiz,
`Exercise3` a local login, `Exercise6` and `PA3` games, `Exercise7` a picture grid and a
camera, `Exercise8` a watch app, `PA1` a car registry by VIN; `Exercise2`, `4`, `5` and
`PA2` show tables. Each is sequential, but for timers, screens that return later, and
user defaults that reach the disk late. `PROJECT.json` lists every component with its
status.

## Modules

| Module | Models |
|---|---|
| `ChatServer` | `WorldUpdate`, `main`, the tables, clients, the clock |
| `Directory` | what the tables are for: account names, and who has whom as a contact |
| `MCChatServer` | symmetry sets; a specification whose clock runs for ever |
| `WorldClock` | `WorldUpdateLoop` and `Timer.h` |
| `WireFormat` | the bytes of requests and replies, written and read by both sides |
| `NetworkManager` | the client's connection, its reading of packets, the outage screen |
| `ClientScreens` | the client's screens and its session on the server, through a connection that may be lost |
| `Arena` | an arena: runs, bins, chunks, purging |
| `ThreadCache` | the thread caches over several arenas |
| `ChunkStore` | chunks, huge objects, extent nodes |
| `RedBlackTree`, `CuckooTable`, `Bitmap` | the search structures |
| `Quarantine` | a thread's quarantine |
| `ArenaTable` | initialisation, the table of arenas, mallctl |
| `ForkLocks` | the mutexes and forking |
| `SizeClasses` | the arithmetic of sizes |
| `BookLibrary`, `SavedCars`, `LocalLogin`, `Quiz`, `PictureGrid`, `SpriteGame`, `EggGame` | the course's programs |
| `Parts` | the clock, the course's programs, the chunks, the table of arenas and the mutexes, one of which the initial state chooses |
| `MCParts` | `Parts` with the small parts of the allocator that are only checked, and the wire format: an instance |
| `MCClientScreens`, `MCArena`, `MCThreadCache` | instances |
| `ChatServerProofs` | types, keep-alive and descriptors, tables, sessions and replies of `ChatServer`; that it implements `Directory` |
| `NetworkManagerProofs` | the client's connection and its reading of packets |
| `ClientScreensProofs` | the client's screens and its session |
| `ThreadCacheProofs` | that the thread caches keep track of every object |
| `ArenaLemmas` | the loops, counters and operations of an arena, in a state at a time |
| `ArenaProofs` | that an arena keeps track of its memory, over its steps |
| `PartsProofs` | what `Parts` promises, for all constants |
| `LoopsAndSums` | loops, sums, least elements: what the proofs about the allocator and the parts use |

### ChatServer

`pc` and `idx` are the thread's place: `sleep` (between calls), `accept`, `scan` (at the
keep-alive check of slot `idx`), `recv` (before its `recv`), `down` (no process).
Between these places clients may connect and close and the clock may run. `conn` is
`connections[]`; a handler is one action, named after its opcode, and includes its reply. `heard`
and `probed` are history: the last sign of life and the last probe of a slot's client.
`NextSlot` is the loop's next turn, `Return` a handler's `return`, `Die` the end of the
process by a signal. `link` says what the server's kernel knows of a descriptor's far
end, which decides what `send` and `recv` do.

Clients are arbitrary: at each `recv` any request may arrive, or none. This covers every
client, the iOS one included. `SQLException` may strike in every statement, with the
statement executed or not; it leaves the connection `down`, and `Wake` may bring it back.
`reconnect` is assumed not to throw.

Abstractions: times are in units, `KeepAlive` of them to a deadline; passwords are the
salted digests; the profile texts are left out; `contacts` counts equal rows for each
pair, because the program asks for no unique key. The schema is not in the repository:
`OwnerNullable` is a parameter, TRUE in the accounts run, where it allows more.
Requests are whole here: what `recv` loses when TCP joins or splits requests is in
`WireFormat`.

Bounds: `MaxTime` stops the clock, `MaxUserId` the ids, `MaxCopies` the equal rows. None
of them can stop the server: something can always happen, and deadlock is checked.

### NetworkManager

One action per callback. `wire` is what the server has sent on this connection and nobody has
read, as headers and bodies, so a loss can fall between the two. `tmp` keeps its value over
connections, as the global does. `greeted` is history. The server may send any packet the client
knows, and `other`, but greets first (`Server.cpp:160`); it may also never greet, as with a full
table.

The outage screen is presented on the root of the app, its start screen (`ViewController.m` of
`src/Sharethought`), which can present only one screen at a time. `covered` says that it presents
the login or registration screen: `LeaveStart` is a tap on one of its two buttons, and no later
screen leads back to it (a back button presents another start screen on top). What UIKit does is
external: it presents on a root that presents nothing, and refuses otherwise (`refused`), with the
view controller remembered all the same; the buttons of a covered screen cannot be reached; a
dismissal ends; and whether the completion block of `dismissViewControllerAnimated:` runs for a
view controller that was refused is left open. The replies to a login or registration, and what
only a session is sent (`Beyond`), come only to a user who has left the start screen.

A list taken from a header has too few strings: `objectAtIndex:` throws and the app ends
(`Crash`). The request senders (`login...`, `addContact...` and so on) only write, and have no
action. `connectToHost` returns NO only for a missing host, delegate or a socket in use, which
this code never has, so that branch (:59-61) does nothing here.

### WireFormat

`sent` is what the app has written and the server has not received in full, `cut` how much of
its first request it has. `Receive` is one `recv`: it takes any part of the bytes on the way
for one request, as the code does, and `Undefined` is what is read beyond them or overflows
a buffer. `Login` and `List` are the two other replies with texts. `Half`, 128, is where a
length byte stops being an ASCII character for the app that writes it and a positive number
for the app that reads it. Requests without texts are all `CMSG_KEEP_ALIVE`; the second
request on the way has at most one text; registrations and replies differ in one text from
equal ones.

### WorldClock

Milliseconds. `Work(d)` is an update that takes `d`; `Sleep(e)` a sleep that ends `e` late.

### ClientScreens

`screens` is the stack of view controllers, each with its kind, what it shows, and which
buttons are enabled; the covered ones observe notifications too, as in the code. Requests
and replies are in order on one connection, and requests delivered together are dropped but
for the first (`Handle`); `DidDisconnect` takes it with all of them and
the server's session, `DidConnect` brings another. The server here is `ChatServer` reduced to one
connection: its session, and its replies. Other users write at any time. One user's first
name has two words, so that the row of a pressed button is not found again by its label
(`ContactListViewController.m:162`): the history `wrong` of a list has the contacts that were taken
off it for another since it was filled. `MaxScreens` bounds the stack (the app presents
without end), `MaxSignIn` the sign-in screens in it, `MaxInFlight` the messages on the way.

### Arena

A section under `arena->lock` or `bin->lock` is one action; the code holds them one at a
time in these paths and drops each before it calls for memory. `arena` has the page maps
(runs and objects by their first page, dirty and unzeroed marks), the spare chunk and the
counters, `bin` has `runcur` and the tree of runs with room, `hdr` the small runs' headers. `th` is
where each thread is and what it has in hand between two sections: a run it has taken
and not given to the bin, pages it purges, what it claimed to purge. Counters are modulo
`Word`. Contents are one bit: whether a page is known to be zero. A page map is a function on
the first pages of runs, and `With` writes one of its entries. `Stash` is the loop of
`arena_chunk_stash_dirty`, page by page, and `Section` the turns of `arena_purge` and of the
runs it or a flush gives back, up to the next place where the lock is dropped; `Turns` is more
than there can be, as the proofs show.

### ThreadCache, ChunkStore, Quarantine

`ThreadCache`: a stack of objects for each thread and bin, with its low-water mark and
how much it fills; fill and flush take one arena's lock at a time. A thread ends with its
destructors: after the cache's own has run, `tsd` goes through the states of `tcache.h`, and
allocations and frees in other destructors go past or through a cache that is made again.
`MidFill` says whether an arena may run out of memory in the middle of a fill. `Configured` is
what `tcache_boot` sets up before the first cache; the proofs use it and `MCParts` assumes it
of its instance, so that TLC evaluates it. Loops are recursive functions.

`ChunkStore`: addresses in chunks. `chunks_mtx` is dropped to allocate a node, and the
allocation of a node may need a chunk itself. mmap may return any free place, aligned or
not, or fail. Two history variables keep the chunks that are given up for want of a node
(`lost`, `leaked` in `Parts`) and by how much `chunk.c:107` then counts wrong (`miscounted`).
A thread's step is a record of one form (`Work`): where it is (`pc`), where it goes on with a node
or without (`next`, `have`), where `chunk_dealloc` returns to (`back`), and the chunks it is about.
`ChunksConserved` names the five `Places` an address can be in and says that no two share one.

`Quarantine`: `IsBuffer` is false for the three sentinel values of the thread's pointer.
`quarantine_cleanup` is one step, other destructors' frees are steps beside it.

### RedBlackTree, CuckooTable, Bitmap

The data structures as values and the code's steps as operators on them: rotations, the leaning on
the way back, the cases of removal; the eviction walk, growth, shrinking and its undoing; the
levels of groups. Each has a history variable with what should be in it, and one property that
compares every search and iteration with it. Recursion is by recursive functions. In `CuckooTable`
memory may end when an insertion has to grow the table: `held` has all keys that were to be
inserted, and `lost` those that a failed insertion had in its hands.

### ArenaTable, ForkLocks, SizeClasses

`ArenaTable`: `init` is the progress of `malloc_init_hard`, `arenas` the table (an entry is
NULL or its count of threads), `op` (`calls` in `Parts`) what the holder of `ctl_mtx` does.
`ctl_stats` is all zero before `ctl_init`, which is how `ctl_initialized` is told here.
`crashed` is set where the code would dereference NULL, which is after `arenas_extend` fell back to
arena 0 for `thread.arena`; the model stops there, and the counts hold in that state as well.

`ForkLocks`: each thread's mutexes, the one it waits for, and the order of
`jemalloc_prefork`. `Nested` says which mutexes the code locks under which. `BaseGrows` says whether
`base_alloc` may run out of its pages. `child` is the set of mutexes locked in the child.

`SizeClasses`: a step asks for a size at or near a boundary of something, for each page
size, quantum and chunk size that can be built; `RequestsFit` says that what is granted is
large and aligned enough, including where sums and products wrap at 2^`SizeBits`, and that
the parts of a bin's run fit and do not overlap. The table of classes is generated as
`size_classes.sh` lays it out in `size_classes.h`.

### The course's programs

One module each, one action per button, timer or callback. `BookLibrary` counts the copies of
each book in a student's list; `quantity` is unsigned and wraps. `SavedCars` and `LocalLogin`
keep the user defaults apart from the disk they reach later, and lose what has not reached
it when the app is killed.

### Parts and MCParts

The initial state chooses a part; the others stand still, and each property
speaks of the part it is about. So the run's states are the sum of those of the parts and
not their product. `Parts` has the ten that are also proved about, with their constants as its
own; `MCParts` extends it by eight instances of modules that are only checked (`ThreadCache`
has proofs of its own) to the eighteen of the run. A step of `MCParts` is one of `Parts` or changes
none of its variables, so `AllSpec` implies `PartsSpec`.

## Runs

| Run | Question | Instance |
|---|---|---|
| keepalive | Are descriptors and deadlines kept track of, and is nobody cut off early? | 2 slots, 3 clients, `KeepAlive` 2, clock to 6 |
| accounts | Do the tables and sessions stay consistent, and do the handlers implement `Directory`? | 2 slots, 2 clients, 2 names, 3 ids, no clock |
| liveness | Is everybody served, and are silent connections closed? | 2 slots, 2 clients, `KeepAlive` 2, clock for ever |
| delete (violation) | Does a session delete only the account it logged in as? | 2 slots, 2 clients, 1 name, 2 ids, no clock |
| scan (violation) | Does a call leave nobody overdue? | as keepalive, clock to 7 |
| boot (violation) | Does `main` stop without a database? | 2 slots |
| network | Does the client reconnect, keep its place in the stream, answer probes, show outages and no others? | 3 chunks on the way |
| client | Does the app act as whom it shows, and stay usable? | 2 users, 6 screens, 2 messages on the way |
| arena | Does an arena keep track of its memory? | 2 threads, 2 chunks of 3 pages, runs of 2 regions, 1 large and 2 small objects |
| parts | Do the small parts keep what each promises? | see below |
| fill (violation) | Are cached pointers objects, when memory ends during a fill? | 2 threads, 2 arenas, 6 objects |
| fork (violation) | Does `jemalloc_prefork` take the mutexes in a safe order? | 2 threads, `BaseGrows` |

The parts: clock (period 5, delays to 7, clock to 40), library (3 books, two with one isbn), cars
(2 VINs), login (2 emails), quiz (3 categories of 2), grid (8 pictures), sprite (6 by 8 margins),
egg (3 eggs), threads (2 threads, 2 arenas, 2 bins, stacks of 4 and 1), chunks (4 chunks, 2
nodes), tree (keys 1 to 8), table (6 keys, buckets of 2, up to 8 buckets), regions (groups of 2
bits, up to 9), waiting (5 objects, limit 4), arenas (2 automatic and 1 added, 2 threads), mutexes
(2 threads, no `BaseGrows`), sizes (size_t of 26 bits, products to 64), wire (bytes of 5 bits,
texts of 1, 11 and 16 bytes around the limits, buffers of 40, 40 and 130, lists to 16).

What their properties say: `KeepsPace` of the clock: `SleepBounded` and `Balanced`; `CourseRules`:
copies of books are conserved, VINs and emails unique, the quiz does not repeat itself, the grid
shows the picture it says, the score is that of the eggs caught; `ObjectsConserved`: no object is
lost or in two places, and freed ones wait in order; `ChunksConserved`: no chunk or node is lost
or in two places, and none passes for zero that is not; `LookupsRight`: searches find what was put
in, but for one key for each insertion into the hash table that fails, and `RequestsFit` of the
sizes; `ArenasCounted`: counts of threads and sums are those of the arenas, up to the crash of a
move to an arena that cannot be made; `ForkSafe`: nobody waits in a circle, and the child can use
the allocator; `MovesWithinBounds`: moves in the grid and of the square; `TextsArrive`: the texts
of a request that is the first of its delivery, and of a reply, are read as they were written, if
each is shorter than 128 bytes, names of contacts than 50, and all of them fit the buffers.

Why the bounds are enough. Two slots make a first, a later and a full table, and three
clients overfill it. A clock of three intervals lets a connection be accepted, probed,
reaped and its descriptor reused. Three ids let a name be deleted and registered again
while another account exists. Three chunks hold a packet and the beginning of the next. The
accounts run has no clock, so nothing is reaped in it: sessions end by
logout, deletion or the process's end, and the keep-alive run covers reaping. Socket and
name symmetry are used in safety runs only.

Six screens hold the longest chain of the app's presentations with a second login on top.
Two chunks of three pages have room for a run and a large object beside it, so that runs
are split and coalesced on both sides, and for a chunk to be empty while the other is full.
Two regions make a run empty, partly used and full. Eight keys are enough for every case of
removal of the trees (TLC fires each); nine bits over groups of two give four levels. The
table grows and shrinks twice. A quarantine of four bytes drains for an object of four and
grows twice. Three threads pass the forking part as well as two do.

The parts, arena, fill and fork runs do not check deadlock: a game ends, a thread of the
allocator ends, the clock stops at `MaxClock`, a process at its crash, and the fork's deadlock is
what is shown.

`ClosedOnlyAfterSilence` is about `heard`, `probed` and the tick the scan compares with: a closed
connection was probed after it was accepted or last answered, and the tick is a whole `KeepAlive`
after that of the probe. `OnlyOwnOrNamesakesRowsChange` lets a session change the rows of its own
account while there is one of its id, and after that those of whoever has its name, as the code
does; that the second case happens, to the deletion of a stranger's account, is the run `delete`.
`ScreenMeansNoConnection` holds for a reason that is easily lost: a greeting is swallowed only
after a packet with a body was cut off, such packets come only to a user beyond the start screen,
and over those screens the outage screen is not presented. Its mutant presents it there.

`MCChatServer!RebasedSpec` restarts the clock at 0 at every call of `WorldUpdate` and
keeps only what a deadline is ahead of it: guards and updates use differences of times
only, so this loses nothing, and the clock never stops. Here `MaxTime` bounds what
passes within one call and the sleep after it.

### What the violations show

- **scan**: a handler's `return` (for instance :241, :334) ends the call, so a busy
  low slot delays the checks of higher ones. The liveness run shows the other side: the
  delay cannot be for ever, since whoever keeps cutting scans short must also be reaped
  or answer probes, and both let a scan pass.
- **boot**: `ConnectToDatabase` returns `EXIT_FAILURE`, which as a bool is true.
- **delete**: every handler but the list's finds the account by the name the session has cached. A
  session whose account was deleted from another connection deletes the account of whoever
  registered that name since.
- **fill**: `arena_tcache_fill_small` puts the first objects at the far end of the room for
  all of them. When memory ends in between, they are beyond the top of the stack: `malloc`
  returns the stale pointers below, and the objects are lost.
- **fork**: `jemalloc_prefork` takes `chunks_mtx` before `base_mtx`; `base_alloc`, when it runs
  out of pages, holds `base_mtx` while `chunk_alloc` takes `chunks_mtx` for its statistics. A
  thread that forks and one that does this wait for each other for ever.

### Met while modelling, without a run

- A failed `malloc_init_hard` leaves `malloc_initializer` set (jemalloc.c:676): the same
  thread's next call takes the allocator for initialised, other threads spin for ever.
- `arenas_extend` never returns NULL: without memory it returns arena 0. `thread_arena_ctl`
  (ctl.c:1205-1213) expects NULL, asserts that what it got is `arenas[newind]`, which is NULL, and
  writes through it.
- `ckh_insert` hands its key to `ckh_try_insert` by address, which leaves the item that was evicted
  last there. When `ckh_grow` then fails (ckh.c:466), that item is nowhere and the call returns
  failure, for a key that may be in the table. prof.c:460 and :545 suppose otherwise.
- The contact list looks for the row of a pressed button by the first two words of its label
  (ContactListViewController.m:162). A first name of two words is not found, and the index stays 0:
  the first row goes, the deleted one stays.
- `choose_arena_hard` reads `arenas[0]` without the lock when there is one automatic arena,
  while `ctl_grow` swaps in a larger array. `ArenaTable` assumes more than one.
- The comment of `struct arena_bin_s` in arena.h gives bin before arena as the lock order,
  "not vise versa"; `tcache_stats_merge` and `arena_prefork` lock a bin under the arena.
- `chunk_recycle` without a node (chunk.c:107) gives a chunk back that was never counted.
- `arenas_bin_i_index` (ctl.c) accepts `NBINS` itself (`i > NBINS`).
- After a thread has freed into a full run while another was allocating a higher one,
  `runcur` is not the lowest run with room, which arena.c:1855 says it is.
- A text of 128 characters or more, a description or a message, is not read as it was written
  (`WireFormat`): its length becomes several bytes in the app's string, of which
  `ConstructPacket` then copies fewer than there are. From the server, it is a negative length
  that ends the app. A list of 128 contacts is taken for an empty one.
- An outage beyond the start screen is not shown (NetworkManager.m:187): the root already presents
  the login or registration screen, and UIKit refuses a second. What is remembered as
  `_noNetworkVC` is then on no display.
- A list or message cut off after its header takes the next connection's greeting for its body
  (NetworkManager.m:214): the list ends the app.
- A connection accepted with a full table is never closed (Server.cpp:151).
- A chat message goes to the lowest slot with a session of its name (Server.cpp:575): one that its
  client has left swallows it until it is reaped.
- Requests delivered together after the first are dropped; the tail of a split one is taken
  for another request (Server.cpp:200).
- `getMSTimeDiff` is one millisecond short when the clock wraps (Timer.h:31).

### Fairness

Server: weak fairness of `WorldUpdate`'s steps, as the sockets are non-blocking and the
sleep is finite, and of the clock. Nothing is assumed of clients. Client: weak fairness
of what is queued on the main queue (reading, the retry after its sleep, the end of an
animation) and of an attempt's outcome, which has a two second timeout. Nothing is assumed
of the server or the network. The client's screens and the allocator have safety properties
only: they react to users and callers, who may stop.

## Proofs

`ChatServerProofs!TypeCorrect`: `TypeOK` for all constants. It is not inductive alone: a
handler overwrites fields of the current slot, so `RecvOccupied` (at `recv` the slot is in
use) is proved with it. In the same module, of the connections:

- `NoneOverlooked` and `PatientServer`, from the invariant `KeepAliveInv`. Beside
  `ScannedAreCurrent` it says (`Patience`) that a deadline lies after the last sign of life, and,
  once the probe is out, a whole `KeepAlive` after the tick of the probe, which came after that
  sign. `Patience` needs `ScannedAreCurrent` when an answer is handled (the tick is before the
  deadline), and `Reap` then finds the tick at or past the deadline.
- `NoSocketShared`: `SocketsAccountedFor` is inductive with the types.
- `HandleKept` is what both use of the handlers: each keeps sockets and deadlines of every
  slot, or the process ends.

`PartsProofs`, of any behaviour of `Parts`, which the run `parts` checks on an instance. `OnePart`
lifts: a step of `Parts` is, for each part, a step of it or a stutter.

`Rhythm`: `TypeOK` and `KeepsPace`, for clocks that have not wrapped.

`CourseKept` and `Moves`: `CourseRules` and `MovesWithinBounds` for any books, students, cars,
accounts, questions, pictures, eggs and screens, from `CourseInv`, an invariant for each program:

- `LibraryInv`: the copies on the shelf and those in all students' lists are together no more
  than the stock. A check-in adds one to the shelf for at least one taken from a list, a
  check-out moves one. As the sum stays below `Uint`, `quantity` never wraps.
- `CarsInv`, `LoginInv`: no two entries under one key in memory and none on disk, since what comes
  back after a kill is what was once written as a whole. A VIN is stored in capitals only, and it
  is the stored form that a new one is compared with.
- `QuizInv`: the question on display is not the one before it. That there is one to go on to
  needs two questions in each category.
- `GridInv`: the picture on display is the current one, and the six are all different: a photo
  replaces the one that looks like the picture on display, which is so the current one.
- `EggInv`: eggs on the screen have numbers of their own, none of them caught, and none above
  `laid`; so two eggs caught in one frame count twice, and one egg once.
- `SpriteInv`: the square leaves room for both margins, from the start and after every pinch.

`ArenasAreCounted`: `ArenasCounted` for any number of threads and arenas, from `ArenasInv`:

- `Table`: each arena's count is the number of threads assigned to it, and nobody is assigned to
  one that is not there, also when one could not be made and the first took its place. A move of
  `thread.arena` to such an arena crashes before it changes a count or an assignment; that it
  crashes is what the code does (ctl.c:1205), and no theorem says otherwise.
- `Size`: the array is as long as the statistics say, but one longer between the two steps of
  `ctl_grow`, with the lock of the arenas dropped between.
- `CallsKept`: who is in the middle of a mallctl call keeps its arena, so the arena it leaves is
  there.
- `StatsKept`: the last element is the sum of those shown. `Refreshed` adds up in a loop, a
  recursive function, which is proved equal to the sum over the shown set; growth moves it up.

`ChunksAreKept`: `ChunksConserved` for any number of threads, any sizes and alignments, any room in
the kernel and in a base page, from `ChunksInv`, which is about the blocks in the threads' hands as
much as about those in the trees, because every step ends where `chunks_mtx` is dropped:

- `Parted`: the five places are apart and make up what is mapped; extents are apart from each
  other, huge allocations too, and so are the hands of two threads. `BlocksStep` reduces every step
  to a `Transfer`: blocks leave some places and enter others on the same addresses, or new ones
  that mmap found free. For `chunk_recycle` the work is in `Cut` (the piece before the aligned
  address, the piece asked for and the piece behind it make up the extent), for `chunk_record` in
  `Merge` (at most one extent ends where the chunk begins, as extents are apart).
- `ChunksTyped` says what a step's fields mean where it is (`Shaped`); `Clean` also speaks of chunks
  that will be stored as zero while a node is sought for them (`CleanHand`): in between nobody
  writes to them, as they are in nobody else's hands.
- `NodesKept`: nodes in trees, spare and in hand are those made; a chunk that joins both neighbours
  gives back two.
- `CountKept`: `curchunks` is the size of what is counted, beside `miscounted`.

`TypesKept`: `SmallPartsTypeOK`, from all of these.

`ForkIsSafe`: `SafeOrder` and `ChildServed` for any number of threads, if `base_alloc` does not
run out of pages (with it the run `fork` finds the deadlock). The invariant ranks the mutexes in
the order of `jemalloc_prefork`: a thread waits only for one above all that it holds (`Ordered`),
and the thread that forks holds exactly the mutexes up to the rank it has come to (`Forking`). In
a circle each thread would want a mutex whose holder wants a higher one, and there are seven. At
the fork it holds all of them, so by exclusion no other thread holds any (`ChildServed`).

`ChatServerProofs`, of the tables, from `ChatInv`:

- `UsersUnique`, `ContactsExist`, `ContactsOnce`. That ids are unique needs that the next id is
  above all that are stored (`IdsGiven`), although rows are deleted.
- `SessionsKeepIdentity`: a session's cached account is the user of that id or of a deleted
  one. No later user can be taken for it, as ids are never given again and names never change;
  this holds across every statement that may or may not have run when `SQLException` strikes.
- `OthersRowsUntouched` and `RepliesTrue` are action properties: a handler adds and removes only
  rows of the users and contacts that are the session's own, or, once its account is gone, those of
  whoever has its name; and what it replies of a session is so after the step.
- `DirectoryImplemented`: every step is a step of `Directory`, or changes none of its state. The
  proof goes handler by handler; most write neither table. Deleting an account is three
  statements, any of which may be the last; `Directory` leaves an account in the same stages.

`NetworkManagerProofs`, from `NetInv == TypeOK /\ Idle /\ PacketsWhole /\ InStep /\ OnScreen`:
`OneConnectionOnly` (a retry is queued exactly while the connection is lost), `ReadsNeverSlip`,
`EveryProbeAnswered` and `ScreenComesDown`. The global `tmp` survives a lost connection in the
middle of a packet; `InStep` says why that is harmless: until the new connection is greeted, what
comes first is the greeting, a packet without a body. `OnScreen` says that where the screen is up,
nothing with a body was ever sent, so nothing was cut off and the greeting is read as one.

`ClientScreensProofs`, from `AppInv == Typed /\ Names /\ ButtonAwaitsAnswer /\ Lists`:
`RepliesStayMine`, `ServedInMyName`, `ButtonsComeBack`, `ContactsStayListed`.

- `Names` is about who the app and the server take the user to be while messages are on their
  way: while a successful login is unread the app shows no user's screen and has asked for
  nothing of a session; a list belongs to whom the app will be when it reads it; a login
  pressed once too often reaches the server while the session it was pressed for lasts.
- `Lists` says of every list on the screen, before the queues are empty, that it has been asked
  for anew, is on its way, or is there but for contacts whose deletion has been asked for
  and those that went for another (`wrong`). Only with empty queues, and if no request was dropped
  behind another, it is `NoContactHidden`.

`ThreadCacheProofs!ObjectsKept`: `TypeOK`, `ObjectsConserved` and `CachedAreObjects` for any
threads, arenas, bins and objects, from `Kept`: what is free, what the program has, the caches'
stacks and what each thread has in its hands in a fill or flush are apart and together are all
objects. `Exchange` reduces every step to one that moves objects among these for one thread.
Two parts are not about objects. A thread with a cache is cleaned up when it ends (`Switches`);
otherwise its objects would be lost with it. And a flush never wants more than a stack holds
(`ThreadsFit`), which needs `Configured`: every small bin has room for two objects. The
theorem supposes `~MidFill`, as the run `parts` does; with it the run `fill` finds
`CachedAreObjects` violated.
The flush's and fill's loops are recursive functions. What they compute is proved by the least
number at which it would fail (`Induction`, `LoopExists`), because a principle of induction
that takes an operator cannot be used in the provers.

`ArenaProofs`: all six invariants of the run `arena`, for any number of threads, chunks, pages
and regions, any sizes and any set of chunks that madvise zeroes, from `IInv`:

- `ArenaExact` (`Ledger`) is `PageMapExact` and `CleanPagesKnown` in the form the steps need:
  of an arena as a value, with the set of runs that are on their way from free to used or back
  (`Stock`), so that it can be said between `arena_run_split`, `arena_run_coalesce` and
  `arena_avail_insert` too. Each counter is a sum, and each operation changes one summand.
- `RunsOwned`: every run that is not free has one owner, the program, the bin, or one thread, and
  a thread that purges has each run once in its list. Without it one thread could free a
  run that another is still giving to madvise.
- `RunsMarked` is `CleanPagesKnown` of the runs that are not free: they may be freed clean, so
  their written pages must bear the mark as well. Runs at madvise
  do not yet (`Orderly`): the step that ends it gives them the mark, or zeroes.
- `RegionsOwned` is the same as `RunsOwned` for the regions of the bin's runs.
- `BinExact` adds to `BinRunsFound` that a run in transit is in the hands of one thread and that
  `runcur` is never entirely free: the thread that frees a run's last region takes the run away
  in the same section, so no other does.
- `ClaimsBalance` is inductive with the types: a section changes the claim of one thread and
  `npurgatory` by the same, modulo `Word`.

From it follow `ArenaTypes`, `ArenaPageMap`, `ArenaCleanPages`, `ArenaClaims`, `ArenaBinRuns` and
`ArenaOwnership`. A step is seen from the thread that takes it: what the others have in hand is
`Alike` before and after. `ArenaLemmas` has the operations one by one (split, coalesce, free,
trim, stash, purge) and the loops. A section's loop is bounded by `Turns`; `SectionFacts` proves
that this never cuts it short, because a run that is freed makes `arena_maybe_purge` due at most
once and a chunk that is stashed ends the section.

The proofs rest on `ServerAssumption`, `ClockAssumption`, `NetworkAssumption`, `ClientAssumption`,
`ArenaAssumption` and `PartsAssumption` (numbers are natural, `None` is no record, token, person,
thread or place, every person has a name, threads are finitely many, a run or a large object fits
a chunk, a counter holds the pages there are, a number of copies fits its variable, a category has
two questions, the square fits the screen at first, chunks have a size and an alignment and a page
of `base.c` has room for a node, and there is more than one automatic arena), which TLC evaluates
in the runs, as it does `Configured`.

Only model-checked: liveness, and anything with ENABLED, which is out of the prover's reach; the
quarantine, the search structures and the sizes, most of which use recursive operators or folds,
for which the provers have no rules (the arena's and the table's were written as recursive
functions to be proved about); `WireFormat`. Of the properties of the run `parts`
these are `ObjectsConserved`, `LookupsRight` and `TextsArrive`, and `PartsTypeOK`
beyond `SmallPartsTypeOK`; `ObjectsKept` proves what `ObjectsConserved` says of `ThreadCache`.

## Plan

1. Proofs: of the quarantine, that its bytes are those of its objects.
2. Larger instances of the allocator's parts.

## Not modelled

The hashing of passwords and tokens; texts beyond ASCII; profile texts outside `WireFormat`;
memory of the server (accounts and packets are freed or leaked without effect on the rest);
MariaDB itself beyond the statements used; views, drawing and storyboards; CMake scripts and
assets.

Of the allocator: the profiler (`prof.c`, compiled out), printing of statistics, `util.c`,
the Mac's zone, the data segment as a source of chunks (not built in), the radix tree and
valgrind's hooks; junk filling and redzones' contents; the names of mallctl's tree and its
entries that only read.

`Exercise2`, `4`, `5`, `8` and `PA2` download or show tables and keep no state beyond them.
