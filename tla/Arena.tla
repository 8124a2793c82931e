------------------------------- MODULE Arena -------------------------------
(***************************************************************************)
(* An arena of the allocator the server links (jemalloc): chunks of pages  *)
(* divided into runs, large objects that are runs of their own, and one    *)
(* bin whose runs are divided into regions.  Threads work on it under two  *)
(* locks, arena->lock and bin->lock, and never hold both: each is dropped  *)
(* before the other is taken, and arena->lock also while chunks or pages   *)
(* are given to or taken from the system.  What other threads do in those  *)
(* gaps is what this module is about.                                      *)
(*                                                                         *)
(* A section under one of the locks is one action: what holds the lock is  *)
(* seen by nobody else.  What a thread does between two sections is joined *)
(* to the section after it.                                                *)
(***************************************************************************)
EXTENDS Integers, Sequences, FiniteSets, FiniteSetsExt, SequencesExt, Functions, TLC

CONSTANTS
    Threads,
    NChunks,    \* chunks the system can provide, at addresses 1 .. NChunks
    NPages,     \* pages of a chunk that can be allocated, chunk_npages - map_bias
    RunPages,   \* pages of a small run
    NRegs,      \* regions of a small run
    Past,       \* Past[i]: pages of a small run that its header and first i regions touch
    DirtyMult,  \* active pages for each dirty page, 2 ^ opt_lg_dirty_mult
    Word,       \* the size of size_t
    Sizes,      \* the sizes, in pages, of large requests
    AlignedSizes,   \* and of those that want more than page alignment
    MaxLarge,   \* bounds on the objects in use when the
    MaxSmall,   \* program asks for one more
    Bias,       \* map_bias, the pages of a chunk's header
    Align,      \* the alignment, in pages, of an aligned request
    Zeroing,    \* the chunks whose pages come zeroed, from the system and from madvise
    None

Chunks == 1 .. NChunks
Pages == 0 .. NPages - 1
Regs == 0 .. NRegs - 1

ASSUME ArenaAssumption ==
    /\ IsFiniteSet(Threads)
    /\ NChunks \in Nat \ {0} /\ NPages \in Nat \ {0} /\ RunPages \in 1 .. NPages
    /\ NRegs \in Nat \ {0} /\ Past \in [0 .. NRegs -> 1 .. RunPages]
    /\ DirtyMult \in Nat \ {0} /\ Word \in Nat /\ Word > NChunks * NPages
    /\ MaxLarge \in Nat /\ MaxSmall \in Nat /\ Bias \in Nat /\ Align \in Nat \ {0}
    /\ Sizes \subseteq 1 .. NPages
    /\ \A n \in AlignedSizes : n \in 1 .. NPages /\ n + Align - 1 \in 1 .. NPages
    /\ Zeroing \subseteq Chunks
    /\ None \notin Threads \union Chunks \union Regs \union (Chunks \X Pages)

VARIABLES
    arena,  \* what arena->lock protects, the chunks' headers and page maps included
    bin,    \* runcur, and the tree of the other runs with free regions
    hdr,    \* the headers of the small runs: their free regions and nextind
    live,   \* the objects the program has
    th      \* where each thread is, and its local variables

vars == <<arena, bin, hdr, live, th>>

Run(kind, len, dirty) == [kind |-> kind, len |-> len, dirty |-> dirty]
Object(c, p, reg) == [c |-> c, p |-> p, reg |-> reg]
Extent(p, n) == p .. p + n - 1
Mapped(A) == {c \in Chunks : A.map[c] # << >>}
NoInfo == [ndirty |-> 0, navail |-> 0, nadjac |-> 0]
Idle == [pc |-> "idle"]
-----------------------------------------------------------------------------
(* The page map and the tree of available runs.  A.map[c] maps the first   *)
(* page of each run of chunk c to the run: the boundary tags.              *)

With(map, p, r) == [q \in DOMAIN map \union {p} |-> IF q = p THEN r ELSE map[q]]

FreeAt(A, c, p) == p \in DOMAIN A.map[c] /\ A.map[c][p].kind = "free"
FreeBefore(A, c, p) == {q \in DOMAIN A.map[c] : FreeAt(A, c, q) /\ q + A.map[c][q].len = p}

\* arena_avail_adjac_pred and arena_avail_adjac_succ: the free neighbours.
Fragments(A, c, p, pred, succ) ==
    (IF pred THEN FreeBefore(A, c, p) ELSE {})
    \union {q \in {p + A.map[c][p].len} : succ /\ FreeAt(A, c, q)}
NAdjac(A, c, p, pred, succ) == Cardinality(Fragments(A, c, p, pred, succ))

DirtyPages(r) == IF r.dirty THEN r.len ELSE 0

\* sign is 1 for arena_avail_insert and -1 for arena_avail_remove.
AvailChange(A, c, p, pred, succ, sign) ==
    LET n == sign * DirtyPages(A.map[c][p])
    IN [A EXCEPT !.ndirty = @ + n,
                 !.info[c] = [ndirty |-> @.ndirty + n, navail |-> @.navail + sign,
                              nadjac |-> @.nadjac + sign * NAdjac(A, c, p, pred, succ)],
                 !.avail = IF sign = 1 THEN @ \union {<<c, p>>} ELSE @ \ {<<c, p>>}]
AvailInsert(A, c, p, pred, succ) == AvailChange(A, c, p, pred, succ, 1)
AvailRemove(A, c, p, pred, succ) == AvailChange(A, c, p, pred, succ, -1)

\* arena_run_split_large, arena_run_split_small: the first n pages become a run.
RunSplit(A, c, p, n, kind) ==
    LET free == A.map[c][p]
        rem == free.len - n
        R == AvailRemove(A, c, p, TRUE, TRUE)
        used == [R EXCEPT !.nactive = @ + n,
                          !.map[c] = With(@, p, Run(kind, n, free.dirty))]
    IN IF rem = 0 THEN used
       ELSE AvailInsert([used EXCEPT !.map[c] = With(@, p + n, Run("free", rem, free.dirty))],
                        c, p + n, FALSE, TRUE)

\* Two runs become one, p's.
Joined(map, p, q) ==
    [Restrict(map, DOMAIN map \ {q}) EXCEPT ![p].len = @ + map[q].len]

CoalesceForward(A, c, p) ==
    LET q == p + A.map[c][p].len
    IN IF FreeAt(A, c, q) /\ A.map[c][q].dirty = A.map[c][p].dirty
       THEN [AvailRemove(A, c, q, FALSE, TRUE) EXCEPT !.map[c] = Joined(@, p, q)]
       ELSE A

\* Mutant: a clean run before a dirty one is joined to it as well.
CoalescibleAnyway(A, c, p) == FreeBefore(A, c, p)
Coalescible(A, c, p) ==
    {q \in FreeBefore(A, c, p) : A.map[c][q].dirty = A.map[c][p].dirty}

\* Coalescing backward, and the insertion of the coalesced run.
CoalesceBackward(A, c, p) ==
    IF Coalescible(A, c, p) = {} THEN AvailInsert(A, c, p, TRUE, TRUE)
    ELSE LET q == CHOOSE q \in Coalescible(A, c, p) : TRUE
         IN AvailInsert([AvailRemove(A, c, q, TRUE, FALSE) EXCEPT !.map[c] = Joined(@, q, p)],
                        c, q, TRUE, TRUE)
RunFreed(A, c, p, run, isDirty) ==
    CoalesceBackward(
        CoalesceForward([A EXCEPT !.nactive = @ - run.len,
                                  !.map[c] = With(@, p, Run("free", run.len, isDirty))], c, p),
        c, p)

\* arena_chunk_dealloc: an unused chunk becomes the spare.  The one that was, if any, goes.
Unused(A, c) == 0 \in DOMAIN A.map[c] /\ A.map[c][0].kind = "free" /\ A.map[c][0].len = NPages
Spared(A, c) == [AvailRemove(A, c, 0, FALSE, FALSE) EXCEPT
                    !.spare = c, !.map = IF A.spare = None THEN @ ELSE [@ EXCEPT ![A.spare] = << >>]]
Settled(A, c) ==
    IF Unused(A, c) THEN [a |-> Spared(A, c), unmap |-> A.spare] ELSE [a |-> A, unmap |-> None]

RunDalloc(A, c, p, dirty, cleaned) ==
    LET run == A.map[c][p]
    IN Settled(RunFreed(A, c, p, run, dirty \/ (~cleaned /\ run.dirty)), c)

\* arena_chunk_init_spare and arena_chunk_init_hard, each with the insertion of the run.
FromSpare(A) == AvailInsert([A EXCEPT !.spare = None], A.spare, 0, FALSE, FALSE)
NewChunk(A, c) ==
    AvailInsert([A EXCEPT !.map[c] = [p \in {0} |-> Run("free", NPages, FALSE)], !.info[c] = NoInfo,
                          !.unz[c] = IF c \in Zeroing THEN {} ELSE Pages,
                          !.touched[c] = IF c \in Zeroing THEN {} ELSE Pages], c, 0, FALSE, FALSE)

\* arena_avail_tree_nsearch: the smallest available run of at least n pages, the lowest
\* one of these.
Smaller(A, r, s) ==
    LET m == A.map[r[1]][r[2]].len
        n == A.map[s[1]][s[2]].len
    IN \/ m < n
       \/ m = n /\ (r[1] < s[1] \/ (r[1] = s[1] /\ r[2] <= s[2]))
Fitting(A, n) == {r \in A.avail : A.map[r[1]][r[2]].len >= n}
BestFit(A, n) == CHOOSE r \in Fitting(A, n) : \A s \in Fitting(A, n) : Smaller(A, r, s)

\* arena_chunk_dirty_comp.
PurgedBefore(A, c, d) ==
    LET x == A.info[c]
        y == A.info[d]
        cval == (x.navail - x.nadjac) * y.navail
        dval == (y.navail - y.nadjac) * x.navail
    IN \/ cval > dval
       \/ cval = dval /\ (IF x.nadjac = 0 THEN c >= d ELSE c <= d)
ChunksDirty(A) == {c \in Chunks : A.info[c].ndirty # 0}
DirtyFirst(A) == CHOOSE c \in ChunksDirty(A) : \A d \in ChunksDirty(A) : PurgedBefore(A, c, d)

Touch(A, c, pages) == [A EXCEPT !.touched[c] = @ \union pages]

\* The page map after the run at p is made two of n and len - n pages.
Cut(A, c, p, n) ==
    LET r == A.map[c][p]
    IN [A EXCEPT !.map[c] = With(With(@, p, Run("large", n, r.dirty)),
                                 p + n, Run("large", r.len - n, r.dirty))]
-----------------------------------------------------------------------------
(* The rest of a section under arena->lock, until it drops the lock or     *)
(* ends.  todo is the runs still to be freed, check says arena_maybe_purge *)
(* is due, claim is the npurgatory of this thread's arena_purge and back   *)
(* what it could not purge.  The thread drops the lock in "unmap" and in   *)
(* "madvise".  ret is what it will return.                                 *)

Work(todo, ret) == [pc |-> "work", todo |-> todo, check |-> FALSE, claim |-> 0, back |-> 0,
                    chunk |-> None, ret |-> ret]
Job(c, p, dirty, cleaned) == [c |-> c, p |-> p, dirty |-> dirty, cleaned |-> cleaned]
Purging(k) == k.check \/ k.claim # 0 \/ k.back # 0

\* Mutant: a thread that finds no dirty chunk left keeps what it claimed.
ClaimKept(A, claim) == A
ClaimReturned(A, claim) == [A EXCEPT !.npurg = (@ - claim) % Word]

\* arena_maybe_purge, arena_compute_npurgatory: the pages this thread will purge.
ToPurge(A) == Max({0, A.ndirty - A.npurg - A.nactive \div DirtyMult})

Stashable(A, c, p, all) ==
    /\ FreeAt(A, c, p) /\ A.map[c][p].dirty
    /\ all \/ NAdjac(A, c, p, TRUE, TRUE) # 0

\* Mutant: the runs stay free while their pages are purged.
StashedInPlace(A, c, p) == A
\* The run becomes allocated.
Stashed(A, c, p) == RunSplit(A, c, p, A.map[c][p].len, "large")

\* arena_chunk_stash_dirty: the arena after it, the runs, and their pages.
StashAt(s, c, p, all) ==
    IF Stashable(s.a, c, p, all)
    THEN [a |-> Stashed(s.a, c, p), jobs |-> Append(s.jobs, Job(c, p, FALSE, TRUE)),
          npages |-> s.npages + s.a.map[c][p].len]
    ELSE s
Stash(A, c, all) ==
    LET upTo[i \in 0 .. NPages] ==
            IF i = 0 THEN [a |-> A, jobs |-> << >>, npages |-> 0]
            ELSE StashAt(upTo[i - 1], c, i - 1, all)
    IN upTo[NPages]

\* One turn of arena_purge's loop, to the madvise of arena_chunk_purge_stashed.  The chunk is
\* never the spare, which has no dirty page that counts.
PurgeChunk(A, k) ==
    LET c == DirtyFirst(A)
        npurgeable == A.info[c].ndirty
        whole == A.info[c].nadjac = 0
        stash == Stash(A, c, whole)
        delta == (IF whole /\ npurgeable > k.claim THEN npurgeable - k.claim ELSE 0) - npurgeable
    IN [a |-> [stash.a EXCEPT !.npurg = (@ + delta) % Word],
        k |-> [k EXCEPT !.pc = "madvise", !.claim = (@ + delta) % Word, !.todo = stash.jobs \o @,
                        !.back = npurgeable - stash.npages]]

\* arena_run_dalloc of the next run of todo, which had been dirty or not.
Freed(k, wasDirty, f) ==
    [a |-> f.a,
     k |-> [k EXCEPT !.pc = IF f.unmap = None THEN "work" ELSE "unmap", !.chunk = f.unmap,
                     !.todo = Tail(@),
                     !.check = @ \/ Head(k.todo).dirty \/ (~Head(k.todo).cleaned /\ wasDirty)]]
FreeNext(A, k, j) == Freed(k, A.map[j.c][j.p].dirty, RunDalloc(A, j.c, j.p, j.dirty, j.cleaned))

Advance(A, k) ==
    IF k.todo # << >> /\ (Head(k.todo).cleaned \/ ~Purging(k)) THEN FreeNext(A, k, Head(k.todo))
    ELSE IF k.back # 0
    THEN [a |-> [A EXCEPT !.npurg = (@ + k.back) % Word],
          k |-> [k EXCEPT !.claim = (@ + k.back) % Word, !.back = 0]]
    ELSE IF k.check
    THEN [a |-> [A EXCEPT !.npurg = @ + ToPurge(A)],
          k |-> [k EXCEPT !.check = FALSE, !.claim = ToPurge(A)]]
    ELSE IF k.claim = 0 THEN [a |-> A, k |-> [k EXCEPT !.pc = "return"]]
    ELSE IF ChunksDirty(A) = {}
    THEN [a |-> ClaimReturned(A, k.claim), k |-> [k EXCEPT !.claim = 0]]
    ELSE PurgeChunk(A, k)

\* More turns than a section has: a run that is freed makes arena_maybe_purge due at most once.
Turns(k) == 4 * Len(k.todo) + 6
Turn(s) == IF s.k.pc = "work" THEN Advance(s.a, s.k) ELSE s
Section(s) ==
    LET after[i \in 0 .. Turns(s.k)] == IF i = 0 THEN s ELSE Turn(after[i - 1])
    IN after[Turns(s.k)]

At(t, pc) == th[t].pc = pc
Goto(t, k) == th' = [th EXCEPT ![t] = k]

\* The section goes on from the arena A, with the other objects the program has.
Left(t, s, others) ==
    /\ arena' = s.a
    /\ Goto(t, IF s.k.pc = "return" THEN Idle ELSE s.k)
    /\ live' = others \union (IF s.k.pc = "return" THEN s.k.ret ELSE {})
Continue(t, A, k, others) == Left(t, Section([a |-> A, k |-> k]), others)

Init ==
    /\ arena = [map |-> [c \in Chunks |-> << >>], avail |-> {}, spare |-> None,
                ndirty |-> 0, nactive |-> 0, npurg |-> 0,
                info |-> [c \in Chunks |-> NoInfo],
                unz |-> [c \in Chunks |-> {}], touched |-> [c \in Chunks |-> {}]]
    /\ bin = [cur |-> None, runs |-> {}]
    /\ hdr = << >>
    /\ live = {}
    /\ th = [t \in Threads |-> Idle]
-----------------------------------------------------------------------------
(* Requests for runs: arena_malloc_large, arena_palloc, and the run that   *)
(* arena_bin_nonfull_run_get needs for the bin.                            *)

Large == {o \in live : o.reg = None}
Requests == [kind : {"large"}, n : Sizes] \union [kind : {"aligned"}, n : AlignedSizes]
Need(w) == IF w.kind = "aligned" THEN w.n + Align - 1 ELSE w.n

\* What becomes of the run r, split for the request w.
Given(t, w, A, r) ==
    LET c == r[1]
        p == r[2]
        B == RunSplit(A, c, p, Need(w), IF w.kind = "small" THEN "small" ELSE "large")
        lead == (Align - ((p + Bias) % Align)) % Align
        trail == Align - 1 - lead
        head == IF lead = 0 THEN B ELSE Cut(B, c, p, lead)
        object == Object(c, p + lead, None)
        trims == (IF lead = 0 THEN << >> ELSE <<Job(c, p, FALSE, FALSE)>>)
                 \o (IF trail = 0 THEN << >> ELSE <<Job(c, p + lead + w.n, FALSE, FALSE)>>)
    IN \/ /\ w.kind = "large"
          /\ arena' = B
          /\ live' = live \union {Object(c, p, None)}
          /\ Goto(t, Idle)
          /\ UNCHANGED hdr
       \/ /\ w.kind = "small"
          /\ arena' = B
          /\ hdr' = With(hdr, r, [free |-> Regs, nextind |-> 0])
          /\ Goto(t, [pc |-> "haveRun", run |-> r])
          /\ UNCHANGED live
       \/ /\ w.kind = "aligned"
          /\ Continue(t, IF trail = 0 THEN head ELSE Cut(head, c, p + lead, w.n),
                      Work(trims, {object}), live)
          /\ UNCHANGED hdr

\* arena_run_alloc_large, arena_run_alloc_small, up to the call of chunk_alloc.
RunAlloc(t, w) ==
    /\ IF Fitting(arena, Need(w)) # {} THEN Given(t, w, arena, BestFit(arena, Need(w)))
       ELSE IF arena.spare # None THEN Given(t, w, FromSpare(arena), <<arena.spare, 0>>)
       ELSE /\ Goto(t, [pc |-> "chunk", want |-> w])
            /\ UNCHANGED <<arena, hdr, live>>
    /\ UNCHANGED bin

MallocLarge(t) ==
    /\ At(t, "idle")
    /\ Cardinality(Large) < MaxLarge
    /\ \E w \in Requests : RunAlloc(t, w)
BinRunAlloc(t) == At(t, "wantRun") /\ RunAlloc(t, [kind |-> "small", n |-> RunPages])

InHand == {th[t].chunk : t \in {u \in Threads : At(u, "unmap")}}

\* chunk_alloc has returned: the lock is taken again.
ChunkAllocated(t) ==
    /\ At(t, "chunk")
    /\ LET w == th[t].want
       IN \/ \E c \in Chunks \ (Mapped(arena) \union InHand) :
                Given(t, w, NewChunk(arena, c), <<c, 0>>)
          \/ Fitting(arena, Need(w)) # {} /\ Given(t, w, arena, BestFit(arena, Need(w)))
          \/ /\ Fitting(arena, Need(w)) = {}
             /\ Goto(t, IF w.kind = "small" THEN [pc |-> "haveRun", run |-> None] ELSE Idle)
             /\ UNCHANGED <<arena, hdr, live>>
    /\ UNCHANGED bin
-----------------------------------------------------------------------------
(* The bin: arena_malloc_small and arena_dalloc_bin.                       *)

Below(r, s) == r[1] < s[1] \/ (r[1] = s[1] /\ r[2] < s[2])
First(runs) == CHOOSE r \in runs : \A s \in runs \ {r} : Below(r, s)
NFree(r) == Cardinality(hdr[r].free)

\* arena_run_reg_alloc: the lowest free region.
RegAlloc(r) ==
    LET reg == Min(hdr[r].free)
    IN [hdr EXCEPT ![r] = [free |-> @.free \ {reg},
                           nextind |-> IF reg = @.nextind THEN reg + 1 ELSE @.nextind]]
RegObject(r) == Object(r[1], r[2], Min(hdr[r].free))

\* arena_bin_lower_run: b.cur, if any, stays the lowest run with free regions.
LowerRun(b, r, curFree) ==
    IF b.cur # None /\ Below(r, b.cur)
    THEN [cur |-> r, runs |-> IF curFree > 0 THEN b.runs \union {b.cur} ELSE b.runs]
    ELSE [b EXCEPT !.runs = @ \union {r}]

\* arena_malloc_small, with arena_bin_malloc_hard until it drops bin->lock.
MallocSmall(t) ==
    /\ At(t, "idle")
    /\ Cardinality(live \ Large) < MaxSmall
    /\ IF bin.cur # None /\ NFree(bin.cur) > 0
       THEN /\ hdr' = RegAlloc(bin.cur)
            /\ live' = live \union {RegObject(bin.cur)}
            /\ UNCHANGED <<bin, th>>
       ELSE IF bin.runs # {}
       THEN /\ bin' = [cur |-> First(bin.runs), runs |-> bin.runs \ {First(bin.runs)}]
            /\ hdr' = RegAlloc(First(bin.runs))
            /\ live' = live \union {RegObject(First(bin.runs))}
            /\ UNCHANGED th
       ELSE /\ bin' = [bin EXCEPT !.cur = None]
            /\ Goto(t, [pc |-> "wantRun"])
            /\ UNCHANGED <<hdr, live>>
    /\ UNCHANGED arena

\* Mutant: runcur is replaced although another thread has set it meanwhile.
RuncurUnset == FALSE
RuncurSet == bin.cur # None /\ NFree(bin.cur) > 0

\* arena_bin_malloc_hard with bin->lock again: runcur may have been set meanwhile.
MallocHard(t) ==
    /\ At(t, "haveRun")
    /\ LET new == th[t].run
           found == IF new = None /\ bin.runs # {} THEN First(bin.runs) ELSE new
           unused == found # None /\ hdr[found].free = Regs
           b == [bin EXCEPT !.runs = @ \ {found}]
       IN \/ /\ RuncurSet
             /\ hdr' = RegAlloc(bin.cur)
             /\ \/ /\ unused
                   /\ bin' = b
                   /\ Goto(t, [pc |-> "freeRun", run |-> found, ret |-> {RegObject(bin.cur)}])
                   /\ UNCHANGED live
                \/ /\ ~unused
                   /\ bin' = IF found = None THEN b ELSE LowerRun(b, found, Cardinality(hdr'[b.cur].free))
                   /\ live' = live \union {RegObject(bin.cur)}
                   /\ Goto(t, Idle)
          \/ /\ ~RuncurSet /\ found # None
             /\ bin' = [b EXCEPT !.cur = found]
             /\ hdr' = RegAlloc(found)
             /\ live' = live \union {RegObject(found)}
             /\ Goto(t, Idle)
          \/ /\ ~RuncurSet /\ found = None
             /\ Goto(t, Idle)
             /\ UNCHANGED <<bin, hdr, live>>
    /\ UNCHANGED arena

\* Mutant: a run that is runcur stays it.
NotDissociated(b, r) == [b EXCEPT !.runs = @ \ {r}]
\* arena_dissociate_bin_run.
Dissociated(b, r) == IF r = b.cur THEN [b EXCEPT !.cur = None] ELSE [b EXCEPT !.runs = @ \ {r}]

\* arena_dalloc_bin_locked until arena_dalloc_bin_run drops bin->lock.
DallocSmall(t) ==
    /\ At(t, "idle")
    /\ \E o \in live :
        LET r == <<o.c, o.p>>
        IN /\ o.reg # None
           /\ live' = live \ {o}
           /\ hdr' = [hdr EXCEPT ![r].free = @ \union {o.reg}]
           /\ \/ /\ NFree(r) + 1 = NRegs
                 /\ bin' = Dissociated(bin, r)
                 /\ Goto(t, [pc |-> "freeRun", run |-> r, ret |-> {}])
              \/ /\ NFree(r) + 1 # NRegs
                 /\ bin' = IF NFree(r) = 0 /\ r # bin.cur
                           THEN LowerRun(bin, r, IF bin.cur = None THEN 0 ELSE NFree(bin.cur)) ELSE bin
                 /\ UNCHANGED th
    /\ UNCHANGED arena

\* Mutant: the pages past those of the header and region 0 are taken for clean.
PastFirst(h) == Past[0]
PastUsed(h) == Past[h.nextind]

\* arena_dalloc_bin_run: pages of a clean run that were never used are freed clean.
DallocBinRun(t) ==
    /\ At(t, "freeRun")
    /\ LET r == th[t].run
           c == r[1]
           p == r[2]
           past == PastUsed(hdr[r])
           A == Touch(arena, c, Extent(p, Past[hdr[r].nextind]))
           trim == ~A.map[c][p].dirty /\ past < RunPages
           tail == IF trim THEN <<Job(c, p + past, FALSE, FALSE)>> ELSE << >>
       IN /\ Continue(t, IF trim THEN Cut(A, c, p, past) ELSE A,
                      Work(tail \o <<Job(c, p, TRUE, FALSE)>>, th[t].ret), live)
          /\ hdr' = Restrict(hdr, DOMAIN hdr \ {r})
    /\ UNCHANGED bin
-----------------------------------------------------------------------------
(* Large objects: arena_dalloc_large and arena_ralloc_large.  The program  *)
(* has written to all of an object when it frees it.                       *)

Size(o) == arena.map[o.c][o.p].len

DallocLarge(t) ==
    /\ At(t, "idle")
    /\ \E o \in Large :
        Continue(t, Touch(arena, o.c, Extent(o.p, Size(o))),
                 Work(<<Job(o.c, o.p, TRUE, FALSE)>>, {}), live \ {o})
    /\ UNCHANGED <<bin, hdr>>

\* arena_ralloc_large_shrink.
RallocShrink(t) ==
    /\ At(t, "idle")
    /\ \E o \in Large : \E n \in {x \in Sizes : x < Size(o)} :
        Continue(t, Cut(Touch(arena, o.c, Extent(o.p, Size(o))), o.c, o.p, n),
                 Work(<<Job(o.c, o.p + n, TRUE, FALSE)>>, {o}), live \ {o})
    /\ UNCHANGED <<bin, hdr>>

\* arena_ralloc_large_grow, in place: by size - oldsize to size + extra - oldsize pages.
RallocGrow(t) ==
    /\ At(t, "idle")
    /\ \E o \in Large : \E size, most \in {x \in Sizes : x > Size(o)} :
        LET q == o.p + Size(o)
            n == Min({arena.map[o.c][q].len, most - Size(o)})
            A == RunSplit(arena, o.c, q, n, "large")
            dirty == A.map[o.c][o.p].dirty \/ A.map[o.c][q].dirty
        IN /\ FreeAt(arena, o.c, q)
           /\ size <= most /\ arena.map[o.c][q].len >= size - Size(o)
           /\ arena' = [A EXCEPT !.map[o.c] = With(Restrict(@, DOMAIN @ \ {q}), o.p,
                                                   Run("large", Size(o) + n, dirty))]
    /\ UNCHANGED <<bin, hdr, live, th>>
-----------------------------------------------------------------------------
(* The sections that follow when arena->lock was dropped.  The loop of     *)
(* arena_purge has all = false: nothing in the server calls                *)
(* arena_purge_all, which only mallctl does.                               *)

\* chunk_dealloc of the chunk that was the spare has returned.
ChunkDealloc(t) ==
    /\ At(t, "unmap")
    /\ Continue(t, arena, [th[t] EXCEPT !.pc = "work", !.chunk = None], live)
    /\ UNCHANGED <<bin, hdr>>

\* The pages are given to the system, zeroed (unless madvise fails), without the lock: the
\* runs are allocated to this thread.
PagesPurged(t) ==
    /\ At(t, "madvise")
    /\ LET k == [th[t] EXCEPT !.pc = "work"]
           stash(c) == {j \in Range(k.todo) : j.cleaned /\ j.c = c}
           pages(c) == UNION {Extent(j.p, arena.map[c][j.p].len) : j \in stash(c)}
       IN Continue(t, [arena EXCEPT
                           !.unz = [c \in Chunks |-> IF c \in Zeroing THEN @[c] \ pages(c)
                                                     ELSE @[c] \union pages(c)],
                           !.touched = [c \in Chunks |-> IF c \in Zeroing THEN @[c] \ pages(c)
                                                         ELSE @[c]]], k, live)
    /\ UNCHANGED <<bin, hdr>>

Step(t) ==
    \/ MallocLarge(t) \/ BinRunAlloc(t) \/ ChunkAllocated(t)
    \/ MallocSmall(t) \/ MallocHard(t) \/ DallocSmall(t) \/ DallocBinRun(t)
    \/ DallocLarge(t) \/ RallocShrink(t) \/ RallocGrow(t)
    \/ ChunkDealloc(t) \/ PagesPurged(t)
Next == \E t \in Threads : Step(t)
Spec == Init /\ [][Next]_vars
-----------------------------------------------------------------------------
\* The types of the variables; no thread stops while it holds a lock.
TypeOK ==
    /\ \A c \in Chunks : /\ DOMAIN arena.map[c] \subseteq Pages
                         /\ Range(arena.map[c]) \subseteq
                                [kind : {"free", "large", "small"}, len : 1 .. NPages, dirty : BOOLEAN]
    /\ arena.avail \subseteq Chunks \X Pages
    /\ arena.spare \in Chunks \union {None}
    /\ arena.ndirty \in 0 .. NChunks * NPages /\ arena.nactive \in 0 .. NChunks * NPages
    /\ arena.npurg \in 0 .. Word - 1
    /\ DOMAIN hdr \subseteq Chunks \X Pages
    /\ \A r \in DOMAIN hdr : hdr[r].free \subseteq Regs /\ hdr[r].nextind \in 0 .. NRegs
    /\ bin.cur \in DOMAIN hdr \union {None} /\ bin.runs \subseteq DOMAIN hdr
    /\ \A t \in Threads : th[t].pc \in {"idle", "chunk", "wantRun", "haveRun", "freeRun", "unmap", "madvise"}

FreeRuns(c) == {p \in DOMAIN arena.map[c] : arena.map[c][p].kind = "free"}
DirtyOf(c) == SumFunction([p \in FreeRuns(c) |-> DirtyPages(arena.map[c][p])])

\* However requests, trims, frees and purges follow each other: the boundary tags of a chunk
\* divide it without gap or overlap, free neighbours differ in dirtiness (all coalescing was
\* done), the tree holds the free runs of every chunk but the spare, which is one unused
\* clean or dirty run, and the counters that decide what is purged, and where first, count
\* what is there.
PageMapExact ==
    /\ \A c \in Mapped(arena) :
        /\ \A i \in Pages : Cardinality({p \in DOMAIN arena.map[c] : i \in Extent(p, arena.map[c][p].len)}) = 1
        /\ \A p \in FreeRuns(c) : \A q \in FreeBefore(arena, c, p) :
                arena.map[c][q].dirty # arena.map[c][p].dirty
        /\ c # arena.spare =>
            arena.info[c] = [ndirty |-> DirtyOf(c), navail |-> Cardinality(FreeRuns(c)),
                             nadjac |-> Cardinality({p \in FreeRuns(c) : FreeBefore(arena, c, p) # {}})]
    /\ arena.spare # None => Unused(arena, arena.spare) /\ arena.info[arena.spare] = NoInfo
    /\ arena.avail = UNION {{c} \X FreeRuns(c) : c \in Mapped(arena) \ {arena.spare}}
    /\ arena.ndirty = SumFunction([r \in arena.avail |-> DirtyPages(arena.map[r[1]][r[2]])])
    /\ arena.nactive + SumFunction([r \in arena.avail |-> arena.map[r[1]][r[2]].len])
        = NPages * Cardinality(Mapped(arena) \ {arena.spare})

\* The runs and regions the code has handed out or holds, by who holds them.
LargeRuns(objects) == {<<o.c, o.p>> : o \in {x \in objects : x.reg = None}}
Working(t) == th[t].pc \in {"unmap", "madvise"}
HeldBy(t) == IF Working(t) THEN {<<th[t].todo[i].c, th[t].todo[i].p>> : i \in DOMAIN th[t].todo} ELSE {}
Pending(t) == IF Working(t) \/ At(t, "freeRun") THEN th[t].ret ELSE {}
Owners == [t \in Threads |-> HeldBy(t) \union LargeRuns(Pending(t))]
Regions == {o \in live \union UNION {Pending(t) : t \in Threads} : o.reg # None}

\* No run and no region is ever lost or given twice: each allocated run is one object of the
\* program, or one run of the bin, or in the hands of one thread, and each region of a run
\* of the bin is either free or one object.
NothingLostOrShared ==
    LET allocated == UNION {{c} \X (DOMAIN arena.map[c] \ FreeRuns(c)) : c \in Mapped(arena)}
        held == UNION Range(Owners)
    IN /\ allocated = LargeRuns(live) \union DOMAIN hdr \union held
       /\ LargeRuns(live) \cap DOMAIN hdr = {} /\ (LargeRuns(live) \union DOMAIN hdr) \cap held = {}
       /\ \A s, t \in Threads : s # t => Owners[s] \cap Owners[t] = {}
       /\ \A r \in DOMAIN hdr : hdr[r].free = Regs \ {o.reg : o \in {x \in Regions : <<x.c, x.p>> = r}}
       /\ \A o \in Regions : <<o.c, o.p>> \in DOMAIN hdr

\* A run with free regions can always be found again: it is runcur or in the bin's tree, and
\* never both, unless a thread has just taken it, unused, to the arena or from it.
InTransit == {th[t].run : t \in {u \in Threads : th[u].pc \in {"haveRun", "freeRun"}}}
BinRunsFound ==
    \A r \in DOMAIN hdr :
        IF r \in InTransit THEN hdr[r].free = Regs /\ r \notin bin.runs \union {bin.cur}
        ELSE /\ r \in bin.runs => r # bin.cur /\ NFree(r) \in 1 .. NRegs - 1
             /\ NFree(r) > 0 => r \in bin.runs \union {bin.cur}

\* calloc clears only the pages marked unzeroed of a clean run: a free page of a clean run
\* that was written since the system gave it bears that mark.
CleanPagesKnown ==
    \A c \in Mapped(arena) : \A p \in FreeRuns(c) :
        ~arena.map[c][p].dirty =>
            arena.touched[c] \cap Extent(p, arena.map[c][p].len) \subseteq arena.unz[c]

\* arena->npurgatory is what the threads that purge still claim, whoever purged the pages
\* and although a claim may wrap below zero; so it is 0 again when nobody purges.
ClaimsBalance ==
    arena.npurg = SumFunction([t \in Threads |-> IF Working(t) THEN th[t].claim ELSE 0]) % Word
-----------------------------------------------------------------------------
Symmetry == Permutations(Threads)
=============================================================================
