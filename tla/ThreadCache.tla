----------------------------- MODULE ThreadCache -----------------------------
(***************************************************************************)
(* The allocator's thread caches: stacks of objects, one for each bin,     *)
(* filled from the thread's arena and flushed to the arenas the objects    *)
(* come from, which other threads' may be.  A flush makes one pass for     *)
(* each arena, under that arena's lock; everything else a thread does      *)
(* between two locks is joined to the section before.  Statistics and the  *)
(* memory of the cache itself are left out.                                *)
(***************************************************************************)
EXTENDS Integers, Sequences, FiniteSets, FiniteSetsExt, SequencesExt, Functions

CONSTANTS
    Threads, Arenas,
    ArenaOf,    \* ArenaOf[t]: what choose_arena gives t
    NBins,      \* the small bins, 1 .. NBins
    NHBins,     \* and the bins of cached large sizes after them
    CachedMax,  \* CachedMax[b]: ncached_max
    GcIncr,     \* TCACHE_GC_INCR
    Objects,    \* the objects, by arena, bin and number
    Plain,      \* the threads that have switched their caches off, and never end
    MaxLive,    \* bound on the objects the program has when it asks for another
    MidFill,    \* can an arena run out of memory in the middle of a fill?
    Stale       \* a pointer to no object

VARIABLES
    free,   \* the objects that are free in each arena
    live,   \* the objects of the program
    tsd,    \* "null", "disabled", "purgatory", "reincarnated", or "cache"
    armed,  \* will tcache_thread_cleanup be called at, or again during, the thread's exit?
    exiting,
    cache,  \* the caches
    work    \* the flush a thread is in, and what it does after it

vars == <<free, live, tsd, armed, exiting, cache, work>>

Bins == 1 .. NHBins
EmptyBin == [avail |-> <<>>, low |-> 0, div |-> 1]
NewCache == [bins |-> [b \in Bins |-> EmptyBin], ev |-> 0, next |-> 1]
Idle == [b |-> 0, n |-> 0, then |-> "idle", o |-> {}, ret |-> {}]

\* What the allocator has set up before the first cache: at least one bin, room for two objects
\* in a small bin (tcache_boot makes it twice a run's, at most TCACHE_NSLOTS_SMALL_MAX).
Configured ==
    /\ NHBins \in Nat \ {0} /\ NBins \in 0 .. NHBins
    /\ ArenaOf \in [Threads -> Arenas]
    /\ CachedMax \in [Bins -> Nat \ {0}] /\ \A b \in 1 .. NBins : CachedMax[b] >= 2
    /\ Objects \subseteq [arena : Arenas, bin : Bins, n : Nat] /\ Stale \notin Objects

FreeIn(a, b) == {o \in free[a] : o.bin = b}
The(S) == CHOOSE x \in S : TRUE
First(os) == CHOOSE o \in os : \A p \in os : o.n <= p.n
\* The first k free regions, lowest first, or as many as there are.
Lowest(os, k) ==
    LET taken[i \in 0 .. k] ==
            IF i = 0 THEN <<>>
            ELSE LET s == taken[i - 1]
                 IN IF os \subseteq Range(s) THEN s ELSE Append(s, First(os \ Range(s)))
    IN taken[k]
\* n >> k.
ShiftRight(n, k) ==
    LET shifted[i \in 0 .. k] == IF i = 0 THEN n ELSE shifted[i - 1] \div 2
    IN shifted[k]

\* What tcache_get does to the state when it finds no cache, and what the state then is.
Reincarnated(t) ==
    IF tsd[t] = "purgatory"
    THEN tsd' = [tsd EXCEPT ![t] = "reincarnated"] /\ armed' = [armed EXCEPT ![t] = TRUE]
    ELSE UNCHANGED <<tsd, armed>>
-----------------------------------------------------------------------------
(* Flushing.                                                               *)

\* Mutant: a pass takes all objects for the locked arena's.
NoneDeferred(avail, n) == <<>>
\* tcache_bin_flush_small, _large: a pass over the first n objects of avail frees those of the
\* first one's arena and keeps the others in front of the rem that stay.
Deferred(avail, n) ==
    LET kept[i \in 0 .. n] ==
            IF i = 0 THEN <<>>
            ELSE IF avail[i].arena = avail[1].arena THEN kept[i - 1]
            ELSE Append(kept[i - 1], avail[i])
    IN kept[n]
Passed(avail, n) == {avail[i] : i \in 1 .. n} \ Range(Deferred(avail, n))

Flushed(bin) == [bin EXCEPT !.low = IF Len(bin.avail) < @ THEN Len(bin.avail) ELSE @]

\* The rest of tcache_event_hard.
Collected(c) ==
    LET b == c.next
        bin == c.bins[b]
        div == IF bin.low > 0
               THEN IF ShiftRight(CachedMax[b], bin.div + 1) >= 1 THEN bin.div + 1 ELSE bin.div
               ELSE IF bin.low < 0 /\ bin.div > 1 THEN bin.div - 1 ELSE bin.div
    IN [bins |-> [c.bins EXCEPT ![b].div = div, ![b].low = Len(bin.avail)],
        ev |-> 0, next |-> IF b = NHBins THEN 1 ELSE b + 1]
\* The number of objects tcache_event_hard flushes: three quarters of those below low_water.
Surplus(bin) == IF bin.low > 0 THEN bin.low - bin.low \div 4 ELSE 0

Pushed(c, b, o) == [c EXCEPT !.bins[b].avail = Append(@, o)]

\* tcache_event, after which the program has ret beside others.
Event(t, c, others, ret) ==
    LET k == [c EXCEPT !.ev = @ + 1]
        n == Surplus(k.bins[k.next])
        collects == k.ev = GcIncr
    IN IF collects /\ n > 0
       THEN /\ cache' = [cache EXCEPT ![t] = k]
            /\ work' = [work EXCEPT ![t] = [b |-> k.next, n |-> n, then |-> "gc", o |-> {}, ret |-> ret]]
            /\ live' = others
       ELSE /\ cache' = [cache EXCEPT ![t] = IF collects THEN Collected(k) ELSE k]
            /\ work' = [work EXCEPT ![t] = Idle]
            /\ live' = others \union ret

\* The bins that tcache_destroy has still to flush.
ToDestroy(c) == {b \in Bins : c.bins[b].avail # <<>>}
Destroy(t, c, final) ==
    IF ToDestroy(c) = {}
    THEN /\ cache' = [cache EXCEPT ![t] = NewCache]
         /\ work' = [work EXCEPT ![t] = Idle]
         /\ tsd' = [tsd EXCEPT ![t] = final]
         /\ armed' = [armed EXCEPT ![t] = TRUE]
    ELSE LET b == Min(ToDestroy(c))
         IN /\ cache' = [cache EXCEPT ![t] = c]
            /\ work' = [work EXCEPT ![t] =
                            [b |-> b, n |-> Len(c.bins[b].avail), then |-> final, o |-> {}, ret |-> {}]]
            /\ UNCHANGED <<tsd, armed>>

\* One pass, and after the last one what the flush was for.
Pass(t) ==
    /\ work[t].n > 0
    /\ LET w == work[t]
           avail == cache[t].bins[w.b].avail
           n == Len(Deferred(avail, w.n))
           rest == Deferred(avail, w.n) \o SubSeq(avail, w.n + 1, Len(avail))
           c == [cache[t] EXCEPT !.bins[w.b].avail = rest]
           done == [c EXCEPT !.bins[w.b] = Flushed(@)]
       IN /\ free' = [free EXCEPT ![avail[1].arena] = @ \union Passed(avail, w.n)]
          /\ \/ /\ n > 0
                /\ cache' = [cache EXCEPT ![t] = c]
                /\ work' = [work EXCEPT ![t].n = n]
                /\ UNCHANGED <<live, tsd, armed>>
             \/ /\ n = 0 /\ w.then = "push"
                /\ Event(t, Pushed(done, w.b, The(w.o)), live, {})
                /\ UNCHANGED <<tsd, armed>>
             \/ /\ n = 0 /\ w.then = "gc"
                /\ cache' = [cache EXCEPT ![t] = Collected(done)]
                /\ work' = [work EXCEPT ![t] = Idle]
                /\ live' = live \union w.ret
                /\ UNCHANGED <<tsd, armed>>
             \/ /\ n = 0 /\ w.then \notin {"push", "gc"}
                /\ Destroy(t, done, w.then)
                /\ UNCHANGED live
    /\ UNCHANGED exiting
-----------------------------------------------------------------------------
(* Allocation and deallocation.  A thread that is flushing does nothing    *)
(* else.                                                                   *)

Ready(t) == work[t] = Idle

\* tcache_alloc_easy.
Popped(bin) == [bin EXCEPT !.avail = Front(@), !.low = IF Len(bin.avail) - 1 < @ THEN Len(bin.avail) - 1 ELSE @]

\* arena_tcache_fill_small, which puts the objects where nfill of them would end, lowest on
\* top, also when the arena had only i.
Filled(bin, nfill, got) ==
    [bin EXCEPT !.low = -1,
        !.avail = [p \in 1 .. Len(got) |->
                      IF p > nfill - Len(got) THEN got[nfill + 1 - p] ELSE Stale]]

Room == Cardinality(live) < MaxLive

\* tcache_alloc_small and tcache_alloc_large, from the cache.
MallocEasy(t, b) ==
    /\ Ready(t) /\ Room /\ tsd[t] = "cache"
    /\ LET bin == cache[t].bins[b]
       IN /\ bin.avail # <<>>
          /\ Event(t, [cache[t] EXCEPT !.bins[b] = Popped(bin)], live, {Last(bin.avail)})
    /\ UNCHANGED <<free, tsd, armed, exiting>>

\* tcache_alloc_small_hard.
MallocSmallHard(t, b) ==
    /\ Ready(t) /\ Room /\ tsd[t] = "cache" /\ b <= NBins
    /\ LET bin == cache[t].bins[b]
           nfill == ShiftRight(CachedMax[b], bin.div)
           there == FreeIn(ArenaOf[t], b)
           got == Lowest(there, nfill)
           filled == Filled(bin, nfill, got)
       IN /\ bin.avail = <<>>
          /\ Len(got) \in {0, nfill} \/ MidFill
          /\ free' = [free EXCEPT ![ArenaOf[t]] = @ \ Range(got)]
          /\ IF got = <<>>
             THEN /\ cache' = [cache EXCEPT ![t].bins[b].low = -1]
                  /\ UNCHANGED <<live, work>>
             ELSE Event(t, [cache[t] EXCEPT !.bins[b] = Popped(filled)], live, {Last(filled.avail)})
    /\ UNCHANGED <<tsd, armed, exiting>>

\* tcache_alloc_large when nothing is cached: one object from the arena.
MallocLargeHard(t, b) ==
    /\ Ready(t) /\ Room /\ tsd[t] = "cache" /\ b > NBins
    /\ cache[t].bins[b].avail = <<>>
    /\ FreeIn(ArenaOf[t], b) # {}
    /\ LET o == First(FreeIn(ArenaOf[t], b))
       IN /\ free' = [free EXCEPT ![ArenaOf[t]] = @ \ {o}]
          /\ Event(t, [cache[t] EXCEPT !.bins[b].low = -1], live, {o})
    /\ UNCHANGED <<tsd, armed, exiting>>

\* tcache_get with create set, in a new thread.
TcacheCreate(t) ==
    /\ Ready(t) /\ tsd[t] = "null"
    /\ tsd' = [tsd EXCEPT ![t] = "cache"]
    /\ armed' = [armed EXCEPT ![t] = TRUE]
    /\ UNCHANGED <<free, live, exiting, cache, work>>

\* Without a cache, or when none can be made: straight from the arena.
MallocUncached(t, b) ==
    /\ Ready(t) /\ Room /\ tsd[t] # "cache"
    /\ FreeIn(ArenaOf[t], b) # {}
    /\ LET o == First(FreeIn(ArenaOf[t], b))
       IN /\ free' = [free EXCEPT ![ArenaOf[t]] = @ \ {o}]
          /\ live' = live \union {o}
    /\ Reincarnated(t)
    /\ UNCHANGED <<exiting, cache, work>>

\* tcache_dalloc_small, tcache_dalloc_large: a full bin is flushed by half first.
Dalloc(t, o) ==
    /\ Ready(t) /\ tsd[t] = "cache"
    /\ LET bin == cache[t].bins[o.bin]
           n == CachedMax[o.bin] - CachedMax[o.bin] \div 2
       IN IF Len(bin.avail) < CachedMax[o.bin]
          THEN Event(t, Pushed(cache[t], o.bin, o), live \ {o}, {})
          ELSE /\ work' = [work EXCEPT ![t] = [b |-> o.bin, n |-> n, then |-> "push", o |-> {o}, ret |-> {}]]
               /\ live' = live \ {o}
               /\ UNCHANGED cache
    /\ UNCHANGED <<free, tsd, armed, exiting>>

DallocUncached(t, o) ==
    /\ Ready(t) /\ tsd[t] # "cache"
    /\ live' = live \ {o}
    /\ free' = [free EXCEPT ![o.arena] = @ \union {o}]
    /\ Reincarnated(t)
    /\ UNCHANGED <<exiting, cache, work>>
-----------------------------------------------------------------------------
(* The cache's life: mallctl's switches, and the end of a thread, whose    *)
(* destructors may be called again when later ones allocate.               *)

\* tcache_flush, and tcache_enabled_set.
Flush(t) ==
    /\ Ready(t) /\ t \notin Plain /\ tsd[t] = "cache"
    /\ Destroy(t, cache[t], "null")
    /\ UNCHANGED <<free, live, exiting>>

Disable(t) ==
    /\ Ready(t) /\ t \notin Plain
    /\ \/ /\ tsd[t] = "cache"
          /\ Destroy(t, cache[t], "disabled")
       \/ /\ tsd[t] = "null"
          /\ tsd' = [tsd EXCEPT ![t] = "disabled"]
          /\ armed' = [armed EXCEPT ![t] = TRUE]
          /\ UNCHANGED <<cache, work>>
    /\ UNCHANGED <<free, live, exiting>>

Enable(t) ==
    /\ Ready(t) /\ t \notin Plain /\ tsd[t] = "disabled"
    /\ tsd' = [tsd EXCEPT ![t] = "null"]
    /\ armed' = [armed EXCEPT ![t] = TRUE]
    /\ UNCHANGED <<free, live, exiting, cache, work>>

Exit(t) ==
    /\ Ready(t) /\ t \notin Plain /\ ~exiting[t]
    /\ exiting' = [exiting EXCEPT ![t] = TRUE]
    /\ UNCHANGED <<free, live, tsd, armed, cache, work>>

\* tcache_thread_cleanup.
ThreadCleanup(t) ==
    /\ Ready(t) /\ exiting[t] /\ armed[t]
    /\ \/ /\ tsd[t] = "cache"
          /\ Destroy(t, cache[t], "purgatory")
       \/ /\ tsd[t] = "reincarnated"
          /\ tsd' = [tsd EXCEPT ![t] = "purgatory"]
          /\ UNCHANGED <<armed, cache, work>>
       \/ /\ tsd[t] \in {"disabled", "purgatory", "null"}
          /\ armed' = [armed EXCEPT ![t] = FALSE]
          /\ UNCHANGED <<tsd, cache, work>>
    /\ UNCHANGED <<free, live, exiting>>

\* The thread is gone, and another begins in its place.
NewThread(t) ==
    /\ Ready(t) /\ exiting[t] /\ ~armed[t]
    /\ exiting' = [exiting EXCEPT ![t] = FALSE]
    /\ tsd' = [tsd EXCEPT ![t] = "null"]
    /\ UNCHANGED <<free, live, armed, cache, work>>

Init ==
    /\ free = [a \in Arenas |-> {o \in Objects : o.arena = a}] /\ live = {}
    /\ tsd = [t \in Threads |-> IF t \in Plain THEN "disabled" ELSE "null"]
    /\ armed = [t \in Threads |-> FALSE]
    /\ exiting = [t \in Threads |-> FALSE]
    /\ cache = [t \in Threads |-> NewCache]
    /\ work = [t \in Threads |-> Idle]

Next ==
    \E t \in Threads :
        \/ \E b \in Bins : \/ MallocEasy(t, b) \/ MallocSmallHard(t, b)
                           \/ MallocLargeHard(t, b) \/ MallocUncached(t, b)
        \/ \E o \in live : Dalloc(t, o) \/ DallocUncached(t, o)
        \/ Pass(t)
        \/ TcacheCreate(t) \/ Flush(t) \/ Disable(t) \/ Enable(t)
        \/ Exit(t) \/ ThreadCleanup(t) \/ NewThread(t)

Spec == Init /\ [][Next]_vars
-----------------------------------------------------------------------------
Cached(t) == UNION {Range(cache[t].bins[b].avail) : b \in Bins}
InHand(t) == work[t].o \union work[t].ret

TypeOK ==
    /\ \A a \in Arenas : free[a] \subseteq Objects
    /\ live \subseteq Objects \union {Stale}
    /\ tsd \in [Threads -> {"null", "disabled", "purgatory", "reincarnated", "cache"}]
    /\ \A t \in Threads : \A b \in Bins :
        LET bin == cache[t].bins[b]
        IN /\ Range(bin.avail) \subseteq Objects \union {Stale}
           /\ Len(bin.avail) <= CachedMax[b] /\ (Ready(t) => bin.low <= Len(bin.avail))
           /\ bin.div >= 1 /\ (b <= NBins => ShiftRight(CachedMax[b], bin.div) >= 1)

Times(o) ==
    LET stacks == {s \in Threads \X Bins : o \in Range(cache[s[1]].bins[s[2]].avail)}
    IN Cardinality({a \in Arenas : o \in free[a]}) + (IF o \in live THEN 1 ELSE 0)
       + Cardinality(stacks) + Cardinality({t \in Threads : o \in InHand(t)})

\* Every object is in exactly one place, in the stack of its bin when it is cached and in its
\* own arena when it is free, through flushes by passes, collections, and threads that end in
\* whatever order the destructors allow; a thread without a cache keeps nothing.
ObjectsConserved ==
    /\ \A o \in Objects : Times(o) = 1
    /\ \A a \in Arenas : \A o \in free[a] : o.arena = a
    /\ \A t \in Threads : \A b \in Bins :
        LET avail == cache[t].bins[b].avail
        IN /\ IsInjective(avail)
           /\ \A i \in DOMAIN avail : avail[i].bin = b
           /\ tsd[t] # "cache" => avail = <<>>

\* assert(ptr != NULL) of tcache_bin_flush_small, for every cached pointer: it is an object.
CachedAreObjects ==
    \A t \in Threads : Stale \notin Cached(t) \union InHand(t) \union live
=============================================================================
