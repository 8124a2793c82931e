----------------------------- MODULE ArenaTable ------------------------------
(***************************************************************************)
(* Which threads allocate from which arenas: the initialisation of the     *)
(* allocator, the arenas that are made when threads ask for one, and the   *)
(* calls of mallctl that move a thread, add an arena and gather the        *)
(* statistics.  A section under arenas_lock is one step.  The calls of     *)
(* mallctl hold ctl_mtx across several.                                    *)
(***************************************************************************)
EXTENDS Integers, FiniteSets, FiniteSetsExt

CONSTANTS
    Threads, None,
    NAuto,      \* opt_narenas; above 1, as with one arena it is read without a lock
    MaxArenas   \* bounds arenas.extend

VARIABLES
    malloc_initializer,
    init,       \* "none"; "first", with one arena on the stack; "done"; "failed"
    arenas,     \* nthreads of each, or None
    assigned,   \* each thread's arena
    ctl_stats,  \* zero before ctl_init
    op,         \* what the holder of ctl_mtx does
    crashed

vars == <<malloc_initializer, init, arenas, assigned, ctl_stats, op, crashed>>

Idle == [pc |-> "idle"]
Busy(t) == op # Idle /\ op.t = t
Indices == DOMAIN arenas
narenas_total == Cardinality(Indices)
narenas_auto == IF init = "done" THEN NAuto ELSE 1
ctl_initialized == ctl_stats.narenas # 0
-----------------------------------------------------------------------------
(* malloc_init_hard.  A thread that comes while another one initialises    *)
(* waits, by spinning: it has no step here.                                *)

\* Up to the point where it unlocks init_lock: any of the boot functions, or the first arena, may
\* fail.
MallocInitHard(t) ==
    /\ init = "none" /\ malloc_initializer = None
    /\ malloc_initializer' = t
    /\ \/ init' = "first" /\ arenas' = [i \in {0} |-> 0]
       \/ init' = "failed" /\ UNCHANGED arenas
    /\ UNCHANGED <<assigned, ctl_stats, op, crashed>>

\* From there on, after what the thread itself may have allocated meanwhile.
MallocInitDone(t) ==
    /\ init = "first" /\ malloc_initializer = t
    /\ \/ init' = "done" /\ arenas' = [i \in 0 .. NAuto - 1 |-> IF i = 0 THEN arenas[0] ELSE None]
       \/ init' = "failed" /\ arenas' = << >>
    /\ UNCHANGED <<malloc_initializer, assigned, ctl_stats, op, crashed>>

\* The thread that failed is told at its next call that all is well, and looks for an arena where
\* there is none.
MallocAfterFailure(t) ==
    /\ init = "failed" /\ malloc_initializer = t /\ assigned[t] = None
    /\ crashed' = TRUE
    /\ UNCHANGED <<malloc_initializer, init, arenas, assigned, ctl_stats, op>>

\* malloc_init returns FALSE.
Initialized(t) == init = "done" \/ (init = "first" /\ malloc_initializer = t)
-----------------------------------------------------------------------------
\* arenas_extend: without memory the array stays as it is.
Extended(as, ind) == {[as EXCEPT ![ind] = 0], as}

Extant == {i \in Indices : i < narenas_auto /\ arenas[i] # None}
LeastLoaded ==
    CHOOSE i \in Extant : \A j \in Extant : arenas[i] < arenas[j] \/ (arenas[i] = arenas[j] /\ i <= j)
Nulls == {i \in Indices : i < narenas_auto} \ Extant

\* choose_arena, in a thread that has none.  An arena that cannot be made is replaced by the first.
choose_arena_hard(t) ==
    /\ Initialized(t) /\ assigned[t] = None
    /\ \/ /\ arenas[LeastLoaded] = 0 \/ Nulls = {}
          /\ arenas' = [arenas EXCEPT ![LeastLoaded] = @ + 1]
          /\ assigned' = [assigned EXCEPT ![t] = LeastLoaded]
       \/ /\ arenas[LeastLoaded] # 0 /\ Nulls # {}
          /\ \E as \in Extended(arenas, Min(Nulls)) :
                LET ret == IF as[Min(Nulls)] # None THEN Min(Nulls) ELSE 0
                IN arenas' = [as EXCEPT ![ret] = @ + 1] /\ assigned' = [assigned EXCEPT ![t] = ret]
    /\ UNCHANGED <<malloc_initializer, init, ctl_stats, op, crashed>>

\* arenas_cleanup, when the thread ends; another thread takes its name.
arenas_cleanup(t) ==
    /\ init = "done" /\ assigned[t] # None /\ ~Busy(t)
    /\ arenas' = [arenas EXCEPT ![assigned[t]] = @ - 1]
    /\ assigned' = [assigned EXCEPT ![t] = None]
    /\ UNCHANGED <<malloc_initializer, init, ctl_stats, op, crashed>>
-----------------------------------------------------------------------------
(* mallctl.  In ctl_stats.arenas the last element, narenas, has the sums.  *)
(* active stands for all the statistics that arena_stats_merge adds up.    *)

ctl_arena_clear(astats) == [astats EXCEPT !.active = 0]
ctl_arena_smerge(sstats, astats) == [sstats EXCEPT !.nthreads = @ + astats.nthreads, !.active = @ + astats.active]

\* ctl_refresh, which finds the arenas with the given activities.
Refreshed(stats, active) ==
    LET n == stats.narenas
        refreshed == [i \in 0 .. n - 1 |->
            IF arenas[i] = None THEN [stats.arenas[i] EXCEPT !.nthreads = 0, !.initialized = FALSE]
            ELSE LET astats == ctl_arena_clear(stats.arenas[i])
                 IN [astats EXCEPT !.nthreads = arenas[i], !.initialized = TRUE, !.active = @ + active[i]]]
        merged[i \in 0 .. n] ==
            IF i = 0 THEN [ctl_arena_clear(stats.arenas[n]) EXCEPT !.nthreads = 0]
            ELSE IF refreshed[i - 1].initialized THEN ctl_arena_smerge(merged[i - 1], refreshed[i - 1])
            ELSE merged[i - 1]
    IN [stats EXCEPT !.arenas = [i \in 0 .. n |-> IF i < n THEN refreshed[i] ELSE merged[n]]]

\* Any one of n arenas is active.
Activities(n) == {[i \in 0 .. n - 1 |-> IF i = k THEN 1 ELSE 0] : k \in 0 .. n - 1}
NoStats == [initialized |-> FALSE, nthreads |-> 0, active |-> 0]

ctl_init(t) ==
    /\ init = "done" /\ ~ctl_initialized /\ op = Idle
    /\ \E active \in Activities(NAuto) :
        ctl_stats' = Refreshed(
            [narenas |-> NAuto,
             arenas |-> [i \in 0 .. NAuto |-> [NoStats EXCEPT !.initialized = (i = NAuto)]]], active)
    /\ UNCHANGED <<malloc_initializer, init, arenas, assigned, op, crashed>>

epoch_ctl(t) ==
    /\ ctl_initialized /\ op = Idle
    /\ \E active \in Activities(ctl_stats.narenas) : ctl_stats' = Refreshed(ctl_stats, active)
    /\ UNCHANGED <<malloc_initializer, init, arenas, assigned, op, crashed>>

Lock(t) == ctl_initialized /\ op = Idle /\ assigned[t] # None

ThreadArena(t, newind) ==
    /\ Lock(t)
    /\ op' = [pc |-> "thread.arena", t |-> t, newind |-> newind]
    /\ UNCHANGED <<malloc_initializer, init, arenas, assigned, ctl_stats, crashed>>

\* An arena that cannot be made is written to all the same, where its pointer is null.
thread_arena_ctl ==
    /\ op.pc = "thread.arena"
    /\ op' = Idle
    /\ LET oldind == assigned[op.t]
       IN \/ /\ op.newind = oldind \/ op.newind >= ctl_stats.narenas
             /\ UNCHANGED <<arenas, assigned, crashed>>
          \/ /\ op.newind # oldind /\ op.newind < ctl_stats.narenas
             /\ \E as \in IF arenas[op.newind] # None THEN {arenas} ELSE Extended(arenas, op.newind) :
                    \/ /\ as[op.newind] = None
                       /\ crashed' = TRUE
                       /\ UNCHANGED <<arenas, assigned>>
                    \/ /\ as[op.newind] # None
                       /\ arenas' = [as EXCEPT ![oldind] = @ - 1, ![op.newind] = @ + 1]
                       /\ assigned' = [assigned EXCEPT ![op.t] = op.newind]
                       /\ UNCHANGED crashed
    /\ UNCHANGED <<malloc_initializer, init, ctl_stats>>

\* arenas.extend: ctl_grow, with its memory.
ArenasExtend(t) ==
    /\ Lock(t) /\ ctl_stats.narenas < MaxArenas
    /\ op' = [pc |-> "grow", t |-> t]
    /\ UNCHANGED <<malloc_initializer, init, arenas, assigned, ctl_stats, crashed>>

SwapArenas ==
    /\ op.pc = "grow"
    /\ arenas' \in Extended([i \in 0 .. narenas_total |-> IF i \in Indices THEN arenas[i] ELSE None],
                            narenas_total)
    /\ op' = [op EXCEPT !.pc = "grown"]
    /\ UNCHANGED <<malloc_initializer, init, assigned, ctl_stats, crashed>>

\* Mutant: the new arena gets the element of the sums.
SumsStay(stats) ==
    [narenas |-> stats.narenas + 1,
     arenas |-> [i \in 0 .. stats.narenas + 1 |-> IF i <= stats.narenas THEN stats.arenas[i] ELSE NoStats]]

\* The sums move up.
Swapped(stats) ==
    LET n == stats.narenas
    IN [narenas |-> n + 1,
        arenas |-> [i \in 0 .. n + 1 |->
            CASE i < n -> stats.arenas[i] [] i = n -> NoStats [] i = n + 1 -> stats.arenas[n]]]

SwapStats ==
    /\ op.pc = "grown"
    /\ ctl_stats' = Swapped(ctl_stats)
    /\ op' = Idle
    /\ UNCHANGED <<malloc_initializer, init, arenas, assigned, crashed>>

Init ==
    /\ malloc_initializer = None /\ init = "none"
    /\ arenas = << >> /\ assigned = [t \in Threads |-> None]
    /\ ctl_stats = [narenas |-> 0, arenas |-> << >>] /\ op = Idle /\ crashed = FALSE

Next ==
    /\ ~crashed
    /\ \/ \E t \in Threads :
            \/ MallocInitHard(t) \/ MallocInitDone(t) \/ MallocAfterFailure(t)
            \/ choose_arena_hard(t) \/ arenas_cleanup(t)
            \/ ctl_init(t) \/ epoch_ctl(t) \/ ArenasExtend(t)
            \/ \E newind \in 0 .. MaxArenas : ThreadArena(t, newind)
       \/ thread_arena_ctl \/ SwapArenas \/ SwapStats

-----------------------------------------------------------------------------
TypeOK ==
    /\ malloc_initializer \in Threads \union {None} /\ init \in {"none", "first", "done", "failed"}
    /\ \A i \in Indices : arenas[i] \in Nat \union {None}
    /\ assigned \in [Threads -> Nat \union {None}]
    /\ crashed \in BOOLEAN

Shown(stats) == {i \in 0 .. stats.narenas - 1 : stats.arenas[i].initialized}
NThreads(stats) == [i \in 0 .. stats.narenas |-> stats.arenas[i].nthreads]
Active(stats) == [i \in 0 .. stats.narenas |-> stats.arenas[i].active]

\* However threads come, move and go, and although an arena that cannot be made is replaced by
\* the first, up to the crash that a move to it ends in (ctl.c:1211 asserts that it is there, and
\* its count is written through a null pointer): every arena knows how many threads allocate from
\* it, no thread's arena is one that is not there, mallctl never counts arenas that are not in the
\* array, and its sums are those of the arenas it shows.
ArenasCounted ==
    init = "done" =>
        /\ \A t \in Threads : assigned[t] # None => assigned[t] \in Indices /\ arenas[assigned[t]] # None
        /\ \A i \in Indices : arenas[i] # None => arenas[i] = Cardinality({t \in Threads : assigned[t] = i})
        /\ ctl_initialized =>
            /\ narenas_total = ctl_stats.narenas + (IF op.pc = "grown" THEN 1 ELSE 0)
            /\ LET sums == ctl_stats.arenas[ctl_stats.narenas]
               IN /\ sums.initialized
                  /\ sums.nthreads = SumFunctionOnSet(NThreads(ctl_stats), Shown(ctl_stats))
                  /\ sums.active = SumFunctionOnSet(Active(ctl_stats), Shown(ctl_stats))
            /\ \A i \in 0 .. ctl_stats.narenas - 1 : ctl_stats.arenas[i].initialized => arenas[i] # None
=============================================================================
