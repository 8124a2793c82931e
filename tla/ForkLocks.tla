------------------------------ MODULE ForkLocks ------------------------------
(***************************************************************************)
(* The allocator's mutexes while one of the threads forks: which of them   *)
(* its calls take while they hold another, the order in which              *)
(* jemalloc_prefork takes all of them, and how parent and child let go.    *)
(* One arena and one bin stand for all; the profiler's mutexes, the        *)
(* radix tree's and that of the data segment are not built or not nested.  *)
(***************************************************************************)
EXTENDS Integers, Sequences

CONSTANTS
    Threads, None,
    BaseGrows   \* whether base_alloc ever runs out of pages

VARIABLES
    held,       \* what each thread holds
    wants,      \* what it waits for
    fork,       \* what a thread that forks is at
    child       \* the mutexes that are locked in the child, None without one

vars == <<held, wants, fork, child>>

Mutexes == {"ctl_mtx", "arenas_lock", "arena", "bin", "chunks_mtx", "base_mtx", "huge_mtx"}

\* What is locked under a mutex, also further down: all others in mallctl, base_alloc in
\* arenas_extend, a chunk's statistics in base_pages_alloc, and the bins in tcache_stats_merge.
Nested(m) ==
    {n \in Mutexes :
        \/ m = "ctl_mtx" /\ n # m
        \/ m = "arena" /\ n = "bin"
        \/ m = "arenas_lock" /\ n = "base_mtx"
        \/ BaseGrows /\ m \in {"arenas_lock", "base_mtx"} /\ n = "chunks_mtx"}

Holder(m) == {t \in Threads : m \in held[t]}
NoFork == [pc |-> "none"]
Forks(t) == fork # NoFork /\ fork.t = t
-----------------------------------------------------------------------------
(* malloc_mutex_lock, in a call or in jemalloc_prefork, and                *)
(* malloc_mutex_unlock.                                                    *)

Lock(t) ==
    /\ wants[t] = None /\ ~Forks(t)
    /\ \E m \in Mutexes :
        /\ \A n \in held[t] : m \in Nested(n)
        /\ wants' = [wants EXCEPT ![t] = m]
    /\ UNCHANGED <<held, fork, child>>

Locked(t) ==
    /\ wants[t] # None /\ Holder(wants[t]) = {}
    /\ held' = [held EXCEPT ![t] = @ \union {wants[t]}]
    /\ wants' = [wants EXCEPT ![t] = None]
    /\ UNCHANGED <<fork, child>>

Unlock(t) ==
    /\ wants[t] = None /\ ~Forks(t)
    /\ \E m \in held[t] : held' = [held EXCEPT ![t] = @ \ {m}]
    /\ UNCHANGED <<wants, fork, child>>
-----------------------------------------------------------------------------
\* Mutant: the bins before the arena.
BinsFirst == <<"ctl_mtx", "arenas_lock", "bin", "arena", "chunks_mtx", "base_mtx", "huge_mtx">>

prefork == <<"ctl_mtx", "arenas_lock", "arena", "bin", "chunks_mtx", "base_mtx", "huge_mtx">>
postfork == <<"huge_mtx", "base_mtx", "chunks_mtx", "bin", "arena", "arenas_lock", "ctl_mtx">>

Begin(t) ==
    /\ fork = NoFork /\ held[t] = {} /\ wants[t] = None
    /\ fork' = [pc |-> "prefork", t |-> t, i |-> 1]
    /\ child' = None
    /\ UNCHANGED <<held, wants>>

jemalloc_prefork ==
    /\ fork.pc = "prefork" /\ fork.i <= Len(prefork) /\ wants[fork.t] = None
    /\ wants' = [wants EXCEPT ![fork.t] = prefork[fork.i]]
    /\ fork' = [fork EXCEPT !.i = @ + 1]
    /\ UNCHANGED <<held, child>>

\* The child has the calling thread only, and the mutexes as they are.
Fork ==
    /\ fork.pc = "prefork" /\ fork.i > Len(prefork) /\ wants[fork.t] = None
    /\ child' = {m \in Mutexes : Holder(m) # {}}
    /\ fork' = [pc |-> "postfork", t |-> fork.t, i |-> 1]
    /\ UNCHANGED <<held, wants>>

jemalloc_postfork_parent ==
    /\ fork.pc = "postfork"
    /\ held' = [held EXCEPT ![fork.t] = @ \ {postfork[fork.i]}]
    /\ fork' = IF fork.i = Len(postfork) THEN NoFork ELSE [fork EXCEPT !.i = @ + 1]
    /\ UNCHANGED <<wants, child>>

\* All of them are made anew, in the child alone.
jemalloc_postfork_child ==
    /\ child \notin {None, {}}
    /\ child' = child \ {postfork[i] : i \in DOMAIN postfork}
    /\ UNCHANGED <<held, wants, fork>>

Init ==
    /\ held = [t \in Threads |-> {}] /\ wants = [t \in Threads |-> None]
    /\ fork = NoFork /\ child = None

Next ==
    \/ \E t \in Threads : Lock(t) \/ Locked(t) \/ Unlock(t) \/ Begin(t)
    \/ jemalloc_prefork \/ Fork \/ jemalloc_postfork_parent \/ jemalloc_postfork_child

Spec == Init /\ [][Next]_vars
-----------------------------------------------------------------------------
TypeOK ==
    /\ held \in [Threads -> SUBSET Mutexes] /\ wants \in [Threads -> Mutexes \union {None}]
    /\ fork \in {NoFork} \union [pc : {"prefork", "postfork"}, t : Threads, i : 1 .. Len(prefork) + 1]
    /\ child \in {None} \union SUBSET Mutexes

\* Nobody waits in a circle: "Acquire all mutexes in a safe order".
SafeOrder ==
    ~ \E S \in (SUBSET Threads) \ {{}} : \A t \in S : wants[t] # None /\ Holder(wants[t]) \intersect S # {}

\* The child finds no data that another thread was changing, and once jemalloc_postfork_child is
\* through it waits for none of the threads it does not have.
ChildServed ==
    /\ fork # NoFork /\ fork.pc = "postfork" /\ fork.i = 1 =>
        \A t \in Threads \ {fork.t} : held[t] = {}
    /\ child # None => child \in {{}, Mutexes}
=============================================================================
