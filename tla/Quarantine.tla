----------------------------- MODULE Quarantine ------------------------------
(***************************************************************************)
(* quarantine.c: a thread's freed objects wait in a ring buffer, up to a   *)
(* number of bytes, before they are freed.  The buffer grows when it is    *)
(* full, if there is memory, and goes when the thread does, while other    *)
(* destructors may still free objects.                                     *)
(***************************************************************************)
EXTENDS Integers, FiniteSets, FiniteSetsExt, Sequences, SequencesExt

CONSTANTS
    Objects,    \* records with a usize
    Limit,      \* opt_quarantine
    LgInit,     \* LG_MAXOBJS_INIT
    LgMax       \* bounds the buffer: no memory for more

VARIABLES
    quarantine, \* the thread's buffer, or a state
    live, free, \* the objects the program has, and those the allocator has
    order,      \* history: the objects in the quarantine, the oldest first
    exiting

vars == <<quarantine, live, free, order, exiting>>

Null == [state |-> "NULL"]
Purgatory == [state |-> "PURGATORY"]
Reincarnated == [state |-> "REINCARNATED"]
NoObject == [usize |-> 0]

quarantine_init(lg) ==
    [state |-> "buffer", curbytes |-> 0, curobjs |-> 0, first |-> 0, lg |-> lg,
     objs |-> [i \in 0 .. 2 ^ lg - 1 |-> NoObject]]
IsBuffer(q) == q.state = "buffer"
IsFull(q) == q.curobjs = 2 ^ q.lg
Place(q, i) == (q.first + i) % 2 ^ q.lg
Contents(q) == IF IsBuffer(q) THEN [i \in 1 .. q.curobjs |-> q.objs[Place(q, i - 1)]] ELSE << >>

\* A buffer on its way through a call, with what was given to idalloc.
Held(q) == [q |-> q, freed |-> {}]
DrainOne(h) ==
    LET obj == h.q.objs[h.q.first]
    IN [q |-> [h.q EXCEPT !.curbytes = @ - obj.usize, !.curobjs = @ - 1, !.first = Place(h.q, 1)],
        freed |-> h.freed \union {obj}]
RECURSIVE Drain(_, _)
Drain(h, bound) == IF h.q.curbytes > bound /\ h.q.curobjs > 0 THEN Drain(DrainOne(h), bound) ELSE h

\* quarantine_grow: the objects are copied in two parts if they go around the end.
Grown(q) ==
    LET toEnd == 2 ^ q.lg - q.first
        new == quarantine_init(q.lg + 1)
    IN [new EXCEPT !.curbytes = q.curbytes, !.curobjs = q.curobjs,
            !.objs = [i \in 0 .. 2 ^ (q.lg + 1) - 1 |->
                CASE i < toEnd /\ i < q.curobjs -> q.objs[q.first + i]
                  [] i >= toEnd /\ i < q.curobjs -> q.objs[i - toEnd]
                  [] OTHER -> NoObject]]

Append1(q, obj) ==
    [q EXCEPT !.objs[Place(q, q.curobjs)] = obj, !.curbytes = @ + obj.usize, !.curobjs = @ + 1]
-----------------------------------------------------------------------------
\* malloc, with quarantine_alloc_hook; the buffer may not be had.
Malloc(obj) ==
    /\ obj \in free
    /\ live' = live \union {obj} /\ free' = free \ {obj}
    /\ quarantine' \in IF quarantine = Null THEN {Null, quarantine_init(LgInit)} ELSE {quarantine}
    /\ UNCHANGED <<order, exiting>>

\* What a call leaves behind: the buffer, and what it freed.
Leave(q, freed, obj) ==
    /\ quarantine' = q
    /\ free' = free \union freed
    /\ live' = live \ {obj}
    /\ order' = SelectSeq(Append(order, obj), LAMBDA x : x \notin freed)

\* free, without a buffer.
FreeAtOnce(obj) ==
    /\ obj \in live /\ ~IsBuffer(quarantine)
    /\ Leave(IF quarantine = Purgatory THEN Reincarnated ELSE quarantine, {obj}, obj)
    /\ UNCHANGED exiting

\* free, with one: drain, grow, append.
Free(obj) ==
    /\ obj \in live /\ IsBuffer(quarantine)
    /\ LET h == Held(quarantine)
           bound == IF Limit >= obj.usize THEN Limit - obj.usize ELSE 0
           drained == IF quarantine.curbytes + obj.usize > Limit THEN Drain(h, bound) ELSE h
       IN \E grown \in IF ~IsFull(drained.q) THEN {drained}
                       ELSE {DrainOne(drained)} \union
                            (IF drained.q.lg < LgMax THEN {[drained EXCEPT !.q = Grown(@)]} ELSE {}) :
            IF grown.q.curbytes + obj.usize <= Limit
            THEN Leave(Append1(grown.q, obj), grown.freed, obj)
            ELSE Leave(grown.q, grown.freed \union {obj}, obj)
    /\ UNCHANGED exiting

Exit == ~exiting /\ exiting' = TRUE /\ UNCHANGED <<quarantine, live, free, order>>

\* quarantine_cleanup, which runs as often as the thread's data is set again.
quarantine_cleanup ==
    /\ exiting
    /\ \/ /\ quarantine = Reincarnated
          /\ quarantine' = Purgatory
          /\ UNCHANGED <<free, order>>
       \/ /\ IsBuffer(quarantine)
          /\ LET h == Drain(Held(quarantine), 0)
             IN free' = free \union h.freed /\ order' = SelectSeq(order, LAMBDA x : x \notin h.freed)
          /\ quarantine' = Purgatory
    /\ UNCHANGED <<live, exiting>>

Init == quarantine = Null /\ live = {} /\ free = Objects /\ order = << >> /\ exiting = FALSE

Next ==
    \/ \E obj \in Objects : Malloc(obj) \/ FreeAtOnce(obj) \/ Free(obj)
    \/ Exit \/ quarantine_cleanup
-----------------------------------------------------------------------------
TypeOK ==
    /\ live \union free \subseteq Objects
    /\ IsBuffer(quarantine) => quarantine.lg \in LgInit .. LgMax /\ quarantine.curobjs \in 0 .. 2 ^ LgMax

\* An object is the program's, the allocator's, or waits in the quarantine, once and in the order
\* of the frees; the quarantine knows its size and keeps to the limit, and is empty when the
\* thread's data is gone.
ObjectsWait ==
    /\ Contents(quarantine) = order
    /\ Cardinality(live) + Cardinality(free) + Len(order) = Cardinality(Objects)
    /\ live \union free \union {order[i] : i \in DOMAIN order} = Objects
    /\ IsBuffer(quarantine) =>
        /\ quarantine.curbytes <= Limit
        /\ quarantine.curbytes = FoldLeft(LAMBDA a, obj : a + obj.usize, 0, order)
=============================================================================
