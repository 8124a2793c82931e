----------------------------- MODULE WorldClock -----------------------------
(***************************************************************************)
(* WorldUpdateLoop (Server.cpp): how the server paces its updates.  Each   *)
(* turn of the loop measures how long the turn before it lasted and sleeps *)
(* so that turns start WORLD_SLEEP_CONST milliseconds apart.               *)
(***************************************************************************)
EXTENDS Integers

CONSTANTS
    WORLD_SLEEP_CONST,  \* the 50 ms of Config.h
    MaxUint64,          \* the largest uint64, 0xFFFFFFFFFFFFFFFF
    MaxBusy,            \* bound: how long one WorldUpdate takes, and how late a
                        \* sleep may end
    MaxClock            \* bound: the clock stops here

ASSUME ClockAssumption ==
    /\ WORLD_SLEEP_CONST \in Nat \ {0}
    /\ MaxUint64 \in Nat \ {0}
    /\ MaxBusy \in Nat
    /\ MaxClock \in Nat

VARIABLES
    clock,          \* ms since the loop was entered
    pc,             \* "top" of the loop, in WorldUpdate ("work"), or in its "sleep"
    realPrevTime, realCurrTime, diff, prevSleepTime,    \* the loop's locals
    start,          \* history: when this turn started
    turns,          \* history: how many turns have started
    busy,           \* history: the time since this turn's start it did not choose
                    \* to spend: the update, and what its sleep overran
    lost            \* history: by how much the turns before the last one were
                    \* busy beyond WORLD_SLEEP_CONST

vars == <<clock, pc, realPrevTime, realCurrTime, diff, prevSleepTime,
          start, turns, busy, lost>>

getMSTime == clock % (MaxUint64 + 1)

\* Mutant: the difference the wrong way round.
getMSTimeDiffReversed(oldMSTime, newMSTime) == oldMSTime - newMSTime

getMSTimeDiff(oldMSTime, newMSTime) ==
    IF oldMSTime > newMSTime THEN (MaxUint64 - oldMSTime) + newMSTime
                             ELSE newMSTime - oldMSTime

Excess(time) == IF time > WORLD_SLEEP_CONST THEN time - WORLD_SLEEP_CONST ELSE 0

InTime == diff <= WORLD_SLEEP_CONST + prevSleepTime

\* Mutant: the sleep leaves out what the turn before slept.
SleepUncredited == IF diff <= WORLD_SLEEP_CONST THEN WORLD_SLEEP_CONST - diff ELSE 0

SleepTime == IF InTime THEN WORLD_SLEEP_CONST + prevSleepTime - diff ELSE 0
-----------------------------------------------------------------------------
Init ==
    /\ clock = 0 /\ pc = "top"
    /\ realPrevTime = 0 /\ realCurrTime = 0
    /\ diff = 0 /\ prevSleepTime = 0
    /\ start = 0 /\ turns = 0 /\ busy = 0 /\ lost = 0

\* realCurrTime = getMSTime(); diff = getMSTimeDiff(...)
Measure ==
    /\ pc = "top"
    /\ pc' = "work"
    /\ realCurrTime' = getMSTime
    /\ diff' = getMSTimeDiff(realPrevTime, getMSTime)
    /\ start' = clock
    /\ turns' = turns + 1
    /\ UNCHANGED <<clock, realPrevTime, prevSleepTime, busy, lost>>

\* WorldUpdate takes d, then the loop decides how long to sleep.
Work(d) ==
    /\ pc = "work"
    /\ clock + d + SleepTime <= MaxClock
    /\ clock' = clock + d
    /\ realPrevTime' = realCurrTime
    /\ prevSleepTime' = SleepTime
    /\ pc' = IF InTime THEN "sleep" ELSE "top"
    /\ busy' = d
    /\ lost' = lost + Excess(busy)
    /\ UNCHANGED <<realCurrTime, diff, start, turns>>

\* sleep_for: at least the time asked for, and late by e.
Sleep(e) ==
    /\ pc = "sleep"
    /\ clock + prevSleepTime + e <= MaxClock
    /\ clock' = clock + prevSleepTime + e
    /\ busy' = busy + e
    /\ pc' = "top"
    /\ UNCHANGED <<realPrevTime, realCurrTime, diff, prevSleepTime, start, turns, lost>>

Next == \/ Measure
        \/ \E d \in 0 .. MaxBusy : Work(d)
        \/ \E e \in 0 .. MaxBusy : Sleep(e)

Spec == Init /\ [][Next]_vars
-----------------------------------------------------------------------------
TypeOK ==
    /\ clock \in Nat
    /\ pc \in {"top", "work", "sleep"}
    /\ realPrevTime \in 0 .. MaxUint64 /\ realCurrTime \in 0 .. MaxUint64
    /\ diff \in Nat
    /\ prevSleepTime \in Nat
    /\ start \in Nat /\ turns \in Nat /\ busy \in Nat /\ lost \in Nat

\* The unsigned subtraction never wraps and no credit is carried over from turn
\* to turn: a sleep is never longer than WORLD_SLEEP_CONST.
SleepBounded == prevSleepTime <= WORLD_SLEEP_CONST

\* Server.cpp:112, "balanced full tick time length near WORLD_SLEEP_CONST": the
\* sleeps make the turns start WORLD_SLEEP_CONST apart on average.  A start is off
\* its place on that grid by how busy the last turn was and by the time lost to
\* turns that were busy for longer than WORLD_SLEEP_CONST, and by nothing else.
Balanced ==
    pc = "top" => clock = turns * WORLD_SLEEP_CONST + busy + lost

\* The loop keeps its pace: turns on the grid, and no sleep that would make up for
\* more than one of them.
KeepsPace == SleepBounded /\ Balanced
=============================================================================
