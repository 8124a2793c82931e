----------------------------- MODULE SpriteGame ------------------------------
(***************************************************************************)
(* PA3: a square that rolls with the tilt of the device, once a frame, and *)
(* can be dragged and pinched.  Lengths are in units of the margin along   *)
(* the screen's edges (30 points); widths are the square's.                *)
(***************************************************************************)
EXTENDS Integers, FiniteSetsExt

CONSTANTS
    Width, Height,  \* of the screen
    Start,          \* the square's width at first
    Tilts,          \* how far it rolls in a frame, in either direction
    MaxTimers       \* bound on the timers

VARIABLES
    frame,      \* the square: x, y, and the width it is drawn with, sWidth
    gesture,    \* "none", "pan" or "pinch"
    start,      \* startPoint, or staticNumber
    timers,     \* the timers that call updateFrame:
    timer       \* is the one the program knows of running?

vars == <<frame, gesture, start, timers, timer>>

Margin == 1
Middle(size, w) == (size - w) \div 2

\* Mutant: the far edge is checked for the corner of the square.
InsideCorner(size, w, at) == Max({Margin, Min({size - Margin, at})})
\* Kept between the margins, in the order in which the code looks at them: horizontally
\* and vertically in updateFrame:, and when dragged.
Inside(size, w, at) == Max({Margin, Min({size - w - Margin, at})})
InsideY(size, w, at) == Min({size - w - Margin, Max({Margin, at})})
Dragged(size, w, at) == IF at >= size - w - Margin THEN size - w - Margin ELSE Max({Margin, at})

Schedule == timers' = timers + 1 /\ timer' = TRUE
Invalidate == timers' = timers - (IF timer THEN 1 ELSE 0) /\ timer' = FALSE

\* viewDidLayoutSubviews, the first time and later ones: the old timer goes on unknown.
ViewDidLayoutSubviews ==
    /\ timers < MaxTimers
    /\ frame' = [x |-> Middle(Width, frame.w), y |-> Middle(Height, frame.w), w |-> frame.w]
    /\ Schedule
    /\ UNCHANGED <<gesture, start>>

UpdateFrame(dx, dy) ==
    /\ timers > 0
    /\ frame' = [frame EXCEPT !.x = Inside(Width, frame.w, @ + dx),
                              !.y = InsideY(Height, frame.w, @ - dy)]
    /\ UNCHANGED <<gesture, start, timers, timer>>

\* The rest of spritePanned:, with the translation (dx, dy) from where the pan began.
Panned(from, dx, dy) ==
    frame' = [frame EXCEPT !.x = Dragged(Width, frame.w, from.x + dx),
                           !.y = Dragged(Height, frame.w, from.y + dy)]

PanBegan ==
    /\ gesture = "none"
    /\ gesture' = "pan"
    /\ start' = frame
    /\ Panned(frame, 0, 0)
    /\ Invalidate

PanMoved(dx, dy) ==
    /\ gesture = "pan"
    /\ Panned(start, dx, dy)
    /\ UNCHANGED <<gesture, start, timers, timer>>

PanEnded(dx, dy) ==
    /\ gesture = "pan" /\ timers < MaxTimers
    /\ gesture' = "none"
    /\ Panned(start, dx, dy)
    /\ Schedule
    /\ UNCHANGED start

\* The system takes the touch away: nothing starts the timer again.
PanCancelled(dx, dy) ==
    /\ gesture = "pan"
    /\ gesture' = "none"
    /\ Panned(start, dx, dy)
    /\ UNCHANGED <<start, timers, timer>>

\* spritePinched: gives a width of at most half the screen's.
SpritePinched(w) ==
    /\ gesture # "pan"
    /\ gesture' \in {"pinch", "none"}
    /\ frame' = [frame EXCEPT !.w = IF w >= Width \div 2 THEN Width \div 2 ELSE w]
    /\ UNCHANGED <<start, timers, timer>>

Init ==
    /\ frame = [x |-> 0, y |-> 0, w |-> Start]
    /\ gesture = "none"
    /\ start = frame
    /\ timers = 0
    /\ timer = FALSE

Next ==
    \/ ViewDidLayoutSubviews
    \/ \E dx, dy \in Tilts :
        UpdateFrame(dx, dy) \/ PanMoved(dx, dy) \/ PanEnded(dx, dy) \/ PanCancelled(dx, dy)
    \/ PanBegan
    \/ \E w \in 1 .. Width : SpritePinched(w)
-----------------------------------------------------------------------------
Lengths == 0 .. Max({Width, Height})
TypeOK ==
    /\ frame \in [x : Lengths, y : Lengths, w : Lengths]
    /\ gesture \in {"none", "pan", "pinch"}
    /\ start \in [x : Lengths, y : Lengths, w : Lengths]
    /\ timers \in 0 .. MaxTimers /\ timer \in BOOLEAN /\ (timer => timers > 0)

InMargins(f) ==
    /\ f.x \in Margin .. Width - f.w - Margin
    /\ f.y \in Margin .. Height - f.w - Margin

\* Wherever the square is when a pinch has made it larger, the next move of whatever kind
\* brings all of it back between the margins.
MovesIntoMargins == <<frame.x, frame.y>> # <<frame'.x, frame'.y>> => InMargins(frame')
=============================================================================
