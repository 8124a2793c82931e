------------------------------- MODULE EggGame -------------------------------
(***************************************************************************)
(* Exercise6: eggs fall for twenty seconds and are caught with a basket.   *)
(***************************************************************************)
EXTENDS Integers, FiniteSets

CONSTANTS
    Columns,    \* positions across the screen
    Centre,     \* the one the basket is in at first
    Top,        \* height of the screen; the basket catches below 1
    Seconds,    \* the length of a game
    Eggs        \* bound on the eggs of a game

VARIABLES
    scene,      \* "game" or "over"
    eggs,       \* the eggs in the air: number, column and height
    player,     \* the column of the basket
    score,
    left,       \* seconds to the game's end
    laid,       \* history: eggs that have appeared
    caught      \* history: the numbers of those the basket was under in time

vars == <<scene, eggs, player, score, left, laid, caught>>

Collides(e) == e.x = player /\ e.y < 1
Fallen(e) == e.y < 0

ObjectsToRemove == {e \in eggs : Collides(e) \/ Fallen(e)}

\* update: and the physics of the frame, in which every egg may fall by one.
Update(falling, lay) ==
    /\ scene = "game"
    /\ score' = score + Cardinality({e \in eggs : Collides(e)})
    /\ caught' = caught \union {e.n : e \in {f \in eggs : Collides(f)}}
    /\ scene' = IF left < 1 THEN "over" ELSE "game"
    /\ \E x \in Columns :
        LET kept == {IF e \in falling THEN [e EXCEPT !.y = @ - 1] ELSE e
                        : e \in eggs \ ObjectsToRemove}
        IN /\ eggs' = IF lay THEN kept \union {[n |-> laid + 1, x |-> x, y |-> Top]} ELSE kept
           /\ laid' = IF lay THEN laid + 1 ELSE laid
    /\ laid' <= Eggs
    /\ UNCHANGED <<player, left>>

TouchesBegan(x) ==
    /\ scene = "game"
    /\ player' = x
    /\ UNCHANGED <<scene, eggs, score, left, laid, caught>>

SecondPasses ==
    /\ scene = "game" /\ left > 0
    /\ left' = left - 1
    /\ UNCHANGED <<scene, eggs, player, score, laid, caught>>

NewGame ==
    /\ scene' = "game" /\ eggs' = {} /\ player' = Centre /\ score' = 0
    /\ left' = Seconds /\ laid' = 0 /\ caught' = {}

\* touchesBegan: of GameOverScene.
PlayAgain == scene = "over" /\ NewGame

Init ==
    /\ scene = "game" /\ eggs = {} /\ player = Centre /\ score = 0
    /\ left = Seconds /\ laid = 0 /\ caught = {}

Next ==
    \/ \E falling \in SUBSET eggs, lay \in BOOLEAN : Update(falling, lay)
    \/ \E x \in Columns : TouchesBegan(x)
    \/ SecondPasses
    \/ PlayAgain
-----------------------------------------------------------------------------
TypeOK ==
    /\ scene \in {"game", "over"}
    /\ eggs \subseteq [n : 1 .. Eggs, x : Columns, y : -1 .. Top]
    /\ player \in Columns /\ score \in Nat /\ left \in 0 .. Seconds
    /\ laid \in 0 .. Eggs /\ caught \subseteq 1 .. Eggs

\* Each egg counts at most once, and only in its own game.
ScoreIsCaught == score = Cardinality(caught) /\ {e.n : e \in eggs} \intersect caught = {}
=============================================================================
