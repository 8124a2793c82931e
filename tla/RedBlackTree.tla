---------------------------- MODULE RedBlackTree -----------------------------
(***************************************************************************)
(* The left-leaning red-black trees that rb.h generates, in which the      *)
(* allocator keeps its extents, runs and chunks.  A tree is a value: what  *)
(* the code does to the nodes on the way back from a leaf, an operator     *)
(* does to the subtree that comes back.                                    *)
(***************************************************************************)
EXTENDS Integers, FiniteSets, Sequences

CONSTANT Keys       \* integers, as a_cmp orders the nodes

VARIABLES
    rbt_root,
    nodes           \* history: the keys inserted and not removed

vars == <<rbt_root, nodes>>

rbt_nil == [red |-> FALSE]
rbt_node_new(key) == [key |-> key, red |-> TRUE, left |-> rbt_nil, right |-> rbt_nil]
Red(n) == [n EXCEPT !.red = TRUE]
Black(n) == [n EXCEPT !.red = FALSE]
RotateLeft(n) == [n.right EXCEPT !.left = [n EXCEPT !.right = n.right.left]]
RotateRight(n) == [n.left EXCEPT !.right = [n EXCEPT !.left = n.left.right]]
-----------------------------------------------------------------------------
(* insert.  After a child that is not red the code returns: nothing is     *)
(* left to do further up.                                                  *)

FixFourNode(c) ==
    IF c.left.red /\ c.left.left.red THEN RotateRight([c EXCEPT !.left.left = Black(@)]) ELSE c

SplitOrLean(c) ==
    CASE ~c.right.red -> c
      [] c.right.red /\ c.left.red -> Red([c EXCEPT !.left = Black(@), !.right = Black(@)])
      [] c.right.red /\ ~c.left.red -> [RotateLeft(Red(c)) EXCEPT !.red = c.red]

RECURSIVE Inserted(_, _)
Inserted(n, key) ==
    IF n = rbt_nil THEN rbt_node_new(key)
    ELSE IF key < n.key THEN FixFourNode([n EXCEPT !.left = Inserted(@, key)])
    ELSE SplitOrLean([n EXCEPT !.right = Inserted(@, key)])

Insert(key) ==
    /\ key \notin nodes
    /\ rbt_root' = Black(Inserted(rbt_root, key))
    /\ nodes' = nodes \union {key}
-----------------------------------------------------------------------------
(* remove.  A subtree comes back with whether it is short: whether its     *)
(* paths have one black node less than before.                             *)

Whole(n) == [tree |-> n, short |-> FALSE]
Short(n) == [tree |-> n, short |-> TRUE]

\* The left child of p is short.
LeanAgain(p) ==
    LET rightleft == p.right.left
    IN CASE p.red /\ rightleft.red -> Whole(RotateLeft(Black([p EXCEPT !.right = RotateRight(@)])))
         [] p.red /\ ~rightleft.red -> Whole(RotateLeft(p))
         [] ~p.red /\ rightleft.red ->
                Whole(RotateLeft([p EXCEPT !.right = RotateRight([@ EXCEPT !.left = Black(@)])]))
         [] ~p.red /\ ~rightleft.red -> Short(RotateLeft(Red(p)))

\* Mutant: a subtree that comes back short on the right is taken as it is.
TakeNothing(p) == Whole(p)

\* Its right child is.
TakeFromLeft(p) ==
    LET left == p.left
        leftright == left.right
    IN CASE left.red /\ leftright.left.red ->
                LET across == [p EXCEPT !.left = [leftright EXCEPT !.left = Black(@)]]
                IN Whole(RotateLeft([left EXCEPT !.right = RotateRight(across)]))
         [] left.red /\ ~leftright.left.red -> Whole(Black(RotateRight([p EXCEPT !.left.right = Red(@)])))
         [] ~left.red /\ p.red /\ left.left.red ->
                Whole(RotateRight(Black([p EXCEPT !.left = Red([left EXCEPT !.left = Black(@)])])))
         [] ~left.red /\ p.red /\ ~left.left.red -> Whole(Black([p EXCEPT !.left = Red(@)]))
         [] ~left.red /\ ~p.red /\ left.left.red ->
                Whole(RotateRight([p EXCEPT !.left.left = Black(@)]))
         [] ~left.red /\ ~p.red /\ ~left.left.red -> Short([p EXCEPT !.left = Red(@)])

FromLeft(p, back) ==
    LET q == [p EXCEPT !.left = back.tree] IN IF back.short THEN LeanAgain(q) ELSE Whole(q)
FromRight(p, back) ==
    LET q == [p EXCEPT !.right = back.tree] IN IF back.short THEN TakeFromLeft(q) ELSE Whole(q)

RECURSIVE First(_)
First(n) == IF n.left = rbt_nil THEN n ELSE First(n.left)
RECURSIVE Last(_)
Last(n) == IF n.right = rbt_nil THEN n ELSE Last(n.right)

Pruned(n) ==
    IF n.left # rbt_nil THEN Whole(Black(n.left)) ELSE [tree |-> rbt_nil, short |-> ~n.red]

RECURSIVE Removed(_, _)
Removed(n, key) ==
    CASE key < n.key -> FromLeft(n, Removed(n.left, key))
      [] key > n.key -> FromRight(n, Removed(n.right, key))
      [] key = n.key /\ n.right = rbt_nil -> Pruned(n)
      [] key = n.key /\ n.right # rbt_nil ->
            LET successor == First(n.right).key
            IN FromRight([n EXCEPT !.key = successor], Removed(n.right, successor))

Remove(key) ==
    /\ key \in nodes
    /\ rbt_root' = Removed(rbt_root, key).tree
    /\ nodes' = nodes \ {key}

Init == rbt_root = rbt_nil /\ nodes = {}
Next == \E key \in Keys : Insert(key) \/ Remove(key)
-----------------------------------------------------------------------------
(* The queries.  best is the last node the search passed on the side asked *)
(* for.                                                                    *)

RECURSIVE Search(_, _)
Search(n, key) ==
    IF n = rbt_nil \/ n.key = key THEN n
    ELSE Search(IF key < n.key THEN n.left ELSE n.right, key)

RECURSIVE NSearch(_, _, _)
NSearch(n, key, best) ==
    IF n = rbt_nil THEN best
    ELSE IF key < n.key THEN NSearch(n.left, key, n)
    ELSE IF key > n.key THEN NSearch(n.right, key, best)
    ELSE n

RECURSIVE PSearch(_, _, _)
PSearch(n, key, best) ==
    IF n = rbt_nil THEN best
    ELSE IF key < n.key THEN PSearch(n.left, key, best)
    ELSE IF key > n.key THEN PSearch(n.right, key, n)
    ELSE n

\* The way from n down to key, and the last node left on the one side and on the other.
RECURSIVE Above(_, _, _)
Above(n, key, best) ==
    IF key < n.key THEN Above(n.left, key, n) ELSE IF key > n.key THEN Above(n.right, key, best) ELSE best
RECURSIVE Below(_, _, _)
Below(n, key, best) ==
    IF key < n.key THEN Below(n.left, key, best) ELSE IF key > n.key THEN Below(n.right, key, n) ELSE best

NextOf(node) == IF node.right # rbt_nil THEN First(node.right) ELSE Above(rbt_root, node.key, rbt_nil)
PrevOf(node) == IF node.left # rbt_nil THEN Last(node.left) ELSE Below(rbt_root, node.key, rbt_nil)

\* The order in which iter calls back, and from which node on.
RECURSIVE IterRecurse(_)
IterRecurse(n) ==
    IF n = rbt_nil THEN << >> ELSE IterRecurse(n.left) \o <<n.key>> \o IterRecurse(n.right)
RECURSIVE IterStart(_, _)
IterStart(start, n) ==
    IF start > n.key THEN IterStart(start, n.right)
    ELSE (IF start < n.key THEN IterStart(start, n.left) ELSE << >>) \o <<n.key>> \o IterRecurse(n.right)

RECURSIVE ReverseIterRecurse(_)
ReverseIterRecurse(n) ==
    IF n = rbt_nil THEN << >>
    ELSE ReverseIterRecurse(n.right) \o <<n.key>> \o ReverseIterRecurse(n.left)
RECURSIVE ReverseIterStart(_, _)
ReverseIterStart(start, n) ==
    IF start < n.key THEN ReverseIterStart(start, n.left)
    ELSE (IF start > n.key THEN ReverseIterStart(start, n.right) ELSE << >>)
            \o <<n.key>> \o ReverseIterRecurse(n.left)
-----------------------------------------------------------------------------
RECURSIVE Balanced(_)
\* The black nodes on each path of a left-leaning tree without two reds in a row; -1 for any
\* other tree.
Balanced(n) ==
    IF n = rbt_nil THEN 0
    ELSE LET l == Balanced(n.left)
             r == Balanced(n.right)
         IN IF l # r \/ l = -1 \/ n.right.red \/ (n.red /\ n.left.red) THEN -1
            ELSE l + (IF n.red THEN 0 ELSE 1)

TypeOK == nodes \subseteq Keys /\ (rbt_root # rbt_nil => rbt_root.key \in Keys)

\* The one of S that is next to key from above, or from below, as a node that a query returns.
Nearest(S, up, n) ==
    IF S = {} THEN n = rbt_nil
    ELSE n # rbt_nil /\ n.key = CHOOSE k \in S : \A j \in S : IF up THEN k <= j ELSE k >= j

Ascending(S, s) == {s[i] : i \in DOMAIN s} = S /\ \A i \in 1 .. Len(s) - 1 : s[i] < s[i + 1]
Descending(S, s) == {s[i] : i \in DOMAIN s} = S /\ \A i \in 1 .. Len(s) - 1 : s[i] > s[i + 1]

\* After any insertions and removals the tree is balanced and holds what it should, and the
\* queries answer as they would over a sorted list.
TreeSearches ==
    /\ ~rbt_root.red /\ Balanced(rbt_root) >= 0
    /\ Ascending(nodes, IterRecurse(rbt_root)) /\ Descending(nodes, ReverseIterRecurse(rbt_root))
    /\ \A key \in Keys :
        LET above == {k \in nodes : k >= key}
            under == {k \in nodes : k <= key}
        IN /\ Nearest(nodes \intersect {key}, TRUE, Search(rbt_root, key))
           /\ Nearest(above, TRUE, NSearch(rbt_root, key, rbt_nil))
           /\ Nearest(under, FALSE, PSearch(rbt_root, key, rbt_nil))
           /\ key \in nodes =>
                /\ Nearest(above \ {key}, TRUE, NextOf(Search(rbt_root, key)))
                /\ Nearest(under \ {key}, FALSE, PrevOf(Search(rbt_root, key)))
                /\ Ascending(above, IterStart(key, rbt_root))
                /\ Descending(under, ReverseIterStart(key, rbt_root))
=============================================================================
