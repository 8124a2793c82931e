------------------------------- MODULE Bitmap --------------------------------
(***************************************************************************)
(* The bitmaps that tell which regions of a run are in use: levels of      *)
(* groups, where a bit of one level says that a group of the level below   *)
(* is not empty.  Bits are inverted: a group is the set of the bits that   *)
(* are free.                                                               *)
(***************************************************************************)
EXTENDS Integers, FiniteSetsExt, Sequences, SequencesExt

CONSTANTS
    GroupBits,  \* BITMAP_GROUP_NBITS
    MaxBits

VARIABLES
    nbits,      \* 0 before bitmap_info_init and bitmap_init
    bitmap,     \* its groups, of all levels
    used        \* history: the regions in use

vars == <<nbits, bitmap, used>>

Bits2Groups(n) == n \div GroupBits + (IF n % GroupBits # 0 THEN 1 ELSE 0)

\* bitmap_info_init: the number of groups of each level, from the bottom.
RECURSIVE GroupCounts(_)
GroupCounts(n) ==
    LET c == Bits2Groups(n) IN IF c > 1 THEN <<c>> \o GroupCounts(c) ELSE <<c>>
NLevels(n) == Len(GroupCounts(n))
GroupOffset(n, i) == FoldLeft(LAMBDA a, b : a + b, 0, SubSeq(GroupCounts(n), 1, i))

AllBits == 0 .. GroupBits - 1
\* The bits of level i, the last of which may be in a group that has more.
BitsOf(n, i) == IF i = 0 THEN n ELSE GroupCounts(n)[i]
Extra(n, i) == (GroupBits - (BitsOf(n, i) % GroupBits)) % GroupBits

bitmap_init(n) ==
    [g \in 0 .. GroupOffset(n, NLevels(n)) - 1 |->
        LET trimmed == {i \in 0 .. NLevels(n) - 1 : g = GroupOffset(n, i + 1) - 1}
        IN IF trimmed = {} THEN AllBits ELSE 0 .. GroupBits - 1 - Extra(n, Min(trimmed))]

Flip(group, bit) == IF bit \in group THEN group \ {bit} ELSE group \union {bit}

bitmap_full == bitmap[GroupOffset(nbits, NLevels(nbits)) - 1] = {}
bitmap_get(bit) == bit % GroupBits \notin bitmap[bit \div GroupBits]

\* bitmap_set and bitmap_unset from level i upwards: what happens above depends on whether the
\* group became empty, or was.
RECURSIVE SetFrom(_, _, _)
SetFrom(bm, i, bit) ==
    LET g == GroupOffset(nbits, i) + bit \div GroupBits
        next == [bm EXCEPT ![g] = Flip(@, bit % GroupBits)]
    IN IF next[g] = {} /\ i + 1 < NLevels(nbits) THEN SetFrom(next, i + 1, bit \div GroupBits) ELSE next

RECURSIVE UnsetFrom(_, _, _)
UnsetFrom(bm, i, bit) ==
    LET g == GroupOffset(nbits, i) + bit \div GroupBits
        next == [bm EXCEPT ![g] = Flip(@, bit % GroupBits)]
    IN IF bm[g] = {} /\ i + 1 < NLevels(nbits) THEN UnsetFrom(next, i + 1, bit \div GroupBits) ELSE next

\* The bit that bitmap_sfu finds on its way down from level i.
RECURSIVE FirstFrom(_, _)
FirstFrom(i, bit) ==
    LET first == bit * GroupBits + Min(bitmap[GroupOffset(nbits, i) + bit])
    IN IF i = 0 THEN first ELSE FirstFrom(i - 1, first)
FirstUnset == FirstFrom(NLevels(nbits) - 1, 0)
-----------------------------------------------------------------------------
NewRun(n) == nbits = 0 /\ nbits' = n /\ bitmap' = bitmap_init(n) /\ UNCHANGED used

bitmap_sfu ==
    /\ nbits > 0 /\ ~bitmap_full
    /\ bitmap' = SetFrom(bitmap, 0, FirstUnset)
    /\ used' = used \union {FirstUnset}
    /\ UNCHANGED nbits

bitmap_unset(bit) ==
    /\ bit \in used
    /\ bitmap' = UnsetFrom(bitmap, 0, bit)
    /\ used' = used \ {bit}
    /\ UNCHANGED nbits

Init == nbits = 0 /\ bitmap = << >> /\ used = {}
Next == (\E n \in 1 .. MaxBits : NewRun(n)) \/ bitmap_sfu \/ \E bit \in used : bitmap_unset(bit)
-----------------------------------------------------------------------------
TypeOK == nbits \in 0 .. MaxBits /\ used \subseteq 0 .. nbits - 1

\* Whatever was set and unset before, a bit says whether its region is used, the next region
\* given is the first that is free, and the bitmap is full when there is none.
BitsSearched ==
    nbits > 0 =>
        LET unused == (0 .. nbits - 1) \ used
        IN /\ \A bit \in 0 .. nbits - 1 : bitmap_get(bit) <=> bit \in used
           /\ bitmap_full <=> unused = {}
           /\ unused # {} => FirstUnset = Min(unused)
=============================================================================
