----------------------------- MODULE CuckooTable -----------------------------
(***************************************************************************)
(* ckh.c: the allocator's hash table, in which an item lives in one of two *)
(* buckets and evicts another where both are full, and which is rebuilt    *)
(* when it grows or shrinks.  A bucket is the set of its keys: where in    *)
(* the bucket an item goes, and which one is evicted, comes from a         *)
(* pseudo-random number and is any choice here.                            *)
(***************************************************************************)
EXTENDS Integers, FiniteSets, FiniteSetsExt

CONSTANTS
    Keys,
    Hashes,     \* [Keys -> pairs of numbers]
    LgCells,    \* LG_CKH_BUCKET_CELLS
    MinItems,   \* of ckh_new
    MaxLg       \* bounds lg_curbuckets: no memory for more

VARIABLES
    tab,        \* a set of keys for each bucket
    lgCurbuckets, count,
    op,         \* the call that is going on
    held,       \* history: the keys that were to be inserted and are not removed since
    lost        \* history: those of them that a failed insertion had in its hands

vars == <<tab, lgCurbuckets, count, op, held, lost>>

MinCells == ((MinItems + (3 - (MinItems % 3))) \div 3) * 4
LgMinbuckets == Min({lg \in LgCells .. LgCells + MaxLg : 2 ^ lg >= MinCells}) - LgCells

Empty(lg) == [b \in 0 .. 2 ^ lg - 1 |-> {}]
Bucket(key, i) == Hashes[key][i] % 2 ^ lgCurbuckets
HasRoom(b) == Cardinality(tab[b]) < 2 ^ LgCells

Idle == [pc |-> "idle"]
Found(key) == \E i \in {1, 2} : key \in tab[Bucket(key, i)]     \* ckh_isearch
-----------------------------------------------------------------------------
(* ckh_try_insert, for a call of ckh_insert or for ckh_rebuild.            *)

Insert(key) ==
    /\ op = Idle /\ ~Found(key)
    /\ op' = [pc |-> "try", key |-> key, for |-> "insert", arg |-> key]
    /\ UNCHANGED <<tab, lgCurbuckets, count, held, lost>>

\* The item of o has a place: ckh_insert succeeds, or ckh_rebuild goes on.
Placed(o) ==
    /\ op' = IF o.for = "insert" THEN Idle ELSE [o EXCEPT !.pc = "rebuild"]
    /\ IF o.for = "insert" THEN held' = held \union {o.arg} /\ lost' = lost \ {o.arg}
                           ELSE UNCHANGED <<held, lost>>

TryInsert ==
    /\ op.pc = "try"
    /\ LET rooms == {i \in {1, 2} : HasRoom(Bucket(op.key, i))}
           second == Bucket(op.key, 2)
       IN IF rooms # {}
          THEN /\ tab' = [tab EXCEPT ![Bucket(op.key, Min(rooms))] = @ \union {op.key}]
               /\ count' = count + 1
               /\ Placed(op)
          ELSE /\ op' = [pc |-> "evict", key |-> op.key, for |-> op.for, argbucket |-> second,
                         bucket |-> second, call |-> op]
               /\ UNCHANGED <<tab, count, held, lost>>
    /\ UNCHANGED lgCurbuckets

\* ckh_grow with item outer in hand, in the insertion of arg, about to try 2^lg buckets.
Growing(outer, arg, lg) == [pc |-> "grow", outer |-> outer, arg |-> arg, lg |-> lg]

Alternate(key, b) == IF Bucket(key, 2) = b THEN Bucket(key, 1) ELSE Bucket(key, 2)

\* One turn of ckh_evict_reloc_insert.  If the evicted item would go where the search began, it
\* is the one that has no place.
Evict ==
    /\ op.pc = "evict"
    /\ \E evicted \in tab[op.bucket] :
        LET swapped == [tab EXCEPT ![op.bucket] = (@ \ {evicted}) \union {op.key}]
            b == Alternate(evicted, op.bucket)
        IN \/ /\ b = op.argbucket
              /\ tab' = swapped
              /\ op' = IF op.for = "insert"
                       THEN Growing(evicted, op.call.arg, lgCurbuckets + 1)
                       ELSE [op.call EXCEPT !.pc = "undo"]
              /\ UNCHANGED <<count, held, lost>>
           \/ /\ b # op.argbucket /\ HasRoom(b)
              /\ tab' = [swapped EXCEPT ![b] = @ \union {evicted}]
              /\ count' = count + 1
              /\ Placed(op.call)
           \/ /\ b # op.argbucket /\ ~HasRoom(b)
              /\ tab' = swapped
              /\ op' = [op EXCEPT !.key = evicted, !.bucket = b]
              /\ UNCHANGED <<count, held, lost>>
    /\ UNCHANGED lgCurbuckets
-----------------------------------------------------------------------------
(* ckh_grow, ckh_shrink and ckh_rebuild.                                   *)

\* A table of 2^lg buckets is swapped in, and the n items of the old one, t, are to follow.
Rebuilding(t, n, lg, for, outer, arg) ==
    /\ tab' = Empty(lg) /\ lgCurbuckets' = lg /\ count' = 0
    /\ op' = [pc |-> "rebuild", for |-> for, key |-> outer, outer |-> outer, arg |-> arg,
              lg |-> lg, old |-> t, pending |-> t, lgPrev |-> lgCurbuckets, countPrev |-> n]

Items(t) == UNION {t[b] : b \in DOMAIN t}

\* The size tried first is twice the old one; it doubles after each failure.  Without memory
\* ckh_insert fails with the table as the evictions left it: the caller's key may be in it, and
\* the item in hand, perhaps an evicted one, is in no bucket.
Grow ==
    /\ op.pc = "grow"
    /\ \/ /\ op.lg <= MaxLg
          /\ Rebuilding(tab, count, op.lg, "grow", op.outer, op.arg)
          /\ UNCHANGED <<held, lost>>
       \/ /\ op' = Idle
          /\ held' = held \union {op.arg} /\ lost' = (lost \ {op.arg}) \union {op.outer}
          /\ UNCHANGED <<tab, lgCurbuckets, count>>

\* The next item, in the order of the old table.
Rebuild ==
    /\ op.pc = "rebuild"
    /\ IF count < op.countPrev
       THEN LET b == Min({c \in DOMAIN op.pending : op.pending[c] # {}})
            IN \E key \in op.pending[b] :
                op' = [op EXCEPT !.pc = "try", !.key = key, !.pending[b] = @ \ {key}]
       ELSE op' = IF op.for # "grow" THEN Idle
                  ELSE [pc |-> "try", key |-> op.outer, for |-> "insert", arg |-> op.arg]
    /\ UNCHANGED <<tab, lgCurbuckets, count, held, lost>>

\* Mutant: ckh_rebuild fails with the count of the new table.
CountSoFar == count
CountBack == op.countPrev

\* Rebuilding failed: back to the old table.
Undo ==
    /\ op.pc = "undo"
    /\ tab' = op.old /\ lgCurbuckets' = op.lgPrev /\ count' = CountBack
    /\ op' = IF op.for = "grow" THEN Growing(op.outer, op.arg, op.lg + 1) ELSE Idle
    /\ UNCHANGED <<held, lost>>

Sparse(n) == n < 2 ^ (lgCurbuckets + LgCells - 2) /\ lgCurbuckets > LgMinbuckets

\* A table that is less than a quarter full is halved, if there is memory for that.
Remove(key) ==
    /\ op = Idle /\ Found(key)
    /\ held' = held \ {key} /\ UNCHANGED lost
    /\ LET left == [b \in DOMAIN tab |-> tab[b] \ {key}]
       IN \/ /\ Sparse(count - 1)
             /\ Rebuilding(left, count - 1, lgCurbuckets - 1, "shrink", key, key)
          \/ /\ tab' = left /\ count' = count - 1
             /\ UNCHANGED <<lgCurbuckets, op>>

Init ==
    /\ tab = Empty(LgMinbuckets) /\ lgCurbuckets = LgMinbuckets /\ count = 0
    /\ op = Idle /\ held = {} /\ lost = {}

Next ==
    \/ \E key \in Keys : Insert(key) \/ Remove(key)
    \/ TryInsert \/ Evict \/ Grow \/ Rebuild \/ Undo
-----------------------------------------------------------------------------
TypeOK ==
    /\ lgCurbuckets \in LgMinbuckets .. MaxLg
    /\ tab \in [0 .. 2 ^ lgCurbuckets - 1 -> SUBSET Keys]
    /\ count \in Nat /\ lost \subseteq held /\ held \subseteq Keys

\* Between calls the table has what was to be inserted and not removed, each key once, where a
\* search looks for it, through evictions, growth in one or more rounds, and shrinking that
\* fails, but for one key for each insertion that failed: the one in its hands when memory
\* ended.  That may be one that was inserted long before, and the caller's key may be in the
\* table although its insertion failed (ckh.c:466-470); its count is right all the same, and
\* no other key is lost.
TableSearches ==
    op = Idle =>
        /\ Items(tab) = held \ lost
        /\ \A key \in held \ lost : Found(key)
        /\ count = Cardinality(held \ lost)
        /\ MapThenSumSet(LAMBDA b : Cardinality(tab[b]), DOMAIN tab) = count
=============================================================================
