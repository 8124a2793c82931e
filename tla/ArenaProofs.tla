---------------------------- MODULE ArenaProofs -----------------------------
(***************************************************************************)
(* The arena, for any threads, chunks, pages and sizes: the inductive      *)
(* invariant, that every section keeps it, and the properties that follow. *)
(* A step is seen from the thread that takes it: what it has in hand, what *)
(* the program and the bin have, and what the other threads have.          *)
(***************************************************************************)
EXTENDS ArenaLemmas
-----------------------------------------------------------------------------
(* The invariant.                                                          *)

Wants == Requests \union {[kind |-> "small", n |-> RunPages]}
Places ==
    {Idle, [pc |-> "wantRun"]} \union [pc : {"chunk"}, want : Wants]
    \union [pc : {"haveRun"}, run : Spots \union {None}]
    \union [pc : {"freeRun"}, run : Spots, ret : SUBSET ObjectType]
    \union {k \in WorkType : k.pc \in {"unmap", "madvise"}}
Headers == [free : SUBSET Regs, nextind : 0 .. NRegs]

StateTypes ==
    /\ th \in [Threads -> Places] /\ live \subseteq ObjectType
    /\ DOMAIN hdr \subseteq Spots /\ hdr \in [DOMAIN hdr -> Headers]
    /\ bin \in [cur : DOMAIN hdr \union {None}, runs : SUBSET DOMAIN hdr]

ArenaExact == Ledger(arena, {}) /\ arena.npurg \in 0 .. Word - 1

\* Every allocated run has one holder.
RunsOwned ==
    /\ Taken(arena) = LargeRuns(live) \union DOMAIN hdr \union UNION {Owners[t] : t \in Threads}
    /\ LargeRuns(live) \cap DOMAIN hdr = {}
    /\ \A t \in Threads : Owners[t] \cap (LargeRuns(live) \union DOMAIN hdr) = {}
    /\ \A s, t \in Threads : s # t => Owners[s] \cap Owners[t] = {}
    /\ \A t \in Threads : Working(t) => /\ HeldBy(t) \cap LargeRuns(Pending(t)) = {}
                                        /\ Apart(th[t].todo)

\* The pages of clean runs that were written bear the mark, the runs of the bin are of one length.
RunsMarked ==
    /\ \A r \in DOMAIN hdr :
          /\ arena.map[r[1]][r[2]].len = RunPages
          /\ arena.map[r[1]][r[2]].dirty \/ Marked(arena, r[1], r[2])
    /\ \A t \in Threads : Working(t) => Orderly(arena, th[t])

\* The regions in use are objects, each of them in one place.
Used(h) ==
    {o \in ObjectType : o.reg # None /\ <<o.c, o.p>> \in DOMAIN h /\ o.reg \notin h[<<o.c, o.p>>].free}
RegionsOwned ==
    /\ Regions = Used(hdr)
    /\ \A t \in Threads : \A o \in Pending(t) : o.reg # None => o \notin live
    /\ \A s, t \in Threads : s # t => \A o \in Pending(s) : o.reg # None => o \notin Pending(t)

Carrying(t) == th[t].pc \in {"haveRun", "freeRun"} /\ th[t].run # None
BinExact ==
    /\ BinRunsFound
    /\ bin.cur # None => hdr[bin.cur].free # Regs
    /\ \A t \in Threads : Carrying(t) => th[t].run \in DOMAIN hdr
    /\ \A s, t \in Threads : Carrying(s) /\ Carrying(t) /\ th[s].run = th[t].run => s = t

IInv == StateTypes /\ ArenaExact /\ RunsOwned /\ RunsMarked /\ RegionsOwned /\ BinExact /\ ClaimsBalance
-----------------------------------------------------------------------------
(* What becomes of the runs that somebody has.                             *)

\* The runs F are as they were, and those of marked pages still are.
Alike(A, B, F) ==
    \A r \in F : /\ B.map[r[1]][r[2]] = A.map[r[1]][r[2]]
                 /\ Marked(A, r[1], r[2]) => Marked(B, r[1], r[2])

\* Runs that keep their entries and marks are alike.
LEMMA StillAlike ==
    ASSUME NEW A, NEW B, NEW F, Still(A, B, F), B.unz = A.unz, B.touched = A.touched
    PROVE  Alike(A, B, F)
  BY DEF Still, Alike, Marked

LEMMA AlikeTwice ==
    ASSUME NEW A, NEW B, NEW C, NEW F, NEW G, Alike(A, B, F), Alike(B, C, G), F \subseteq G
    PROVE  Alike(A, C, F)
  BY DEF Alike

LEMMA AlikeOrderly ==
    ASSUME NEW A, NEW B, NEW F, Alike(A, B, F), NEW k, Orderly(A, k), Held(k.todo) \subseteq F
    PROVE  Orderly(B, k)
<1> SUFFICES ASSUME NEW i \in DOMAIN k.todo, JobMarked(A, k.todo[i])
             PROVE  JobMarked(B, k.todo[i])
  BY DEF Orderly
<1> DEFINE j == k.todo[i]
<1>1. <<j.c, j.p>> \in F
  BY DEF Held
<1>2. /\ B.map[j.c][j.p] = A.map[j.c][j.p]
      /\ Marked(A, j.c, j.p) => Marked(B, j.c, j.p)
  BY <1>1 DEF Alike
<1> QED BY <1>2 DEF JobMarked, FreesDirty

\* The run at p is cut in two of n pages and the rest.
Parts(A, B, c, p, n) ==
    /\ Ledger(B, {}) /\ Taken(B) = Taken(A) \union {<<c, p + n>>} /\ <<c, p + n>> \notin Taken(A)
    /\ B.map[c][p] = Run("large", n, A.map[c][p].dirty)
    /\ B.map[c][p + n] = Run("large", A.map[c][p].len - n, A.map[c][p].dirty)
    /\ Alike(A, B, Taken(A) \ {<<c, p>>}) /\ B.npurg = A.npurg /\ B.spare = A.spare
    /\ Marked(A, c, p) => Marked(B, c, p) /\ Marked(B, c, p + n)
    /\ B.unz = A.unz /\ B.touched = A.touched

\* A large run is cut in two.
LEMMA CutFacts ==
    ASSUME NEW A, Ledger(A, {}), NEW c \in Chunks, NEW p, <<c, p>> \in Taken(A),
           NEW n \in 1 .. A.map[c][p].len - 1
    PROVE  Parts(A, Cut(A, c, p, n), c, p, n)
<1> DEFINE m == A.map[c]
           l == m[p].len
           x == Run("large", n, m[p].dirty)
           y == Run("large", l - n, m[p].dirty)
           v == With(m, p, x)
           w == With(v, p + n, y)
           B == [A EXCEPT !.map[c] = w]
           X == {}
<1>0. Typed(A) /\ c # A.spare
  BY NotSpare DEF Ledger
<1>1. p \in DOMAIN m /\ IsTiling(m) /\ m \in [DOMAIN m -> RunType]
  BY <1>0, TypedFacts DEF Taken, IsTiling
<1>2. /\ p \in Nat /\ l \in Nat \ {0} /\ l <= NPages /\ NPages \in Nat /\ m[p].dirty \in BOOLEAN
      /\ n \in Nat \ {0} /\ n < l
  <2>1. p \in Nat /\ l \in Nat \ {0} /\ l \in 1 .. NPages /\ NPages \in Nat /\ m[p] \in RunType
    BY <1>1, TilingTypes
  <2> HIDE DEF m
  <2> QED BY <2>1 DEF RunType, m
<1>3. x \in RunType /\ y \in RunType
  BY <1>2 DEF Run, RunType
<1>4. p + n # p /\ p + n \notin DOMAIN m /\ p + n \in Pages
  BY <1>1, SplitPoint
<1>5. Cut(A, c, p, n) = B
  <2>1. A.map \in [Chunks -> UNION {[D -> RunType] : D \in SUBSET Pages}]
    BY <1>0 DEF Typed
  <2> QED BY <2>1 DEF Cut
<1> HIDE DEF m, x, y
<1>6. /\ DOMAIN w = DOMAIN m \union {p + n} /\ w \in [DOMAIN w -> RunType]
      /\ w[p] = x /\ w[p + n] = y /\ \A q \in DOMAIN m \ {p} : w[q] = m[q]
  <2>1. DOMAIN v = DOMAIN m /\ v[p] = x /\ \A q \in DOMAIN m \ {p} : v[q] = m[q]
    BY <1>1 DEF With
  <2> HIDE DEF v
  <2>2. /\ DOMAIN w = DOMAIN m \union {p + n} /\ w[p + n] = y /\ \A q \in DOMAIN m : w[q] = v[q]
        /\ w = [q \in DOMAIN w |-> w[q]]
    BY <1>4, <2>1 DEF With
  <2> HIDE DEF w
  <2>3. w \in [DOMAIN w -> RunType]
    BY <1>1, <1>3, <2>1, <2>2
  <2> QED BY <1>1, <2>1, <2>2, <2>3
<1> HIDE DEF w, v
<1>7. Remap(A, B, c, w) /\ B.nactive = A.nactive
  <2>1. B = [A EXCEPT !.map[c] = w]
    OBVIOUS
  <2> HIDE DEF B
  <2> QED BY <1>0, <2>1, RemapOnly
<1> HIDE DEF B
<1>8. Cuts(A, B, c, w, p, n, X)
  <2>1. Ledger(A, X)
    OBVIOUS
  <2> HIDE DEF X
  <2>2. /\ DOMAIN w = DOMAIN A.map[c] \union {p + n} /\ w[p] = Run("large", n, A.map[c][p].dirty)
        /\ w[p + n] = Run("large", A.map[c][p].len - n, A.map[c][p].dirty)
        /\ \A q \in DOMAIN A.map[c] \ {p} : w[q] = A.map[c][q] /\ w \in [DOMAIN w -> RunType]
    BY <1>6 DEF m, x, y
  <2> QED BY <1>0, <1>6, <1>7, <2>1, <2>2, CutRun DEF m, x, y
<1>9. /\ Ledger(B, {}) /\ Taken(B) = Taken(A) \union {<<c, p + n>>} /\ <<c, p + n>> \notin Taken(A)
      /\ B.map[c] = w /\ Moves(A, B, c, w, {p, p + n}) /\ B.spare = A.spare
      /\ B.npurg = A.npurg /\ B.unz = A.unz /\ B.touched = A.touched
  BY <1>8, Moved DEF Cuts, Moves
<1>10. Alike(A, B, Taken(A) \ {<<c, p>>})
  <2> DEFINE F == Taken(A) \ {<<c, p>>}
             U == {p, p + n}
  <2>1. F \in SUBSET Taken(A) /\ \A q \in U : <<c, q>> \notin F
    BY <1>9
  <2>2. Moves(A, B, c, w, U)
    BY <1>9
  <2> HIDE DEF F, U
  <2>3. Still(A, B, F)
    BY <2>1, <2>2, MovesStill
  <2>4. Alike(A, B, F)
    BY <1>9, <2>3, StillAlike
  <2> QED BY <2>4 DEF F
<1>11. ASSUME Marked(A, c, p)
       PROVE  Marked(B, c, p) /\ Marked(B, c, p + n)
  <2>1. Extent(p, n) \subseteq Extent(p, l) /\ Extent(p + n, l - n) \subseteq Extent(p, l)
    BY <1>2 DEF Extent
  <2>2. B.map[c][p].len = n /\ B.map[c][p + n].len = l - n /\ A.map[c][p].len = l
    BY <1>6, <1>9 DEF x, y, Run, m
  <2> HIDE DEF l
  <2> QED BY <1>9, <1>11, <2>1, <2>2 DEF Marked
<1>12. B.map[c][p] = Run("large", n, A.map[c][p].dirty)
       /\ B.map[c][p + n] = Run("large", A.map[c][p].len - n, A.map[c][p].dirty)
  BY <1>6, <1>9 DEF x, y, m
<1> QED BY <1>5, <1>9, <1>10, <1>11, <1>12 DEF Parts

\* The first n pages of a free run become a run.
Obtains(A, B, c, p, n) ==
    /\ Ledger(B, {}) /\ Taken(B) = Taken(A) \union {<<c, p>>} /\ <<c, p>> \notin Taken(A) /\ p \in Pages
    /\ B.map[c][p].len = n /\ Alike(A, B, Taken(A)) /\ B.npurg = A.npurg /\ B.spare = A.spare
    /\ B.map[c][p].dirty \/ Marked(B, c, p)

\* A run is obtained from the available ones.
LEMMA SplitObtains ==
    ASSUME NEW A, Ledger(A, {}), NEW c \in Chunks, NEW p, <<c, p>> \in A.avail,
           NEW n \in 1 .. A.map[c][p].len, NEW kind \in {"large", "small"}
    PROVE  Obtains(A, RunSplit(A, c, p, n, kind), c, p, n)
<1> DEFINE B == RunSplit(A, c, p, n, kind)
<1>1. Splits(A, B, c, p, n, kind)
  BY RunSplitFacts
<1> HIDE DEF B
<1>2. Typed(A) /\ Stock(A, {}) /\ Clean(A)
  BY DEF Ledger
<1>3. p \in DOMAIN A.map[c] /\ A.map[c][p].kind = "free" /\ IsTiling(A.map[c]) /\ p \in Pages
  BY <1>2, TypedFacts DEF Stock, Outs, FreeAt, Spots
<1>4. /\ Ledger(B, {}) /\ Taken(B) = Taken(A) \union {<<c, p>>} /\ <<c, p>> \notin Taken(A)
      /\ B.map[c][p] = Run(kind, n, A.map[c][p].dirty) /\ Still(A, B, Taken(A)) /\ B.spare = A.spare
      /\ B.npurg = A.npurg /\ B.unz = A.unz /\ B.touched = A.touched
  BY <1>1 DEF Splits, Same
<1>5. ASSUME ~B.map[c][p].dirty
      PROVE  Marked(B, c, p)
  <2>1. Marked(A, c, p)
    BY <1>2, <1>3, <1>4, <1>5 DEF Clean, Run
  <2>2. B.map[c][p].len = n
    BY <1>4 DEF Run
  <2>3. p \in Nat /\ A.map[c][p].len \in Nat
    BY <1>3, TilingTypes
  <2>4. Extent(p, n) \subseteq Extent(p, A.map[c][p].len)
    BY <2>3 DEF Extent
  <2> QED BY <1>4, <2>1, <2>2, <2>4 DEF Marked
<1>6. Alike(A, B, Taken(A)) /\ B.map[c][p].len = n
  BY <1>4, StillAlike DEF Run
<1> QED BY <1>3, <1>4, <1>5, <1>6 DEF Obtains, B

\* The marks change: pages are written, or given to the system.
Remarks(A, B, unz, touched) ==
    /\ unz \in [Chunks -> SUBSET Pages] /\ touched \in [Chunks -> SUBSET Pages]
    /\ B = [A EXCEPT !.unz = unz, !.touched = touched]
Remarked(A, B) ==
    /\ Ledger(B, {}) /\ B.map = A.map /\ Taken(B) = Taken(A) /\ B.npurg = A.npurg /\ B.spare = A.spare

\* Marks of pages that are not free may change.
LEMMA MarksMoved ==
    ASSUME NEW A, Ledger(A, {}), NEW unz, NEW touched, NEW B, Remarks(A, B, unz, touched),
           \A c \in Chunks, p \in Pages : FreeAt(A, c, p) /\ Marked(A, c, p) => Marked(B, c, p)
    PROVE  Remarked(A, B)
<1> USE DEF Remarks
<1>0. Typed(A) /\ Stock(A, {}) /\ Clean(A)
  BY DEF Ledger
<1>1. /\ B.map = A.map /\ B.spare = A.spare /\ B.avail = A.avail /\ B.info = A.info /\ B.ndirty = A.ndirty
      /\ B.nactive = A.nactive /\ B.unz = unz /\ B.touched = touched /\ B.npurg = A.npurg
  BY <1>0 DEF Typed
<1>2. Typed(B)
  <2> DEFINE T == UNION {[D -> RunType] : D \in SUBSET Pages}
  <2>1. A \in [map : [Chunks -> T],
              avail : SUBSET Spots, spare : Chunks \union {None},
              ndirty : Int, nactive : Int, npurg : Int, info : [Chunks -> Info],
              unz : [Chunks -> SUBSET Pages], touched : [Chunks -> SUBSET Pages]]
    BY <1>0 DEF Typed
  <2> HIDE DEF T
  <2>2. B \in [map : [Chunks -> T],
              avail : SUBSET Spots, spare : Chunks \union {None},
              ndirty : Int, nactive : Int, npurg : Int, info : [Chunks -> Info],
              unz : [Chunks -> SUBSET Pages], touched : [Chunks -> SUBSET Pages]]
    BY <2>1
  <2>3. B.spare # None => Unused(B, B.spare)
    BY <1>0, <1>1 DEF Typed, Unused
  <2> QED BY <1>0, <1>1, <2>2, <2>3 DEF Typed, T
<1>3. Taken(B) = Taken(A) /\ Outs(B) = Outs(A)
  BY <1>1 DEF Taken, Outs, FreeAt
<1>4. Stock(B, {})
  BY <1>0, <1>1, <1>3 DEF Stock
<1>5. Clean(B)
  <2> SUFFICES ASSUME NEW c \in Chunks, NEW p \in DOMAIN A.map[c], A.map[c][p].kind = "free", ~A.map[c][p].dirty
               PROVE  Marked(B, c, p)
    BY <1>1 DEF Clean
  <2>1. p \in Pages /\ FreeAt(A, c, p) /\ Marked(A, c, p)
    BY <1>0, TypedFacts DEF FreeAt, Clean
  <2> QED BY <2>1
<1>6. \A r \in A.avail \union Taken(A) : r[2] \in DOMAIN B.map[r[1]] /\ B.map[r[1]][r[2]] = A.map[r[1]][r[2]]
  BY <1>0, <1>1 DEF Stock, Outs, FreeAt, Taken
<1> DEFINE E == {}
<1>7. Ledger(A, E) /\ Stock(B, E)
  BY <1>4
<1> HIDE DEF E
<1>8. Ledger(B, E)
  BY <1>1, <1>2, <1>3, <1>5, <1>6, <1>7, ChunkMoved
<1> QED BY <1>1, <1>3, <1>8 DEF E, Remarked

\* The holder of a run writes to pages of it.
Writes(A, B, c, p) ==
    /\ Ledger(B, {}) /\ B.map = A.map /\ Taken(B) = Taken(A) /\ B.npurg = A.npurg /\ B.spare = A.spare
    /\ Alike(A, B, Taken(A) \ {<<c, p>>})

\* The program writes to what it has.
LEMMA TouchWrites ==
    ASSUME NEW A, Ledger(A, {}), NEW c \in Chunks, NEW p, <<c, p>> \in Taken(A),
           NEW pages, pages \subseteq Extent(p, A.map[c][p].len)
    PROVE  /\ Writes(A, Touch(A, c, pages), c, p)
           /\ Touch(A, c, pages).touched[c] = A.touched[c] \union pages /\ Touch(A, c, pages).unz = A.unz
<1> DEFINE touched == [A.touched EXCEPT ![c] = @ \union pages]
           unz == A.unz
           B == Touch(A, c, pages)
<1>0. Typed(A)
  BY DEF Ledger
<1>1. /\ p \in DOMAIN A.map[c] /\ A.map[c][p].kind # "free" /\ IsTiling(A.map[c]) /\ p \in Pages
      /\ A.unz \in [Chunks -> SUBSET Pages] /\ A.touched \in [Chunks -> SUBSET Pages]
  BY <1>0, TypedFacts DEF Taken, Spots
<1>2. pages \subseteq Pages
  <2>1. p \in Nat /\ A.map[c][p].len \in Nat /\ p + A.map[c][p].len <= NPages /\ NPages \in Nat
    BY <1>1, TilingTypes
  <2> QED BY <2>1 DEF Extent, Pages
<1>3. unz \in [Chunks -> SUBSET Pages] /\ touched \in [Chunks -> SUBSET Pages]
  BY <1>1, <1>2
<1>4. B = [A EXCEPT !.unz = unz, !.touched = touched]
  BY <1>0 DEF Touch, Typed
<1>5. /\ touched[c] = A.touched[c] \union pages /\ \A e \in Chunks \ {c} : touched[e] = A.touched[e]
  BY <1>1
<1>6. B.map = A.map /\ B.unz = unz /\ B.touched = touched
  BY <1>0, <1>4 DEF Typed
<1> HIDE DEF B, touched, unz
<1>7. ASSUME NEW e \in Chunks, NEW q \in DOMAIN A.map[e], ~ (e = c /\ q = p), Marked(A, e, q)
      PROVE  Marked(B, e, q)
  <2>1. CASE e # c
    BY <1>5, <1>6, <1>7, <2>1 DEF Marked, unz
  <2>2. CASE e = c
    <3>1. \A i \in Extent(p, A.map[c][p].len) : i \notin Extent(q, A.map[c][q].len)
      BY <1>1, <1>7, <2>2, TilingFacts
    <3> QED BY <1>5, <1>6, <1>7, <2>2, <3>1 DEF Marked, unz
  <2> QED BY <2>1, <2>2
<1>8. \A e \in Chunks, q \in Pages : FreeAt(A, e, q) /\ Marked(A, e, q) => Marked(B, e, q)
  BY <1>1, <1>7 DEF FreeAt
<1>9. /\ Ledger(B, {}) /\ B.map = A.map /\ Taken(B) = Taken(A) /\ B.npurg = A.npurg /\ B.spare = A.spare
  <2>1. Remarks(A, B, unz, touched)
    BY <1>3, <1>4 DEF Remarks
  <2>2. Remarked(A, B)
    BY <1>8, <2>1, MarksMoved
  <2> QED BY <2>2 DEF Remarked
<1>10. Alike(A, B, Taken(A) \ {<<c, p>>})
  BY <1>6, <1>7 DEF Alike, Taken, Spots
<1> QED BY <1>5, <1>6, <1>9, <1>10 DEF Writes, B, unz

\* Pages are given to the system and come back zeroed, or bear the mark.
Purges(A, B, P) ==
    /\ Ledger(B, {}) /\ B.map = A.map /\ Taken(B) = Taken(A) /\ B.npurg = A.npurg
    /\ Alike(A, B, Taken(A))
    /\ \A c \in Chunks : \A p : Extent(p, A.map[c][p].len) \subseteq P[c] => Marked(B, c, p)

\* madvise zeroes the stashed pages, or they are marked.
LEMMA PurgeFacts ==
    ASSUME NEW A, Ledger(A, {}), NEW P \in [Chunks -> SUBSET Pages], NEW B,
           B = [A EXCEPT !.unz = [c \in Chunks |-> IF c \in Zeroing THEN A.unz[c] \ P[c]
                                                   ELSE A.unz[c] \union P[c]],
                         !.touched = [c \in Chunks |-> IF c \in Zeroing THEN A.touched[c] \ P[c]
                                                       ELSE A.touched[c]]]
    PROVE  Purges(A, B, P)
<1> DEFINE unz == [c \in Chunks |-> IF c \in Zeroing THEN A.unz[c] \ P[c] ELSE A.unz[c] \union P[c]]
           touched == [c \in Chunks |-> IF c \in Zeroing THEN A.touched[c] \ P[c] ELSE A.touched[c]]
<1>1. A.unz \in [Chunks -> SUBSET Pages] /\ A.touched \in [Chunks -> SUBSET Pages] /\ Typed(A)
  BY TypedFacts DEF Ledger
<1>2. unz \in [Chunks -> SUBSET Pages] /\ touched \in [Chunks -> SUBSET Pages]
  BY <1>1
<1>3. \A c \in Chunks : /\ unz[c] = IF c \in Zeroing THEN A.unz[c] \ P[c] ELSE A.unz[c] \union P[c]
                        /\ touched[c] = IF c \in Zeroing THEN A.touched[c] \ P[c] ELSE A.touched[c]
  OBVIOUS
<1>4. B = [A EXCEPT !.unz = unz, !.touched = touched]
  OBVIOUS
<1> HIDE DEF unz, touched
<1>5. B.map = A.map /\ B.unz = unz /\ B.touched = touched
  BY <1>1, <1>4 DEF Typed
<1>6. \A c \in Chunks : \A p : Marked(A, c, p) => Marked(B, c, p)
  BY <1>3, <1>5 DEF Marked
<1>7. \A c \in Chunks : \A p : Extent(p, A.map[c][p].len) \subseteq P[c] => Marked(B, c, p)
  BY <1>3, <1>5 DEF Marked
<1>8. \A c \in Chunks, p \in Pages : FreeAt(A, c, p) /\ Marked(A, c, p) => Marked(B, c, p)
  BY <1>6
<1>9. Ledger(B, {}) /\ Taken(B) = Taken(A) /\ B.npurg = A.npurg
  <2>1. Remarks(A, B, unz, touched)
    BY <1>2, <1>4 DEF Remarks
  <2>2. Remarked(A, B)
    BY <1>8, <2>1, MarksMoved
  <2> QED BY <2>2 DEF Remarked
<1>10. Alike(A, B, Taken(A))
  BY <1>5, <1>6 DEF Alike, Taken, Spots
<1> QED BY <1>5, <1>7, <1>9, <1>10 DEF Purges

\* A run takes in the first pages of the free run after it.
Grown(A, B, c, p) ==
    /\ Ledger(B, {}) /\ Taken(B) = Taken(A) /\ Alike(A, B, Taken(A) \ {<<c, p>>}) /\ B.npurg = A.npurg

\* A large run swallows pages of the free run after it.
LEMMA GrowFacts ==
    ASSUME NEW A, Ledger(A, {}), NEW c \in Chunks, NEW p, <<c, p>> \in Taken(A),
           NEW q, q = p + A.map[c][p].len, FreeAt(A, c, q), NEW n \in 1 .. A.map[c][q].len,
           NEW B, B = RunSplit(A, c, q, n, "large"), NEW dirty \in BOOLEAN
    PROVE  Grown(A, [B EXCEPT !.map[c] = With(Restrict(@, DOMAIN @ \ {q}), p,
                                              Run("large", A.map[c][p].len + n, dirty))], c, p)
<1> DEFINE m == B.map[c]
           x == Run("large", A.map[c][p].len + n, dirty)
           v == Restrict(m, DOMAIN m \ {q})
           w == With(v, p, x)
           C == [B EXCEPT !.map[c] = w]
           X == {}
<1>0. Typed(A) /\ c # A.spare /\ Stock(A, {})
  BY NotSpare DEF Ledger
<1>1. q \in DOMAIN A.map[c] /\ A.map[c][q].kind = "free" /\ q \in Pages /\ <<c, q>> \in A.avail
  <2>1. q \in DOMAIN A.map[c] /\ A.map[c][q].kind = "free"
    BY DEF FreeAt
  <2>2. q \in Pages
    BY <1>0, <2>1, TypedFacts
  <2>3. <<c, q>> \in Outs(A)
    BY <1>0, <2>1, <2>2, SpotFacts
  <2> QED BY <1>0, <2>1, <2>2, <2>3 DEF Stock
<1>2. Splits(A, B, c, q, n, "large")
  BY <1>1, RunSplitFacts
<1>3. /\ Ledger(B, {}) /\ Taken(B) = Taken(A) \union {<<c, q>>} /\ <<c, q>> \notin Taken(A)
      /\ m[q] = Run("large", n, A.map[c][q].dirty) /\ Still(A, B, Taken(A))
      /\ B.npurg = A.npurg /\ B.unz = A.unz /\ B.touched = A.touched /\ B.spare = A.spare /\ Typed(B)
  BY <1>2 DEF Splits, Same, Ledger
<1>4. m[p] = A.map[c][p] /\ m[q].len = n /\ <<c, p>> \in Taken(B) /\ <<c, q>> \in Taken(B) /\ p # q
  <2>1. m[p] = A.map[c][p]
    BY <1>3 DEF Still
  <2>2. m[q].len = n
    BY <1>3, SMTT(30) DEF Run
  <2> QED BY <1>3, <2>1, <2>2
<1>5. /\ p \in DOMAIN m /\ q \in DOMAIN m /\ IsTiling(m) /\ m \in [DOMAIN m -> RunType]
      /\ B.map \in [Chunks -> UNION {[D -> RunType] : D \in SUBSET Pages}]
  <2>1. p \in DOMAIN m /\ q \in DOMAIN m
    BY <1>4 DEF Taken
  <2>2. IsTiling(m)
    BY <1>3, <2>1, TypedFacts
  <2> QED BY <1>3, <2>1, <2>2 DEF IsTiling, Typed
<1>6. x \in RunType
  <2>1. /\ p \in Nat /\ q \in Nat /\ m[p].len \in Nat \ {0} /\ m[q].len \in Nat \ {0} /\ NPages \in Nat
        /\ q + m[q].len <= NPages
    BY <1>5, TilingTypes
  <2> DEFINE k == m[p].len
  <2>2. k \in Nat \ {0} /\ n \in Nat \ {0} /\ q = p + k /\ q + n <= NPages /\ A.map[c][p].len = k
    BY <1>4, <2>1
  <2> HIDE DEF k
  <2>3. A.map[c][p].len + n \in 1 .. NPages
    BY <2>1, <2>2
  <2> QED BY <2>3 DEF Run, RunType
<1> HIDE DEF x
<1>7. /\ DOMAIN w = DOMAIN m \ {q} /\ w \in [DOMAIN w -> RunType] /\ w[p] = x
      /\ \A r \in DOMAIN w \ {p} : w[r] = m[r]
  <2> HIDE DEF m
  <2>1. DOMAIN v = DOMAIN m \ {q} /\ \A r \in DOMAIN v : v[r] = m[r]
    BY DEF Restrict
  <2> HIDE DEF v
  <2>2. /\ DOMAIN w = DOMAIN m \ {q} /\ w = [r \in DOMAIN w |-> w[r]] /\ w[p] = x
        /\ \A r \in DOMAIN w \ {p} : w[r] = m[r]
    BY <1>4, <1>5, <2>1 DEF With
  <2> HIDE DEF w
  <2> QED BY <1>5, <1>6, <2>2
<1>8. [B EXCEPT !.map[c] = With(Restrict(@, DOMAIN @ \ {q}), p, x)] = C
  <2> HIDE DEF x
  <2> QED BY <1>5
<1> HIDE DEF w, v
<1>9. Remap(B, C, c, w) /\ C.nactive = B.nactive
  <2>1. C = [B EXCEPT !.map[c] = w]
    OBVIOUS
  <2>2. Typed(B)
    BY <1>3
  <2> HIDE DEF C, m
  <2> QED BY <2>1, <2>2, RemapOnly
<1> HIDE DEF C
<1>10. Grows(B, C, c, w, p, q, X)
  <2>1. Ledger(B, X) /\ c # B.spare
    BY <1>0, <1>3
  <2> HIDE DEF X
  <2>2. /\ DOMAIN w = DOMAIN B.map[c] \ {q} /\ w \in [DOMAIN w -> RunType]
        /\ w[p] = Run("large", B.map[c][p].len + B.map[c][q].len, dirty)
        /\ \A r \in DOMAIN w \ {p} : w[r] = B.map[c][r]
    BY <1>4, <1>7 DEF x
  <2>3. q = p + B.map[c][p].len
    BY <1>4
  <2> QED BY <1>4, <1>9, <2>1, <2>2, <2>3, GrowRun
<1>11. /\ Ledger(C, {}) /\ Taken(C) = Taken(A) /\ Moves(B, C, c, w, {p, q})
       /\ C.npurg = B.npurg /\ C.unz = B.unz /\ C.touched = B.touched
  BY <1>3, <1>10 DEF Grows, Moves
<1>12. Alike(A, C, Taken(A) \ {<<c, p>>})
  <2> DEFINE F == Taken(A) \ {<<c, p>>}
             U == {p, q}
  <2>1. F \in SUBSET Taken(B) /\ F \subseteq Taken(A) /\ \A r \in U : <<c, r>> \notin F
    BY <1>3
  <2>2. Moves(B, C, c, w, U)
    BY <1>11
  <2> HIDE DEF F, U
  <2>3. Still(B, C, F)
    BY <2>1, <2>2, MovesStill
  <2>4. Still(A, B, F)
    BY <1>3, <2>1 DEF Still
  <2>5. Still(A, C, F)
    BY <2>3, <2>4, SMTT(30) DEF Still
  <2>6. Alike(A, C, F)
    BY <1>3, <1>11, <2>5, StillAlike
  <2> QED BY <2>6 DEF F
<1> QED BY <1>3, <1>8, <1>11, <1>12 DEF Grown, x
-----------------------------------------------------------------------------
(* The steps of the threads.                                               *)

\* What a thread's place says of it.
LEMMA PlaceFacts ==
    ASSUME NEW k \in Places
    PROVE  /\ k.pc \in {"idle", "wantRun", "chunk", "haveRun", "freeRun", "unmap", "madvise"}
           /\ k.pc = "chunk" => k.want \in Wants
           /\ k.pc = "haveRun" => k.run \in Spots \union {None}
           /\ k.pc = "freeRun" => k.run \in Spots /\ k.ret \in SUBSET ObjectType
           /\ k.pc \in {"unmap", "madvise"} => k \in WorkType
<1>1. CASE k = Idle
  BY <1>1 DEF Idle
<1>2. CASE k = [pc |-> "wantRun"]
  BY <1>2
<1>3. CASE k \in [pc : {"chunk"}, want : Wants]
  BY <1>3
<1>4. CASE k \in [pc : {"haveRun"}, run : Spots \union {None}]
  BY <1>4
<1>5. CASE k \in [pc : {"freeRun"}, run : Spots, ret : SUBSET ObjectType]
  BY <1>5
<1>6. CASE k \in WorkType /\ k.pc \in {"unmap", "madvise"}
  BY <1>6
<1> QED BY <1>1, <1>2, <1>3, <1>4, <1>5, <1>6 DEF Places

ClaimOf(t) == IF Working(t) THEN th[t].claim ELSE 0

\* A thread's claim and arena->npurgatory change by the same number, or both not at all.
LEMMA ClaimsKept ==
    ASSUME th \in [Threads -> Places], th' \in [Threads -> Places], ClaimsBalance, NEW t \in Threads,
           \A u \in Threads \ {t} : th'[u] = th[u],
           arena.npurg \in 0 .. Word - 1, arena'.npurg \in 0 .. Word - 1,
           (arena'.npurg - ClaimOf(t)') % Word = (arena.npurg - ClaimOf(t)) % Word
    PROVE  ClaimsBalance'
<1> DEFINE f == [u \in Threads |-> ClaimOf(u)]
           g == [u \in Threads |-> ClaimOf(u)']
           x == SumFunctionOnSet(f, Threads)
           y == SumFunctionOnSet(g, Threads)
           a == arena.npurg
           b == arena'.npurg
<1>0. Word \in Nat \ {0} /\ IsFiniteSet(Threads)
  BY ArenaAssumption
<1>1. \A u \in Threads : /\ f[u] \in 0 .. Word - 1 /\ f[u] \in Int /\ f[u] = ClaimOf(u)
                         /\ g[u] \in 0 .. Word - 1 /\ g[u] \in Int /\ g[u] = ClaimOf(u)'
  <2> TAKE u \in Threads
  <2>1. ClaimOf(u) \in 0 .. Word - 1
    <3>1. Working(u) => th[u] \in WorkType
      BY PlaceFacts DEF Working
    <3> QED BY <1>0, <3>1 DEF ClaimOf, WorkType
  <2>2. ClaimOf(u)' \in 0 .. Word - 1
    <3>1. Working(u)' => th'[u] \in WorkType
      BY PlaceFacts DEF Working
    <3> QED BY <1>0, <3>1 DEF ClaimOf, WorkType
  <2> QED BY <1>0, <2>1, <2>2
<1>2. \A u \in Threads \ {t} : f[u] = g[u]
  BY DEF ClaimOf, Working
<1>3. a = x % Word
  <2>1. SumFunction(f) = x
    BY DEF SumFunction
  <2>2. a = SumFunction(f) % Word
    BY DEF ClaimsBalance, ClaimOf
  <2> QED BY <2>1, <2>2
<1>4. ClaimsBalance' <=> b = y % Word
  <2>1. SumFunction(g) = y
    BY DEF SumFunction
  <2>2. ClaimsBalance' <=> b = SumFunction(g) % Word
    BY DEF ClaimsBalance, ClaimOf
  <2> QED BY <2>1, <2>2
<1>5. IntOn(f, Threads) /\ IntOn(g, Threads)
  BY <1>1 DEF IntOn
<1> HIDE DEF f, g
<1>6. x \in Int /\ y = x + g[t] - f[t]
  BY <1>0, <1>2, <1>5, SumChange
<1> DEFINE k == f[t]
           l == g[t]
<1>7. k \in Int /\ l \in Int /\ (b - l) % Word = (a - k) % Word
  BY <1>1
<1>8. Congruent(Word, x, k, a) /\ SameGap(Word, a, k, b, l)
  BY <1>3, <1>7 DEF Congruent, SameGap
<1> HIDE DEF x, y, a, b, k, l
<1>9. y = x + l - k
  BY <1>6 DEF k, l
<1>10. y % Word = b
  BY <1>0, <1>6, <1>8, <1>9, ModBalance
<1> QED BY <1>4, <1>10 DEF b, y

\* The runs of the other threads.
Elsewhere(t) == UNION {Owners[u] : u \in Threads \ {t}}

Parted(B, held, ret, out, H, E) ==
    /\ Taken(B) = held \union ret \union out \union H \union E
    /\ held \cap (ret \union out \union H \union E) = {}
    /\ ret \cap (out \union H \union E) = {}
    /\ out \cap (H \union E) = {} /\ H \cap E = {}

\* Every allocated run has one holder, seen from thread t.
LEMMA OwnedBy ==
    ASSUME RunsOwned, NEW t \in Threads
    PROVE  Parted(arena, HeldBy(t), LargeRuns(Pending(t)), LargeRuns(live), DOMAIN hdr, Elsewhere(t))
<1> DEFINE O(u) == Owners[u]
           L == LargeRuns(live)
           H == DOMAIN hdr
           E == UNION {O(u) : u \in Threads \ {t}}
<1>1. O(t) = HeldBy(t) \union LargeRuns(Pending(t)) /\ HeldBy(t) \cap LargeRuns(Pending(t)) = {}
  BY DEF RunsOwned, Owners, HeldBy
<1>2. /\ Taken(arena) = L \union H \union UNION {O(u) : u \in Threads}
      /\ L \cap H = {} /\ \A u \in Threads : O(u) \cap (L \union H) = {}
      /\ \A u \in Threads \ {t} : O(t) \cap O(u) = {}
  BY DEF RunsOwned
<1>3. E = Elsewhere(t)
  BY DEF Elsewhere
<1> HIDE DEF O, L, H
<1>4. UNION {O(u) : u \in Threads} = O(t) \union E
  OBVIOUS
<1>5. O(t) \cap E = {} /\ E \cap (L \union H) = {}
  BY <1>2
<1> HIDE DEF E
<1>6. /\ Taken(arena) = HeldBy(t) \union LargeRuns(Pending(t)) \union L \union H \union E
      /\ HeldBy(t) \cap (LargeRuns(Pending(t)) \union L \union H \union E) = {}
      /\ LargeRuns(Pending(t)) \cap (L \union H \union E) = {}
      /\ L \cap (H \union E) = {} /\ H \cap E = {}
  <2> DEFINE X == HeldBy(t)
             Y == LargeRuns(Pending(t))
  <2>1. O(t) = X \union Y /\ X \cap Y = {} /\ Taken(arena) = L \union H \union (O(t) \union E)
        /\ L \cap H = {} /\ O(t) \cap (L \union H) = {} /\ O(t) \cap E = {} /\ E \cap (L \union H) = {}
    BY <1>1, <1>2, <1>4, <1>5
  <2> HIDE DEF X, Y
  <2>2. /\ Taken(arena) = X \union Y \union L \union H \union E
        /\ X \cap (Y \union L \union H \union E) = {}
        /\ Y \cap (L \union H \union E) = {}
        /\ L \cap (H \union E) = {} /\ H \cap E = {}
    BY <2>1
  <2> QED BY <2>2 DEF X, Y
<1> QED BY <1>3, <1>6 DEF Parted, L, H

\* When only thread t moves, it is enough to see it from t.
LEMMA OwnedNext ==
    ASSUME RunsOwned, NEW t \in Threads, \A u \in Threads \ {t} : th'[u] = th[u],
           Parted(arena', HeldBy(t)', LargeRuns(Pending(t)'), LargeRuns(live'), DOMAIN hdr', Elsewhere(t)),
           Working(t)' => Apart(th'[t].todo)
    PROVE  RunsOwned'
<1> DEFINE O(u) == Owners[u]
           L == LargeRuns(live')
           H == DOMAIN hdr'
           X == HeldBy(t)'
           Y == LargeRuns(Pending(t)')
           N == Owners'
           E == UNION {O(u) : u \in Threads \ {t}}
<1>1. \A u \in Threads \ {t} : N[u] = O(u)
  BY DEF Owners, HeldBy, Pending, Working, At
<1>2. N[t] = X \union Y
  BY DEF Owners
<1>3. E = Elsewhere(t)
  BY DEF Elsewhere
<1>4. \A u, v \in Threads \ {t} : u # v => O(u) \cap O(v) = {}
  BY DEF RunsOwned
<1>5. \A u \in Threads \ {t} : Working(u)' => HeldBy(u)' \cap LargeRuns(Pending(u)') = {} /\ Apart(th'[u].todo)
  BY DEF RunsOwned, Working, HeldBy, Pending, At
<1>6. Parted(arena', X, Y, L, H, E)
  BY <1>3
<1> HIDE DEF O, L, H, X, Y, N
<1>7. /\ Taken(arena') = X \union Y \union L \union H \union E
      /\ X \cap (Y \union L \union H \union E) = {}
      /\ Y \cap (L \union H \union E) = {}
      /\ L \cap (H \union E) = {} /\ H \cap E = {}
  BY <1>6 DEF Parted
<1>8. UNION {N[u] : u \in Threads} = X \union Y \union E
  BY <1>1, <1>2
<1>9. \A u \in Threads : N[u] \cap (L \union H) = {}
  BY <1>1, <1>2, <1>7
<1>10. \A u, v \in Threads : u # v => N[u] \cap N[v] = {}
  <2> SUFFICES ASSUME NEW u \in Threads, NEW v \in Threads, u # v
               PROVE  N[u] \cap N[v] = {}
    OBVIOUS
  <2>1. \A w \in Threads \ {t} : N[w] \subseteq E
    BY <1>1
  <2>2. N[t] \cap E = {}
    BY <1>2, <1>7
  <2>3. CASE u = t \/ v = t
    BY <2>1, <2>2, <2>3
  <2>4. CASE u # t /\ v # t
    BY <1>1, <1>4, <2>4
  <2> QED BY <2>3, <2>4
<1> HIDE DEF E
<1>11. Taken(arena') = L \union H \union UNION {N[u] : u \in Threads} /\ L \cap H = {} /\ X \cap Y = {}
  BY <1>7, <1>8
<1>12. \A u \in Threads : Working(u)' => HeldBy(u)' \cap LargeRuns(Pending(u)') = {} /\ Apart(th'[u].todo)
  BY <1>5, <1>11 DEF X, Y
<1> QED BY <1>9, <1>10, <1>11, <1>12 DEF RunsOwned, L, H, N

BinRunsMarked(A, H) ==
    \A r \in H : /\ A.map[r[1]][r[2]].len = RunPages
                 /\ A.map[r[1]][r[2]].dirty \/ Marked(A, r[1], r[2])

\* The bin's runs stay marked while nobody else touches them.
LEMMA BinMarkedKept ==
    ASSUME NEW A, NEW B, NEW H, BinRunsMarked(A, H), Alike(A, B, H)
    PROVE  BinRunsMarked(B, H)
  BY DEF BinRunsMarked, Alike

\* RunsMarked holds after a step of one thread.
LEMMA MarkedNext ==
    ASSUME RunsMarked, NEW t \in Threads, \A u \in Threads \ {t} : th'[u] = th[u],
           Alike(arena, arena', Elsewhere(t)), BinRunsMarked(arena', DOMAIN hdr'),
           Working(t)' => Orderly(arena', th'[t])
    PROVE  RunsMarked'
<1>1. ASSUME NEW u \in Threads \ {t}, Working(u)'
      PROVE  Orderly(arena', th'[u])
  <2>1. Working(u) /\ th'[u] = th[u]
    BY <1>1 DEF Working
  <2>2. Orderly(arena, th[u])
    BY <2>1 DEF RunsMarked
  <2>3. Held(th[u].todo) \subseteq Elsewhere(t)
    BY <2>1 DEF Held, HeldBy, Owners, Elsewhere
  <2> QED BY <2>1, <2>2, <2>3, AlikeOrderly
<1>2. \A u \in Threads : Working(u)' => Orderly(arena', th'[u])
  BY <1>1
<1> QED BY <1>2 DEF RunsMarked, BinRunsMarked, Marked

\* Where a section under arena->lock begins: with the arena A, the thread's work k and the
\* other objects others.
Enters(t, A, k, others) ==
    /\ Ledger(A, {}) /\ A.npurg = arena.npurg /\ Alike(arena, A, Elsewhere(t))
    /\ k \in WorkType /\ k.pc = "work" /\ k.claim = ClaimOf(t) /\ Orderly(A, k) /\ Apart(k.todo)
    /\ others \subseteq ObjectType /\ BinRunsMarked(A, DOMAIN hdr')
    /\ Parted(A, Held(k.todo), LargeRuns(k.ret), LargeRuns(others), DOMAIN hdr', Elsewhere(t))

\* And what it leaves.
Leaves(t, k, others) ==
    /\ ArenaExact' /\ RunsOwned' /\ RunsMarked' /\ ClaimsBalance'
    /\ th' \in [Threads -> Places] /\ live' \subseteq ObjectType
    /\ \A u \in Threads \ {t} : th'[u] = th[u]
    /\ \/ th'[t] = Idle /\ live' = others \union k.ret
       \/ th'[t].pc \in {"unmap", "madvise"} /\ th'[t].ret = k.ret /\ live' = others

LEMMA LargeRunsUnion ==
    ASSUME NEW S, NEW T
    PROVE  LargeRuns(S \union T) = LargeRuns(S) \union LargeRuns(T)
  BY DEF LargeRuns

\* A section that is entered with its runs parted leaves them parted, and its claim balanced.
LEMMA Continues ==
    ASSUME th \in [Threads -> Places], ArenaExact, RunsOwned, RunsMarked, ClaimsBalance,
           NEW t \in Threads, NEW A, NEW k, NEW others, Continue(t, A, k, others), Enters(t, A, k, others)
    PROVE  Leaves(t, k, others)
<1> DEFINE s == [a |-> A, k |-> k]
           H == DOMAIN hdr'
           E == Elsewhere(t)
           L == LargeRuns(others)
           Y == LargeRuns(k.ret)
           F == Y \union L \union H \union E
           d == (A.npurg - k.claim) % Word
           r == Section(s)
           B == r.a
           l == r.k
<1>1. /\ Ledger(A, {}) /\ A.npurg = arena.npurg /\ Alike(arena, A, E)
      /\ k \in WorkType /\ k.pc = "work" /\ k.claim = ClaimOf(t) /\ Orderly(A, k) /\ Apart(k.todo)
      /\ others \subseteq ObjectType /\ BinRunsMarked(A, H) /\ Parted(A, Held(k.todo), Y, L, H, E)
      /\ arena.npurg \in 0 .. Word - 1
  BY DEF Enters, ArenaExact
<1>2. Jobs(A, k.todo, F) /\ H \subseteq F /\ E \subseteq F
  <2>1. k.todo \in Seq(JobType)
    BY <1>1 DEF WorkType
  <2> HIDE DEF H, E, L, Y
  <2> QED BY <1>1, <2>1 DEF Jobs, Parted
<1>3. s \in StepType /\ InSection(A, s, F, k.ret, d)
  <2>1. A \in ArenaType
    BY <1>1 DEF Ledger, Typed, ArenaType
  <2>2. s.a = A /\ s.k = k
    OBVIOUS
  <2>3. Still(A, A, F)
    BY DEF Still
  <2> HIDE DEF F
  <2> QED BY <1>1, <1>2, <2>1, <2>2, <2>3 DEF StepType, InSection
<1> HIDE DEF s, d
<1>4. Ends(A, r, F, k.ret, d)
  <2> HIDE DEF F
  <2> QED BY <1>3, SectionFacts
<1> HIDE DEF r
<1>5. /\ Ledger(B, {}) /\ B.npurg \in 0 .. Word - 1 /\ Jobs(B, l.todo, F) /\ Orderly(B, l)
      /\ l.ret = k.ret /\ (B.npurg - l.claim) % Word = d
      /\ Still(A, B, F) /\ B.unz = A.unz /\ B.touched = A.touched
      /\ l \in WorkType /\ l.pc # "work" /\ l.pc \in {"unmap", "madvise", "return"}
  <2> HIDE DEF F
  <2> QED BY <1>4 DEF Ends, InSection, StepType, WorkType
<1>6. /\ arena' = B /\ th' = [th EXCEPT ![t] = IF l.pc = "return" THEN Idle ELSE l]
      /\ live' = others \union (IF l.pc = "return" THEN l.ret ELSE {})
  BY DEF Continue, Left, Goto, r, s
<1> HIDE DEF B, l
<1>7. Alike(arena, B, E) /\ BinRunsMarked(B, H)
  <2>1. Alike(A, B, F)
    BY <1>5, StillAlike
  <2>2. Alike(A, B, H)
    BY <1>2, <2>1 DEF Alike
  <2> HIDE DEF F, H, E
  <2> QED BY <1>1, <1>2, <2>1, <2>2, AlikeTwice, BinMarkedKept
<1>8. th'[t] = (IF l.pc = "return" THEN Idle ELSE l) /\ \A u \in Threads \ {t} : th'[u] = th[u]
  BY <1>6
<1>9. th' \in [Threads -> Places]
  <2>1. Idle \in Places
    BY DEF Places
  <2>2. l.pc # "return" => l \in Places
    BY <1>5 DEF Places
  <2> HIDE DEF l
  <2> QED BY <1>6, <2>1, <2>2
<1>10. Parted(B, Held(l.todo), Y, L, H, E)
  <2>1. Taken(B) = F \union Held(l.todo) /\ F \cap Held(l.todo) = {}
    BY <1>5 DEF Jobs
  <2> HIDE DEF Y, L, H, E
  <2> QED BY <1>1, <2>1 DEF Parted
<1>11. ArenaExact'
  BY <1>5, <1>6 DEF ArenaExact
<1>12. CASE l.pc = "return"
  <2>1. th'[t] = Idle /\ live' = others \union k.ret /\ l.todo = << >> /\ l.claim = 0
    BY <1>5, <1>6, <1>8, <1>12 DEF Orderly
  <2>2. ~Working(t)' /\ HeldBy(t)' = {} /\ Pending(t)' = {} /\ ClaimOf(t)' = 0
    BY <2>1 DEF Working, HeldBy, Pending, ClaimOf, At, Idle
  <2>3. Held(l.todo) = {} /\ LargeRuns({}) = {} /\ LargeRuns(live') = L \union Y
    BY <2>1, LargeRunsUnion DEF Held, LargeRuns
  <2>4. Parted(arena', HeldBy(t)', LargeRuns(Pending(t)'), LargeRuns(live'), DOMAIN hdr', Elsewhere(t))
    <3>1. Parted(B, {}, {}, L \union Y, H, E)
      <4> HIDE DEF L, Y, H, E
      <4> QED BY <1>10, <2>3 DEF Parted
    <3> QED BY <1>6, <2>2, <2>3, <3>1
  <2>5. RunsOwned'
    BY <1>8, <2>2, <2>4, OwnedNext
  <2>6. RunsMarked'
    BY <1>6, <1>7, <1>8, <2>2, MarkedNext
  <2>7. (arena'.npurg - ClaimOf(t)') % Word = (arena.npurg - ClaimOf(t)) % Word
    BY <1>1, <1>5, <1>6, <2>1, <2>2 DEF d
  <2>8. ClaimsBalance'
    BY <1>1, <1>5, <1>6, <1>8, <1>9, <2>7, ClaimsKept
  <2>9. live' \subseteq ObjectType
    BY <1>1, <2>1 DEF WorkType
  <2> QED BY <1>8, <1>9, <1>11, <2>1, <2>5, <2>6, <2>8, <2>9 DEF Leaves
<1>13. CASE l.pc # "return"
  <2>1. th'[t] = l /\ live' = others
    BY <1>6, <1>8, <1>13
  <2>2. Working(t)' /\ HeldBy(t)' = Held(l.todo) /\ Pending(t)' = k.ret /\ ClaimOf(t)' = l.claim
    BY <1>5, <1>13, <2>1 DEF Working, HeldBy, Pending, ClaimOf, Held
  <2>3. Parted(arena', HeldBy(t)', LargeRuns(Pending(t)'), LargeRuns(live'), DOMAIN hdr', Elsewhere(t))
    BY <1>6, <1>10, <2>1, <2>2
  <2>4. Apart(th'[t].todo)
    BY <1>5, <2>1 DEF Jobs
  <2>5. RunsOwned'
    BY <1>8, <2>3, <2>4, OwnedNext
  <2>6. RunsMarked'
    BY <1>5, <1>6, <1>7, <1>8, <2>1, MarkedNext
  <2>7. (arena'.npurg - ClaimOf(t)') % Word = (arena.npurg - ClaimOf(t)) % Word
    BY <1>1, <1>5, <1>6, <2>2 DEF d
  <2>8. ClaimsBalance'
    BY <1>1, <1>5, <1>6, <1>8, <1>9, <2>7, ClaimsKept
  <2> QED BY <1>1, <1>5, <1>8, <1>9, <1>11, <1>13, <2>1, <2>5, <2>6, <2>8 DEF Leaves
<1> QED BY <1>12, <1>13

\* The regions out, mine and rest hold are those in use, each held once.
Placed(h, out, mine, rest) ==
    /\ Used(h) = {o \in out \union mine \union rest : o.reg # None}
    /\ \A o \in out : o.reg # None => o \notin mine \union rest
    /\ \A o \in mine : o.reg # None => o \notin rest
PendingElse(t) == UNION {Pending(u) : u \in Threads \ {t}}

\* RegionsOwned, seen from one thread.
LEMMA PlacedBy ==
    ASSUME RegionsOwned, NEW t \in Threads
    PROVE  Placed(hdr, live, Pending(t), PendingElse(t))
<1> DEFINE P(u) == Pending(u)
           E == UNION {P(u) : u \in Threads \ {t}}
<1>1. /\ Used(hdr) = {o \in live \union UNION {P(u) : u \in Threads} : o.reg # None}
      /\ \A u \in Threads : \A o \in P(u) : o.reg # None => o \notin live
      /\ \A s, u \in Threads : s # u => \A o \in P(s) : o.reg # None => o \notin P(u)
  BY DEF RegionsOwned, Regions
<1> HIDE DEF P
<1>2. UNION {P(u) : u \in Threads} = P(t) \union E
  OBVIOUS
<1>3. \A o \in live : o.reg # None => o \notin P(t) /\ o \notin E
  BY <1>1
<1>4. \A o \in P(t) : o.reg # None => o \notin E
  BY <1>1
<1>5. Used(hdr) = {o \in live \union P(t) \union E : o.reg # None}
  BY <1>1, <1>2
<1>6. Placed(hdr, live, P(t), E)
  <2> HIDE DEF E
  <2> QED BY <1>3, <1>4, <1>5 DEF Placed
<1> QED BY <1>6 DEF PendingElse, P

\* RegionsOwned holds after a step of one thread.
LEMMA PlacedNext ==
    ASSUME RegionsOwned, NEW t \in Threads, \A u \in Threads \ {t} : th'[u] = th[u],
           Placed(hdr', live', Pending(t)', PendingElse(t))
    PROVE  RegionsOwned'
<1> DEFINE P(u) == Pending(u)
           N(u) == Pending(u)'
           E == UNION {P(u) : u \in Threads \ {t}}
<1>1. \A u \in Threads \ {t} : N(u) = P(u)
  BY DEF Pending, Working, At
<1>2. \A s, u \in Threads : s # u => \A o \in P(s) : o.reg # None => o \notin P(u)
  BY DEF RegionsOwned
<1>3. Placed(hdr', live', N(t), E)
  BY DEF PendingElse
<1> HIDE DEF P, N
<1>4. UNION {N(u) : u \in Threads} = N(t) \union E
  BY <1>1
<1>5. /\ Used(hdr') = {o \in live' \union N(t) \union E : o.reg # None}
      /\ \A o \in live' : o.reg # None => o \notin N(t) \union E
      /\ \A o \in N(t) : o.reg # None => o \notin E
  <2> HIDE DEF E
  <2> QED BY <1>3 DEF Placed
<1>6. Used(hdr') = {o \in live' \union UNION {N(u) : u \in Threads} : o.reg # None}
  BY <1>4, <1>5
<1>7. \A u \in Threads : \A o \in N(u) : o.reg # None => o \notin live'
  BY <1>1, <1>5
<1>8. \A s, u \in Threads : s # u => \A o \in N(s) : o.reg # None => o \notin N(u)
  <2> SUFFICES ASSUME NEW s \in Threads, NEW u \in Threads, s # u, NEW o \in N(s), o.reg # None
               PROVE  o \notin N(u)
    OBVIOUS
  <2>1. CASE s = t
    BY <1>1, <1>5, <2>1
  <2>2. CASE u = t
    BY <1>1, <1>5, <2>2
  <2>3. CASE s # t /\ u # t
    BY <1>1, <1>2, <2>3
  <2> QED BY <2>1, <2>2, <2>3
<1> QED BY <1>6, <1>7, <1>8 DEF RegionsOwned, Regions, N

\* The runs on their way between the bin and the arena.
Own(t) == IF th[t].pc \in {"haveRun", "freeRun"} THEN {th[t].run} ELSE {}
TransitElse(t) == UNION {Own(u) : u \in Threads \ {t}}
RunFits(h, b, transit, r) ==
    /\ r \in transit => h[r].free = Regs /\ r \notin b.runs /\ r # b.cur
    /\ r \notin transit =>
          /\ r \in b.runs => r # b.cur /\ Cardinality(h[r].free) \in 1 .. NRegs - 1
          /\ Cardinality(h[r].free) > 0 => r \in b.runs \/ r = b.cur
BinFits(h, b, transit) ==
    /\ b.cur # None => h[b.cur].free # Regs
    /\ \A r \in DOMAIN h : RunFits(h, b, transit, r)
Coming(h, mine, rest) ==
    /\ \A r \in mine : r # None => r \in DOMAIN h /\ r \notin rest
    /\ \A r \in rest : r # None => r \in DOMAIN h

\* BinExact, seen from one thread.
LEMMA FitsBy ==
    ASSUME BinExact, NEW t \in Threads
    PROVE  BinFits(hdr, bin, Own(t) \union TransitElse(t)) /\ Coming(hdr, Own(t), TransitElse(t))
<1> DEFINE E == UNION {Own(u) : u \in Threads \ {t}}
<1>1. InTransit = Own(t) \union E
  BY DEF InTransit, Own
<1>2. BinFits(hdr, bin, InTransit)
  BY DEF BinExact, BinRunsFound, BinFits, RunFits, NFree
<1>3. \A r \in Own(t) : r # None => r \in DOMAIN hdr /\ r \notin E
  BY DEF BinExact, Carrying, Own
<1>4. \A r \in E : r # None => r \in DOMAIN hdr
  BY DEF BinExact, Carrying, Own
<1> QED BY <1>1, <1>2, <1>3, <1>4 DEF Coming, TransitElse

\* BinExact holds after a step of one thread.
LEMMA FitsNext ==
    ASSUME BinExact, NEW t \in Threads, \A u \in Threads \ {t} : th'[u] = th[u],
           BinFits(hdr', bin', Own(t)' \union TransitElse(t)), Coming(hdr', Own(t)', TransitElse(t))
    PROVE  BinExact'
<1> DEFINE E == UNION {Own(u) : u \in Threads \ {t}}
<1>1. \A u \in Threads \ {t} : Own(u)' = Own(u)
  BY DEF Own
<1>2. InTransit' = Own(t)' \union E
  <2>1. InTransit' = UNION {Own(u)' : u \in Threads}
    BY DEF InTransit, Own
  <2> QED BY <1>1, <2>1
<1>3. E = TransitElse(t)
  BY DEF TransitElse
<1>4. BinFits(hdr', bin', InTransit') /\ Coming(hdr', Own(t)', E)
  BY <1>2, <1>3
<1>5. BinRunsFound' /\ (bin'.cur # None => hdr'[bin'.cur].free # Regs)
  BY <1>4 DEF BinRunsFound, BinFits, RunFits, NFree
<1>6. \A u \in Threads : Carrying(u)' => th'[u].run \in DOMAIN hdr' /\ th'[u].run \in Own(u)'
  <2> TAKE u \in Threads
  <2> HAVE Carrying(u)'
  <2>1. th'[u].run \in Own(u)' /\ th'[u].run # None
    BY DEF Carrying, Own
  <2>2. CASE u = t
    BY <1>4, <2>1, <2>2 DEF Coming
  <2>3. CASE u # t
    <3>1. th'[u].run \in E
      BY <1>1, <2>1, <2>3
    <3> QED BY <1>4, <2>1, <3>1 DEF Coming
  <2> QED BY <2>2, <2>3
<1>7. \A s, u \in Threads : Carrying(s)' /\ Carrying(u)' /\ th'[s].run = th'[u].run => s = u
  <2> SUFFICES ASSUME NEW s \in Threads, NEW u \in Threads, Carrying(s)', Carrying(u)',
                      th'[s].run = th'[u].run, s # u
               PROVE  FALSE
    OBVIOUS
  <2>1. th'[s].run # None /\ th'[s].run \in Own(s)' /\ th'[u].run \in Own(u)'
    BY <1>6 DEF Carrying
  <2>2. CASE s = t
    <3>1. th'[u].run \in E
      BY <1>1, <2>1, <2>2
    <3> QED BY <1>4, <2>1, <2>2, <3>1 DEF Coming
  <2>3. CASE u = t
    <3>1. th'[s].run \in E
      BY <1>1, <2>1, <2>3
    <3> QED BY <1>4, <2>1, <2>3, <3>1 DEF Coming
  <2>4. CASE s # t /\ u # t
    <3>1. Carrying(s) /\ Carrying(u) /\ th[s].run = th[u].run
      BY <2>4 DEF Carrying
    <3> QED BY <3>1 DEF BinExact
  <2> QED BY <2>2, <2>3, <2>4
<1> QED BY <1>5, <1>6, <1>7 DEF BinExact
-----------------------------------------------------------------------------
(* The regions of a run.                                                   *)

\* Free regions are finitely many, and the lowest is one of them.
LEMMA FreeFacts ==
    ASSUME NEW S \in SUBSET Regs
    PROVE  /\ Cardinality(S) \in Nat /\ Cardinality(S) <= NRegs /\ IsFiniteSet(S)
           /\ Cardinality(S) = 0 <=> S = {}
           /\ Cardinality(S) = NRegs <=> S = Regs
           /\ \A g \in S : Cardinality(S \ {g}) = Cardinality(S) - 1
           /\ \A g \in Regs \ S : Cardinality(S \union {g}) = Cardinality(S) + 1
<1>0. NRegs \in Nat /\ NRegs >= 1
  BY ArenaAssumption
<1>1. IsFiniteSet(Regs) /\ Cardinality(Regs) = NRegs
  <2>1. Cardinality(0 .. NRegs - 1) = NRegs /\ IsFiniteSet(0 .. NRegs - 1)
    BY <1>0, FS_Interval
  <2> QED BY <2>1 DEF Regs
<1>2. IsFiniteSet(S) /\ Cardinality(S) \in Nat /\ Cardinality(S) <= NRegs
  BY <1>1, FS_Subset, FS_CardinalityType
<1>3. Cardinality(S) = NRegs => S = Regs
  BY <1>1, FS_Subset
<1>4. Cardinality(S) = 0 <=> S = {}
  BY <1>2, FS_EmptySet
<1>5. \A g \in S : Cardinality(S \ {g}) = Cardinality(S) - 1
  BY <1>2, FS_RemoveElement
<1>6. \A g \in Regs \ S : Cardinality(S \union {g}) = Cardinality(S) + 1
  BY <1>2, FS_AddElement
<1> QED BY <1>1, <1>2, <1>3, <1>4, <1>5, <1>6

\* A region in use.
LEMMA UsedFacts ==
    ASSUME NEW h, NEW o
    PROVE  o \in Used(h) <=> /\ o \in ObjectType /\ o.reg # None /\ <<o.c, o.p>> \in DOMAIN h
                             /\ o.reg \notin h[<<o.c, o.p>>].free
  BY DEF Used

\* An object is where it lies.
LEMMA ObjectFacts ==
    /\ \A o \in ObjectType : /\ o = Object(o.c, o.p, o.reg) /\ o.c \in Chunks /\ o.p \in Pages
                             /\ o.reg \in Regs \union {None} /\ <<o.c, o.p>> \in Spots
    /\ \A c \in Chunks, p \in Pages, g \in Regs \union {None} :
          Object(c, p, g) \in ObjectType /\ Object(c, p, g).c = c /\ Object(c, p, g).p = p /\ Object(c, p, g).reg = g
    /\ None \notin Regs /\ None \notin Spots
<1>1. None \notin Regs /\ None \notin Spots
  BY ArenaAssumption DEF Spots
<1> QED BY <1>1 DEF ObjectType, Object, Spots

\* A region of the run r is handed out.
HandsOut(r, h) ==
    /\ h \in [DOMAIN h -> Headers] /\ DOMAIN h = DOMAIN hdr
    /\ \A s \in DOMAIN hdr \ {r} : h[s] = hdr[s]
    /\ h[r].free # Regs /\ Cardinality(h[r].free) = NFree(r) - 1
    /\ Used(h) = Used(hdr) \union {RegObject(r)} /\ RegObject(r) \notin Used(hdr)
    /\ RegObject(r) \in ObjectType /\ RegObject(r).reg # None

\* arena_run_reg_alloc hands out a free region.
LEMMA RegAllocFacts ==
    ASSUME hdr \in [DOMAIN hdr -> Headers], DOMAIN hdr \subseteq Spots,
           NEW r \in DOMAIN hdr, hdr[r].free # {}
    PROVE  HandsOut(r, RegAlloc(r))
<1> DEFINE S == hdr[r].free
           g == Min(S)
           h == RegAlloc(r)
           o == RegObject(r)
<1>0. NRegs \in Nat \ {0} /\ Regs = 0 .. NRegs - 1
  BY ArenaAssumption DEF Regs
<1>1. S \in SUBSET Regs /\ hdr[r].nextind \in 0 .. NRegs /\ r \in Spots
  BY DEF Headers
<1>2. g \in S
  <2>1. S \subseteq Nat /\ S # {}
    BY <1>0, <1>1
  <2>2. \E m \in S : \A n \in S : m <= n
    BY <2>1, LeastOf
  <2>3. g = CHOOSE m \in S : \A n \in S : m <= n
    BY DEF Min
  <2> HIDE DEF S, g
  <2> QED BY <2>2, <2>3
<1>3. g \in Regs /\ g \in Nat /\ g + 1 \in 0 .. NRegs
  BY <1>0, <1>1, <1>2
<1> DEFINE n == IF g = hdr[r].nextind THEN g + 1 ELSE hdr[r].nextind
           x == [free |-> S \ {g}, nextind |-> n]
<1>4. h = [hdr EXCEPT ![r] = x]
  BY DEF RegAlloc
<1>5. n \in 0 .. NRegs
  BY <1>1, <1>3
<1> HIDE DEF g, n, h
<1>6. x \in Headers /\ x.free = S \ {g}
  BY <1>1, <1>5 DEF Headers
<1> HIDE DEF x
<1>7. /\ DOMAIN h = DOMAIN hdr /\ h[r] = x /\ \A s \in DOMAIN hdr \ {r} : h[s] = hdr[s]
      /\ h \in [DOMAIN h -> Headers]
  BY <1>4, <1>6
<1>8. h[r].free = S \ {g} /\ h[r].free # Regs
  BY <1>3, <1>6, <1>7
<1>9. Cardinality(h[r].free) = NFree(r) - 1
  <2> HIDE DEF S
  <2>1. Cardinality(S \ {g}) = Cardinality(S) - 1
    BY <1>1, <1>2, FreeFacts
  <2> QED BY <1>8, <2>1 DEF NFree, S
<1>10. o = Object(r[1], r[2], g) /\ r[1] \in Chunks /\ r[2] \in Pages /\ r = <<r[1], r[2]>>
  BY <1>1 DEF RegObject, g, Spots
<1>11. o \in ObjectType /\ o.c = r[1] /\ o.p = r[2] /\ o.reg = g /\ o.reg # None
  <2> HIDE DEF o
  <2> QED BY <1>3, <1>10, ObjectFacts
<1>12. o \notin Used(hdr)
  BY <1>2, <1>10, <1>11, UsedFacts
<1>13. ASSUME NEW y
       PROVE  y \in Used(h) <=> y \in Used(hdr) \/ y = o
  <2>1. CASE y \in ObjectType /\ <<y.c, y.p>> = r
    <3>1. y = o <=> y.reg = g
      BY <1>10, <1>11, <2>1, ObjectFacts
    <3> QED BY <1>2, <1>7, <1>8, <1>11, <2>1, <3>1, UsedFacts
  <2>2. CASE y \in ObjectType /\ <<y.c, y.p>> # r
    <3>1. y # o
      BY <1>10, <1>11, <2>2
    <3> QED BY <1>7, <2>2, <3>1, UsedFacts
  <2>3. CASE y \notin ObjectType
    BY <1>11, <2>3, UsedFacts
  <2> QED BY <2>1, <2>2, <2>3
<1>14. Used(h) = Used(hdr) \union {o}
  BY <1>13
<1> QED BY <1>7, <1>8, <1>9, <1>11, <1>12, <1>14 DEF HandsOut, h
-----------------------------------------------------------------------------
(* The steps under bin->lock.                                              *)

\* No runs but those of the program's large objects are of these.
NoLarge(S) == \A o \in S : o.reg # None

\* Thread t has changed the bin, and the arena is as it was.
BinMoves(t) ==
    /\ arena' = arena /\ th' \in [Threads -> Places] /\ \A u \in Threads \ {t} : th'[u] = th[u]
    /\ ~Working(t) /\ ~Working(t)' /\ NoLarge(Pending(t)) /\ NoLarge(Pending(t)')
    /\ DOMAIN hdr' = DOMAIN hdr /\ hdr' \in [DOMAIN hdr -> Headers]
    /\ bin' \in [cur : DOMAIN hdr \union {None}, runs : SUBSET DOMAIN hdr]
    /\ live' \subseteq ObjectType /\ LargeRuns(live') = LargeRuns(live)
    /\ Placed(hdr', live', Pending(t)', PendingElse(t))
    /\ BinFits(hdr', bin', Own(t)' \union TransitElse(t))
    /\ Coming(hdr', Own(t)', TransitElse(t))

\* A step of the bin keeps the invariant.
LEMMA BinStep ==
    ASSUME IInv, NEW t \in Threads, BinMoves(t)
    PROVE  IInv'
<1>1. /\ arena' = arena /\ th' \in [Threads -> Places] /\ \A u \in Threads \ {t} : th'[u] = th[u]
      /\ DOMAIN hdr' = DOMAIN hdr /\ LargeRuns(live') = LargeRuns(live)
  BY DEF BinMoves
<1>2. StateTypes'
  BY <1>1 DEF BinMoves, IInv, StateTypes
<1>3. ArenaExact'
  BY <1>1 DEF IInv, ArenaExact
<1>4. RunsOwned'
  <2>1. LargeRuns(Pending(t)) = {} /\ LargeRuns(Pending(t)') = {} /\ HeldBy(t) = {} /\ HeldBy(t)' = {}
    BY DEF BinMoves, NoLarge, LargeRuns, HeldBy
  <2>2. Parted(arena, HeldBy(t), LargeRuns(Pending(t)), LargeRuns(live), DOMAIN hdr, Elsewhere(t))
    BY OwnedBy DEF IInv
  <2>3. Parted(arena', HeldBy(t)', LargeRuns(Pending(t)'), LargeRuns(live'), DOMAIN hdr', Elsewhere(t))
    BY <1>1, <2>1, <2>2
  <2>4. ~Working(t)'
    BY DEF BinMoves
  <2> QED BY <1>1, <2>3, <2>4, OwnedNext DEF IInv
<1>5. RunsMarked'
  <2>1. Alike(arena, arena', Elsewhere(t))
    BY <1>1 DEF Alike
  <2>2. BinRunsMarked(arena', DOMAIN hdr')
    BY <1>1 DEF IInv, RunsMarked, BinRunsMarked
  <2>3. ~Working(t)'
    BY DEF BinMoves
  <2> QED BY <1>1, <2>1, <2>2, <2>3, MarkedNext DEF IInv
<1>6. RegionsOwned'
  BY <1>1, PlacedNext DEF IInv, BinMoves
<1>7. BinExact'
  BY <1>1, FitsNext DEF IInv, BinMoves
<1>8. ClaimsBalance'
  <2>1. ClaimOf(t) = 0 /\ ClaimOf(t)' = 0
    BY DEF BinMoves, ClaimOf
  <2>2. (arena'.npurg - ClaimOf(t)') % Word = (arena.npurg - ClaimOf(t)) % Word
    BY <1>1, <2>1
  <2> QED BY <1>1, <1>3, <2>2, ClaimsKept DEF IInv, StateTypes, ArenaExact
<1> QED BY <1>2, <1>3, <1>4, <1>5, <1>6, <1>7, <1>8 DEF IInv

\* Regions are no large runs.
LEMMA LargeRunsSame ==
    ASSUME NEW S, NEW T, NoLarge(T)
    PROVE  LargeRuns(S \union T) = LargeRuns(S) /\ LargeRuns(S \ T) = LargeRuns(S) /\ LargeRuns(T) = {}
  BY DEF LargeRuns, NoLarge

\* The run r gives a region and is runcur.
LEMMA FitsCur ==
    ASSUME hdr \in [DOMAIN hdr -> Headers], NEW r \in DOMAIN hdr, NEW h, HandsOut(r, h),
           NEW T, NEW S, BinFits(hdr, bin, T), r \notin S,
           \A x \in DOMAIN hdr \ {r} : x \in S <=> x \in T,
           bin.cur = r \/ bin.cur = None \/ NFree(bin.cur) = 0, None \notin DOMAIN hdr,
           NEW b, b.cur = r, b.runs = bin.runs \ {r}
    PROVE  BinFits(h, b, S)
<1>1. DOMAIN h = DOMAIN hdr /\ h[r].free # Regs /\ \A x \in DOMAIN hdr \ {r} : h[x] = hdr[x]
  BY DEF HandsOut
<1>2. ASSUME NEW x \in DOMAIN hdr \ {r}
      PROVE  RunFits(h, b, S, x)
  <2>0. RunFits(hdr, bin, T, x)
    BY DEF BinFits
  <2>1. CASE x \in S
    BY <1>1, <2>0, <2>1 DEF RunFits
  <2>2. CASE x \notin S
    <3>1. x \in bin.runs => Cardinality(h[x].free) \in 1 .. NRegs - 1
      BY <1>1, <2>0, <2>2 DEF RunFits
    <3>2. Cardinality(h[x].free) > 0 => x \in bin.runs \/ x = bin.cur
      BY <1>1, <2>0, <2>2 DEF RunFits
    <3>3. x = bin.cur => Cardinality(h[x].free) = 0
      BY <1>1 DEF NFree
    <3>4. Cardinality(h[x].free) > 0 => x \in bin.runs
      BY <3>2, <3>3
    <3> QED BY <2>2, <3>1, <3>4 DEF RunFits
  <2> QED BY <2>1, <2>2
<1>3. RunFits(h, b, S, r)
  BY DEF RunFits
<1> QED BY <1>1, <1>2, <1>3 DEF BinFits

BinType(D) == [cur : D \union {None}, runs : SUBSET D]

\* All runs but r are where they should be, and r is nowhere.
FitsBut(h, b, T, r) ==
    /\ b.cur # None => /\ h[b.cur].free # Regs /\ b.cur \notin T /\ b.cur \notin b.runs
                       /\ Cardinality(h[b.cur].free) \in 0 .. NRegs - 1
    /\ \A x \in DOMAIN h \ {r} : RunFits(h, b, T, x)
    /\ b \in BinType(DOMAIN h) /\ None \notin DOMAIN h
    /\ r \in DOMAIN h /\ r \notin T /\ r # b.cur /\ r \notin b.runs

\* The run r, found with free regions, goes back to the bin.
LEMMA LowerFits ==
    ASSUME NEW h, NEW b, NEW r, NEW T, NEW n, FitsBut(h, b, T, r),
           h[r].free # Regs, Cardinality(h[r].free) \in 1 .. NRegs - 1,
           b.cur # None => n = Cardinality(h[b.cur].free)
    PROVE  BinFits(h, LowerRun(b, r, n), T) /\ LowerRun(b, r, n) \in BinType(DOMAIN h)
<1> DEFINE l == LowerRun(b, r, n)
<1>0. r # None /\ b.cur \in DOMAIN h \union {None} /\ b.runs \in SUBSET DOMAIN h
      /\ b = [cur |-> b.cur, runs |-> b.runs]
  BY DEF FitsBut, BinType
<1>1. CASE b.cur # None /\ Below(r, b.cur)
  <2>1. l = [cur |-> r, runs |-> IF n > 0 THEN b.runs \union {b.cur} ELSE b.runs]
    BY <1>1 DEF LowerRun
  <2>2. l.cur = r /\ l.runs = (IF n > 0 THEN b.runs \union {b.cur} ELSE b.runs)
    BY <2>1
  <2>3. l \in BinType(DOMAIN h)
    BY <1>0, <1>1, <2>1 DEF FitsBut, BinType
  <2> HIDE DEF l
  <2>4. ASSUME NEW x \in DOMAIN h \ {r}
        PROVE  RunFits(h, l, T, x)
    <3>0. RunFits(h, b, T, x)
      BY DEF FitsBut
    <3>1. CASE x = b.cur
      <4>1. x \notin T /\ Cardinality(h[x].free) = n /\ Cardinality(h[x].free) \in 0 .. NRegs - 1
        BY <1>1, <3>1 DEF FitsBut
      <4>2. x \in l.runs <=> n > 0
        BY <1>1, <2>2, <3>1 DEF FitsBut
      <4> QED BY <2>2, <4>1, <4>2 DEF RunFits
    <3>2. CASE x # b.cur
      <4>1. x \in l.runs <=> x \in b.runs
        BY <2>2, <3>2
      <4> QED BY <2>2, <3>0, <3>2, <4>1 DEF RunFits
    <3> QED BY <3>1, <3>2
  <2>5. RunFits(h, l, T, r)
    <3>1. r \notin l.runs
      BY <2>2 DEF FitsBut
    <3> QED BY <2>2, <3>1 DEF RunFits, FitsBut
  <2>6. BinFits(h, l, T)
    BY <2>2, <2>4, <2>5 DEF BinFits
  <2> QED BY <2>3, <2>6 DEF l
<1>2. CASE ~ (b.cur # None /\ Below(r, b.cur))
  <2>1. l = [cur |-> b.cur, runs |-> b.runs \union {r}]
    BY <1>0, <1>2 DEF LowerRun
  <2>2. l.cur = b.cur /\ l.runs = b.runs \union {r}
    BY <2>1
  <2>3. l \in BinType(DOMAIN h)
    BY <1>0, <2>1 DEF FitsBut, BinType
  <2> HIDE DEF l
  <2>4. \A x \in DOMAIN h \ {r} : RunFits(h, l, T, x)
    <3> TAKE x \in DOMAIN h \ {r}
    <3>0. RunFits(h, b, T, x)
      BY DEF FitsBut
    <3>1. x \in l.runs <=> x \in b.runs
      BY <2>2
    <3> QED BY <2>2, <3>0, <3>1 DEF RunFits
  <2>5. RunFits(h, l, T, r)
    BY <2>2 DEF RunFits, FitsBut
  <2>6. BinFits(h, l, T)
    BY <2>2, <2>4, <2>5 DEF BinFits, FitsBut
  <2> QED BY <2>3, <2>6 DEF l
<1> QED BY <1>1, <1>2

\* The region of r handed out is a new object, of the program or on its way to it.
LEMMA GivesFacts ==
    ASSUME NEW r, NEW h, HandsOut(r, h), NEW out, NEW mine, mine = {}, NEW rest, Placed(hdr, out, mine, rest),
           NEW one, one = {RegObject(r)}, out \subseteq ObjectType
    PROVE  /\ Placed(h, out \union one, mine, rest) /\ Placed(h, out, one, rest)
           /\ LargeRuns(out \union one) = LargeRuns(out) /\ NoLarge(one) /\ one \subseteq ObjectType
           /\ out \union one \subseteq ObjectType
<1> DEFINE o == RegObject(r)
<1>1. /\ Used(h) = Used(hdr) \union {o} /\ o \notin Used(hdr)
      /\ o \in ObjectType /\ o.reg # None
  BY DEF HandsOut
<1> HIDE DEF o
<1>2. one = {o}
  BY DEF o
<1>3. Used(hdr) = {x \in out \union rest : x.reg # None} /\ \A x \in out : x.reg # None => x \notin rest
  BY DEF Placed
<1>4. o \notin out /\ o \notin rest
  BY <1>1, <1>3
<1>5. Placed(h, out \union one, mine, rest) /\ Placed(h, out, one, rest)
  BY <1>1, <1>2, <1>3, <1>4 DEF Placed
<1>6. NoLarge(one) /\ one \subseteq ObjectType
  BY <1>1, <1>2 DEF NoLarge
<1> QED BY <1>5, <1>6, LargeRunsSame

\* A thread that holds neither runs nor objects, seen in the invariant.
LEMMA AloneFacts ==
    ASSUME IInv, NEW t \in Threads
    PROVE  /\ th \in [Threads -> Places] /\ live \subseteq ObjectType /\ DOMAIN hdr \subseteq Spots
           /\ hdr \in [DOMAIN hdr -> Headers] /\ bin \in BinType(DOMAIN hdr) /\ None \notin DOMAIN hdr
           /\ th[t].pc = "idle" => /\ ~Working(t) /\ Pending(t) = {} /\ Own(t) = {}
                                   /\ Placed(hdr, live, {}, PendingElse(t))
                                   /\ BinFits(hdr, bin, TransitElse(t))
           /\ th[t].pc = "haveRun" => /\ ~Working(t) /\ Pending(t) = {} /\ Own(t) = {th[t].run}
                                      /\ Placed(hdr, live, {}, PendingElse(t))
                                      /\ BinFits(hdr, bin, {th[t].run} \union TransitElse(t))
           /\ Coming(hdr, Own(t), TransitElse(t))
<1>1. /\ th \in [Threads -> Places] /\ live \subseteq ObjectType /\ DOMAIN hdr \subseteq Spots
      /\ hdr \in [DOMAIN hdr -> Headers] /\ bin \in BinType(DOMAIN hdr)
  BY DEF IInv, StateTypes, BinType
<1>2. None \notin DOMAIN hdr
  BY <1>1, ObjectFacts
<1>3. /\ Placed(hdr, live, Pending(t), PendingElse(t)) /\ BinFits(hdr, bin, Own(t) \union TransitElse(t))
      /\ Coming(hdr, Own(t), TransitElse(t))
  BY PlacedBy, FitsBy DEF IInv
<1>4. th[t].pc = "idle" => ~Working(t) /\ Pending(t) = {} /\ Own(t) = {}
  BY DEF Working, Pending, Own, At
<1>5. th[t].pc = "haveRun" => ~Working(t) /\ Pending(t) = {} /\ Own(t) = {th[t].run}
  BY DEF Working, Pending, Own, At
<1>6. {} \union TransitElse(t) = TransitElse(t)
  OBVIOUS
<1> QED BY <1>1, <1>2, <1>3, <1>4, <1>5, <1>6

\* arena_malloc_small keeps the invariant, whichever run it takes the region from.
LEMMA MallocSmallKeeps ==
    ASSUME IInv, NEW t \in Threads, MallocSmall(t)
    PROVE  IInv'
<1> DEFINE T == TransitElse(t)
           R == PendingElse(t)
           r == IF bin.cur # None /\ NFree(bin.cur) > 0 THEN bin.cur ELSE First(bin.runs)
           o == RegObject(r)
           E == {}
           one == {o}
<1>1. /\ th \in [Threads -> Places] /\ live \subseteq ObjectType /\ DOMAIN hdr \subseteq Spots
      /\ hdr \in [DOMAIN hdr -> Headers] /\ bin \in BinType(DOMAIN hdr) /\ None \notin DOMAIN hdr
      /\ th[t].pc = "idle" /\ ~Working(t) /\ Pending(t) = E /\ Own(t) = E
      /\ Placed(hdr, live, E, R) /\ BinFits(hdr, bin, T) /\ Coming(hdr, E, T) /\ arena' = arena
  BY AloneFacts DEF MallocSmall, At
<1>2. bin.cur \in DOMAIN hdr \union {None} /\ bin.runs \subseteq DOMAIN hdr
      /\ bin = [cur |-> bin.cur, runs |-> bin.runs]
  BY <1>1 DEF BinType
<1>3. \A x \in DOMAIN hdr : RunFits(hdr, bin, T, x) /\ IsFiniteSet(hdr[x].free) /\ NFree(x) \in Nat
                            /\ (NFree(x) = 0 <=> hdr[x].free = E)
  <2> TAKE x \in DOMAIN hdr
  <2>1. hdr[x].free \in SUBSET Regs
    BY <1>1 DEF Headers
  <2> QED BY <1>1, <2>1, FreeFacts DEF BinFits, NFree
<1> HIDE DEF T, R, E
<1>4. CASE (bin.cur # None /\ NFree(bin.cur) > 0) \/ bin.runs # {}
  <2>1. r \in DOMAIN hdr /\ ((r = bin.cur /\ NFree(r) > 0) \/ (r \in bin.runs /\ ~ (bin.cur # None /\ NFree(bin.cur) > 0)))
        /\ bin'.cur = r /\ bin'.runs = bin.runs \ {r} /\ bin' \in BinType(DOMAIN hdr)
        /\ hdr' = RegAlloc(r) /\ live' = live \union one /\ th' = th
    <3>1. CASE bin.cur # None /\ NFree(bin.cur) > 0
      <4>1. r = bin.cur /\ r \in DOMAIN hdr /\ NFree(r) > 0 /\ RunFits(hdr, bin, T, r)
        BY <1>2, <1>3, <3>1
      <4>2. r \notin bin.runs
        BY <4>1 DEF RunFits
      <4>3. hdr' = RegAlloc(r) /\ live' = live \union one /\ bin' = bin /\ th' = th
        BY <3>1, <4>1 DEF MallocSmall
      <4>4. bin'.cur = r /\ bin'.runs = bin.runs \ {r} /\ bin' \in BinType(DOMAIN hdr)
        BY <1>1, <4>1, <4>2, <4>3
      <4> HIDE DEF r, one
      <4> QED BY <4>1, <4>3, <4>4
    <3>2. CASE ~ (bin.cur # None /\ NFree(bin.cur) > 0) /\ bin.runs # {}
      <4>1. r = First(bin.runs) /\ r \in bin.runs
        BY <1>1, <1>2, <3>2, FirstFacts
      <4>2. /\ hdr' = RegAlloc(r) /\ live' = live \union one /\ th' = th
            /\ bin' = [cur |-> r, runs |-> bin.runs \ {r}]
        BY <3>2, <4>1 DEF MallocSmall
      <4> HIDE DEF r, one
      <4> QED BY <1>2, <3>2, <4>1, <4>2 DEF BinType
    <3> QED BY <1>4, <3>1, <3>2
  <2>2. r \notin T /\ hdr[r].free # E
    <3>0. RunFits(hdr, bin, T, r)
      BY <1>3, <2>1
    <3>1. RunFits(hdr, bin, T, r) /\ (r = bin.cur => NFree(r) > 0)
      BY <2>1, <3>0 DEF RunFits
    <3>2. r \in bin.runs => NFree(r) > 0
      BY <3>1, ArenaAssumption DEF RunFits, NFree
    <3>3. r \notin T
      BY <2>1, <3>1 DEF RunFits
    <3> QED BY <1>3, <2>1, <3>1, <3>2, <3>3
  <2>3. bin.cur = r \/ bin.cur = None \/ NFree(bin.cur) = 0
    BY <1>2, <1>3, <2>1
  <2> HIDE DEF r
  <2>4. HandsOut(r, hdr')
    BY <1>1, <2>1, <2>2, RegAllocFacts DEF E
  <2>5. BinFits(hdr', bin', T)
    BY <1>1, <2>1, <2>2, <2>3, <2>4, FitsCur
  <2>6. /\ Placed(hdr', live', E, R) /\ LargeRuns(live') = LargeRuns(live) /\ live' \subseteq ObjectType
    <3>1. E = {} /\ one = {RegObject(r)}
      BY DEF E
    <3> HIDE DEF one
    <3>2. Placed(hdr, live, E, R) /\ HandsOut(r, hdr') /\ live \subseteq ObjectType
      BY <1>1, <2>4
    <3>3. /\ Placed(hdr', live \union one, E, R) /\ LargeRuns(live \union one) = LargeRuns(live)
          /\ live \union one \subseteq ObjectType
      BY <3>1, <3>2, GivesFacts
    <3> QED BY <2>1, <3>3
  <2>7. ~Working(t)' /\ Pending(t)' = E /\ Own(t)' = E
    BY <1>1, <2>1 DEF Working, Pending, Own, At
  <2>8. DOMAIN hdr' = DOMAIN hdr /\ hdr' \in [DOMAIN hdr -> Headers]
    BY <2>4 DEF HandsOut
  <2>9. Own(t)' \union T = T /\ Coming(hdr', E, T)
    BY <1>1, <2>7, <2>8 DEF E, Coming
  <2>10. NoLarge(E)
    BY DEF E, NoLarge
  <2>11. BinMoves(t)
    BY <1>1, <2>1, <2>5, <2>6, <2>7, <2>8, <2>9, <2>10 DEF BinMoves, BinType, T, R
  <2> QED BY <2>11, BinStep
<1>5. CASE ~ (bin.cur # None /\ NFree(bin.cur) > 0) /\ bin.runs = {}
  <2>1. bin' = [bin EXCEPT !.cur = None] /\ th' = [th EXCEPT ![t] = [pc |-> "wantRun"]] /\ hdr' = hdr /\ live' = live
    BY <1>5 DEF MallocSmall, Goto
  <2>2. /\ bin'.cur = None /\ bin'.runs = bin.runs /\ bin' \in BinType(DOMAIN hdr)
        /\ th'[t] = [pc |-> "wantRun"] /\ \A u \in Threads \ {t} : th'[u] = th[u]
    BY <1>1, <1>2, <2>1 DEF BinType
  <2>3. th' \in [Threads -> Places]
    BY <1>1, <2>1 DEF Places
  <2>4. ~Working(t)' /\ Pending(t)' = E /\ Own(t)' = E
    BY <2>2 DEF Working, Pending, Own, At, E
  <2>5. BinFits(hdr', bin', T)
    <3>1. ASSUME NEW x \in DOMAIN hdr
          PROVE  RunFits(hdr, bin', T, x)
      <4>1. RunFits(hdr, bin, T, x) /\ (x = bin.cur => NFree(x) = 0)
        BY <1>1, <1>3, <1>5
      <4> QED BY <1>1, <1>5, <2>2, <4>1 DEF RunFits, NFree
    <3> QED BY <2>1, <2>2, <3>1 DEF BinFits
  <2>6. Own(t)' \union T = T /\ NoLarge(E)
    BY <2>4 DEF E, NoLarge
  <2>7. BinMoves(t)
    BY <1>1, <2>1, <2>2, <2>3, <2>4, <2>5, <2>6 DEF BinMoves, BinType, T, R
  <2> QED BY <2>7, BinStep
<1> QED BY <1>4, <1>5

\* A thread that came back to the bin has its region.
LEMMA HasRegion ==
    ASSUME IInv, NEW t \in Threads, th[t].pc = "haveRun", arena' = arena, th' = [th EXCEPT ![t] = Idle],
           NEW r, HandsOut(r, hdr'), live' = live \union {RegObject(r)}, bin' \in BinType(DOMAIN hdr),
           BinFits(hdr', bin', TransitElse(t))
    PROVE  IInv'
<1> DEFINE T == TransitElse(t)
           R == PendingElse(t)
           E == {}
           one == {RegObject(r)}
<1>1. /\ th \in [Threads -> Places] /\ live \subseteq ObjectType /\ ~Working(t) /\ Pending(t) = E
      /\ Placed(hdr, live, E, R) /\ Coming(hdr, Own(t), T)
  BY AloneFacts
<1>2. /\ th'[t] = Idle /\ \A u \in Threads \ {t} : th'[u] = th[u]
      /\ th' \in [Threads -> Places]
  BY <1>1 DEF Places
<1> HIDE DEF T, R, E, one
<1>3. /\ Placed(hdr', live', E, R) /\ LargeRuns(live') = LargeRuns(live) /\ live' \subseteq ObjectType
  <2>1. E = {} /\ one = {RegObject(r)} /\ live' = live \union one
    BY DEF E, one
  <2>2. /\ Placed(hdr', live \union one, E, R) /\ LargeRuns(live \union one) = LargeRuns(live)
        /\ live \union one \subseteq ObjectType
    BY <1>1, <2>1, GivesFacts
  <2> QED BY <2>1, <2>2
<1>4. ~Working(t)' /\ Pending(t)' = E /\ Own(t)' = E
  BY <1>2 DEF Working, Pending, Own, At, E, Idle
<1>5. DOMAIN hdr' = DOMAIN hdr /\ hdr' \in [DOMAIN hdr -> Headers]
  BY DEF HandsOut
<1>6. Own(t)' \union T = T /\ Coming(hdr', E, T) /\ NoLarge(E)
  BY <1>1, <1>4, <1>5 DEF E, Coming, NoLarge
<1>7. BinMoves(t)
  BY <1>1, <1>2, <1>3, <1>4, <1>5, <1>6 DEF BinMoves, BinType, T, R
<1> QED BY <1>7, BinStep

\* So does arena_bin_malloc_hard when it has bin->lock again, whatever other threads have made
\* of runcur: a run that came too late goes back unused, or to the tree.
LEMMA MallocHardKeeps ==
    ASSUME IInv, NEW t \in Threads, MallocHard(t)
    PROVE  IInv'
<1> DEFINE T == TransitElse(t)
           R == PendingElse(t)
           new == th[t].run
           found == IF new = None /\ bin.runs # {} THEN First(bin.runs) ELSE new
           unused == found # None /\ hdr[found].free = Regs
           b == [bin EXCEPT !.runs = @ \ {found}]
           N == {new}
           S == N \union T
           E == {}
<1>1. /\ th \in [Threads -> Places] /\ live \subseteq ObjectType /\ DOMAIN hdr \subseteq Spots
      /\ hdr \in [DOMAIN hdr -> Headers] /\ bin \in BinType(DOMAIN hdr) /\ None \notin DOMAIN hdr
      /\ th[t].pc = "haveRun" /\ ~Working(t) /\ Pending(t) = E /\ Own(t) = N
      /\ Placed(hdr, live, E, R) /\ BinFits(hdr, bin, S) /\ Coming(hdr, N, T) /\ arena' = arena
  BY AloneFacts DEF MallocHard, At
<1>2. bin.cur \in DOMAIN hdr \union {None} /\ bin.runs \subseteq DOMAIN hdr
      /\ bin = [cur |-> bin.cur, runs |-> bin.runs]
  BY <1>1 DEF BinType
<1>3. \A x \in DOMAIN hdr : RunFits(hdr, bin, S, x) /\ NFree(x) \in 0 .. NRegs
                            /\ (NFree(x) = 0 <=> hdr[x].free = E) /\ (NFree(x) = NRegs <=> hdr[x].free = Regs)
  <2> TAKE x \in DOMAIN hdr
  <2>1. hdr[x].free \in SUBSET Regs /\ NRegs \in Nat
    BY <1>1, ArenaAssumption DEF Headers
  <2>2. RunFits(hdr, bin, S, x)
    BY <1>1 DEF BinFits
  <2> DEFINE y == hdr[x].free
  <2> HIDE DEF y
  <2>3. /\ Cardinality(y) \in Nat /\ Cardinality(y) <= NRegs /\ (Cardinality(y) = 0 <=> y = {})
        /\ (Cardinality(y) = NRegs <=> y = Regs)
    BY <2>1, FreeFacts DEF y
  <2> QED BY <2>1, <2>2, <2>3 DEF NFree, y
<1>4. new # None => new \in DOMAIN hdr /\ new \notin T
  BY <1>1 DEF Coming
<1>5. \A x \in DOMAIN hdr : x # new => (x \in S <=> x \in T)
  OBVIOUS
<1>6. new \in S /\ NRegs \in Nat \ {0}
  BY ArenaAssumption
<1>7. /\ \/ RuncurSet /\ unused /\ hdr' = RegAlloc(bin.cur) /\ bin' = b
            /\ th' = [th EXCEPT ![t] = [pc |-> "freeRun", run |-> found, ret |-> {RegObject(bin.cur)}]]
            /\ live' = live
         \/ RuncurSet /\ ~unused /\ hdr' = RegAlloc(bin.cur)
            /\ bin' = (IF found = None THEN b ELSE LowerRun(b, found, Cardinality(hdr'[b.cur].free)))
            /\ live' = live \union {RegObject(bin.cur)} /\ th' = [th EXCEPT ![t] = Idle]
         \/ ~RuncurSet /\ found # None /\ bin' = [b EXCEPT !.cur = found] /\ hdr' = RegAlloc(found)
            /\ live' = live \union {RegObject(found)} /\ th' = [th EXCEPT ![t] = Idle]
         \/ ~RuncurSet /\ found = None /\ th' = [th EXCEPT ![t] = Idle]
            /\ bin' = bin /\ hdr' = hdr /\ live' = live
  BY DEF MallocHard, Goto
<1> HIDE DEF T, R, E, S, N, new
<1>8. /\ found # None => /\ found \in DOMAIN hdr /\ found \notin T /\ found # bin.cur
                         /\ NFree(found) > 0 /\ hdr[found].free # E
                         /\ (found = new /\ unused /\ found \notin bin.runs) \/ (new = None /\ ~unused /\ NFree(found) < NRegs)
      /\ found = None => new = None /\ bin.runs = {}
  <2>1. CASE new # None
    <3>1. found = new /\ RunFits(hdr, bin, S, new)
      BY <1>3, <1>4, <2>1
    <3>2. hdr[new].free = Regs /\ new \notin bin.runs /\ new # bin.cur
      BY <1>6, <3>1 DEF RunFits
    <3>3. NFree(new) = NRegs
      BY <1>3, <1>4, <2>1, <3>2
    <3> QED BY <1>3, <1>4, <1>6, <2>1, <3>1, <3>2, <3>3
  <2>2. CASE new = None /\ bin.runs # {}
    <3>1. found = First(bin.runs)
      BY <2>2
    <3> HIDE DEF found
    <3>2. found \in bin.runs /\ found \in DOMAIN hdr
      BY <1>1, <1>2, <2>2, <3>1, FirstFacts
    <3>3. RunFits(hdr, bin, S, found) /\ found # None
      BY <1>1, <1>3, <3>2
    <3>4. found \notin S /\ found # bin.cur /\ NFree(found) \in 1 .. NRegs - 1
      BY <3>2, <3>3 DEF RunFits, NFree
    <3>5. found \notin T
      BY <1>5, <2>2, <3>2, <3>3, <3>4
    <3>6. hdr[found].free # Regs /\ hdr[found].free # E /\ NFree(found) > 0 /\ NFree(found) < NRegs
      BY <1>3, <1>6, <3>2, <3>4
    <3> QED BY <2>2, <3>2, <3>3, <3>4, <3>5, <3>6
  <2>3. CASE new = None /\ bin.runs = {}
    BY <2>3
  <2> QED BY <2>1, <2>2, <2>3
<1>9. b = [cur |-> bin.cur, runs |-> bin.runs \ {found}] /\ b.cur = bin.cur /\ b.runs = bin.runs \ {found}
      /\ b \in BinType(DOMAIN hdr)
  <2> HIDE DEF found
  <2> QED BY <1>2 DEF BinType
<1> HIDE DEF found, b
<1>10. ASSUME RuncurSet, hdr' = RegAlloc(bin.cur)
       PROVE  /\ HandsOut(bin.cur, hdr') /\ bin.cur \in DOMAIN hdr /\ bin.cur \notin S
              /\ bin.cur \notin bin.runs /\ Cardinality(hdr'[bin.cur].free) \in 0 .. NRegs - 1
  <2>1. bin.cur # None /\ NFree(bin.cur) > 0 /\ bin.cur \in DOMAIN hdr
    BY <1>2, <1>10 DEF RuncurSet
  <2>2. RunFits(hdr, bin, S, bin.cur) /\ hdr[bin.cur].free # E
    BY <1>3, <2>1
  <2>3. HandsOut(bin.cur, hdr')
    BY <1>1, <1>10, <2>1, <2>2, RegAllocFacts DEF E
  <2>4. Cardinality(hdr'[bin.cur].free) = NFree(bin.cur) - 1
    BY <2>3 DEF HandsOut
  <2> QED BY <1>3, <1>6, <2>1, <2>2, <2>3, <2>4 DEF RunFits
<1>11. CASE RuncurSet /\ unused /\ hdr' = RegAlloc(bin.cur) /\ bin' = b
            /\ th' = [th EXCEPT ![t] = [pc |-> "freeRun", run |-> found, ret |-> {RegObject(bin.cur)}]]
            /\ live' = live
  <2> DEFINE one == {RegObject(bin.cur)}
  <2>1. HandsOut(bin.cur, hdr') /\ bin.cur \in DOMAIN hdr /\ bin.cur \notin S /\ bin.cur \notin bin.runs
    BY <1>10, <1>11
  <2>2. found # None /\ found = new /\ found \notin bin.runs /\ found \in Spots
    BY <1>1, <1>8, <1>11
  <2>3. bin'.cur = bin.cur /\ bin'.runs = bin.runs \ {bin.cur}
    BY <1>9, <1>11, <2>1, <2>2
  <2>4. BinFits(hdr', bin', S)
    BY <1>1, <2>1, <2>3, FitsCur
  <2>5. /\ Placed(hdr', live, one, R) /\ NoLarge(one) /\ one \subseteq ObjectType
    <3>1. E = {} /\ one = {RegObject(bin.cur)}
      BY DEF E
    <3> HIDE DEF one
    <3>2. Placed(hdr, live, E, R) /\ HandsOut(bin.cur, hdr') /\ live \subseteq ObjectType
      BY <1>1, <2>1
    <3> QED BY <3>1, <3>2, GivesFacts
  <2>6. DOMAIN hdr' = DOMAIN hdr /\ hdr' \in [DOMAIN hdr -> Headers]
    BY <2>1 DEF HandsOut
  <2>7. /\ th'[t] = [pc |-> "freeRun", run |-> found, ret |-> one]
        /\ \A u \in Threads \ {t} : th'[u] = th[u] /\ th' \in [Threads -> Places]
        /\ th' \in [Threads -> Places]
    <3>1. [pc |-> "freeRun", run |-> found, ret |-> one] \in Places
      BY <2>2, <2>5 DEF Places
    <3> HIDE DEF one
    <3> QED BY <1>1, <1>11, <3>1 DEF one
  <2> HIDE DEF one
  <2>8. ~Working(t)' /\ Pending(t)' = one /\ Own(t)' = N
    BY <2>2, <2>7 DEF Working, Pending, Own, At, N
  <2>9. Own(t)' \union T = S /\ Coming(hdr', N, T) /\ NoLarge(E)
    BY <1>1, <2>6, <2>8 DEF S, Coming, NoLarge, E
  <2>10. BinMoves(t)
    BY <1>1, <1>9, <1>11, <2>4, <2>5, <2>6, <2>7, <2>8, <2>9 DEF BinMoves, BinType, T, R
  <2> QED BY <2>10, BinStep
<1>12. CASE RuncurSet /\ ~unused /\ hdr' = RegAlloc(bin.cur)
            /\ bin' = (IF found = None THEN b ELSE LowerRun(b, found, Cardinality(hdr'[b.cur].free)))
            /\ live' = live \union {RegObject(bin.cur)} /\ th' = [th EXCEPT ![t] = Idle]
  <2>1. /\ HandsOut(bin.cur, hdr') /\ bin.cur \in DOMAIN hdr /\ bin.cur \notin S /\ bin.cur \notin bin.runs
        /\ Cardinality(hdr'[bin.cur].free) \in 0 .. NRegs - 1
    BY <1>10, <1>12
  <2>2. new = None /\ \A x \in DOMAIN hdr : x \in T <=> x \in S
    BY <1>1, <1>5, <1>8, <1>12
  <2>3. BinFits(hdr', bin, T)
    <3>1. bin.runs = bin.runs \ {bin.cur} /\ bin.cur \notin T /\ bin.cur = bin.cur
      BY <2>1, <2>2
    <3> QED BY <1>1, <2>1, <2>2, <3>1, FitsCur
  <2>4. DOMAIN hdr' = DOMAIN hdr /\ \A x \in DOMAIN hdr \ {bin.cur} : hdr'[x] = hdr[x]
    BY <2>1 DEF HandsOut
  <2>5. BinFits(hdr', bin', T) /\ bin' \in BinType(DOMAIN hdr)
    <3>1. CASE found = None
      <4>1. bin' = b /\ b = bin
        BY <1>2, <1>8, <1>9, <1>12, <3>1
      <4> QED BY <1>1, <2>3, <4>1
    <3>2. CASE found # None
      <4>1. /\ found \in DOMAIN hdr /\ found \notin T /\ found # bin.cur
            /\ NFree(found) > 0 /\ NFree(found) < NRegs
        BY <1>8, <1>12, <3>2
      <4>2. hdr'[found].free # Regs /\ Cardinality(hdr'[found].free) \in 1 .. NRegs - 1
        <5>1. hdr'[found] = hdr[found]
          BY <2>4, <4>1
        <5> QED BY <1>3, <1>6, <4>1, <5>1 DEF NFree
      <4>3. \A x \in DOMAIN hdr' \ {found} : RunFits(hdr', b, T, x)
        <5> TAKE x \in DOMAIN hdr' \ {found}
        <5>1. RunFits(hdr', bin, T, x)
          BY <2>3 DEF BinFits
        <5> QED BY <1>9, <5>1 DEF RunFits
      <4>4. FitsBut(hdr', b, T, found)
        <5>1. hdr'[b.cur].free # Regs /\ b.cur \notin T /\ b.cur \notin b.runs
              /\ Cardinality(hdr'[b.cur].free) \in 0 .. NRegs - 1
          BY <1>9, <2>1, <2>2 DEF HandsOut
        <5>2. b \in BinType(DOMAIN hdr') /\ None \notin DOMAIN hdr' /\ found \in DOMAIN hdr' /\ found \notin T
              /\ found # b.cur /\ found \notin b.runs
          BY <1>1, <1>9, <2>4, <4>1
        <5> QED BY <4>3, <5>1, <5>2 DEF FitsBut
      <4> DEFINE n == Cardinality(hdr'[b.cur].free)
      <4>5. bin' = LowerRun(b, found, n)
        BY <1>12, <3>2
      <4>6. b.cur # None => n = Cardinality(hdr'[b.cur].free)
        OBVIOUS
      <4> HIDE DEF n
      <4>7. BinFits(hdr', LowerRun(b, found, n), T) /\ LowerRun(b, found, n) \in BinType(DOMAIN hdr')
        BY <4>2, <4>4, <4>6, LowerFits
      <4> QED BY <2>4, <4>5, <4>7
    <3> QED BY <3>1, <3>2
  <2> QED BY <1>1, <1>12, <2>1, <2>5, HasRegion DEF T
<1>13. CASE ~RuncurSet /\ found # None /\ bin' = [b EXCEPT !.cur = found] /\ hdr' = RegAlloc(found)
            /\ live' = live \union {RegObject(found)} /\ th' = [th EXCEPT ![t] = Idle]
  <2>1. /\ found \in DOMAIN hdr /\ found \notin T /\ found # bin.cur /\ hdr[found].free # E
        /\ found = new \/ new = None
    BY <1>8, <1>13
  <2>2. HandsOut(found, hdr')
    BY <1>1, <1>13, <2>1, RegAllocFacts DEF E
  <2>3. bin' = [cur |-> found, runs |-> bin.runs \ {found}]
    BY <1>9, <1>13
  <2>4. bin'.cur = found /\ bin'.runs = bin.runs \ {found} /\ bin' \in BinType(DOMAIN hdr)
    BY <1>2, <2>1, <2>3 DEF BinType
  <2>5. bin.cur = None \/ NFree(bin.cur) = 0
    BY <1>2, <1>3, <1>13 DEF RuncurSet
  <2>6. \A x \in DOMAIN hdr \ {found} : x \in T <=> x \in S
    BY <1>1, <1>5, <2>1
  <2>7. BinFits(hdr', bin', T)
    BY <1>1, <2>1, <2>2, <2>4, <2>5, <2>6, FitsCur
  <2> QED BY <1>1, <1>13, <2>2, <2>4, <2>7, HasRegion DEF T
<1>14. CASE ~RuncurSet /\ found = None /\ th' = [th EXCEPT ![t] = Idle]
            /\ bin' = bin /\ hdr' = hdr /\ live' = live
  <2>1. new = None
    BY <1>8, <1>14
  <2>2. /\ th'[t] = Idle /\ \A u \in Threads \ {t} : th'[u] = th[u] /\ th' \in [Threads -> Places]
        /\ th' \in [Threads -> Places]
    BY <1>1, <1>14 DEF Places
  <2>3. ~Working(t)' /\ Pending(t)' = E /\ Own(t)' = E
    BY <2>2 DEF Working, Pending, Own, At, E, Idle
  <2>4. BinFits(hdr, bin, T)
    <3>1. \A x \in DOMAIN hdr : RunFits(hdr, bin, T, x)
      <4> TAKE x \in DOMAIN hdr
      <4>1. RunFits(hdr, bin, S, x) /\ (x \in S <=> x \in T)
        BY <1>1, <1>3, <1>5, <2>1
      <4> QED BY <4>1 DEF RunFits
    <3> QED BY <1>1, <3>1 DEF BinFits
  <2>5. Own(t)' \union T = T /\ Coming(hdr', E, T) /\ NoLarge(E)
    BY <1>1, <1>14, <2>3 DEF Coming, NoLarge, E
  <2>6. BinMoves(t)
    BY <1>1, <1>14, <2>2, <2>3, <2>4, <2>5 DEF BinMoves, BinType, T, R
  <2> QED BY <2>6, BinStep
<1> QED BY <1>7, <1>11, <1>12, <1>13, <1>14

\* A region of the run r comes back.
TakesBack(r, o, h) ==
    /\ h \in [DOMAIN h -> Headers] /\ DOMAIN h = DOMAIN hdr
    /\ \A s \in DOMAIN hdr \ {r} : h[s] = hdr[s]
    /\ Cardinality(h[r].free) = NFree(r) + 1 /\ NFree(r) \in 0 .. NRegs - 1
    /\ Used(h) = Used(hdr) \ {o}

\* A region goes back to its run.
LEMMA TakeBackFacts ==
    ASSUME hdr \in [DOMAIN hdr -> Headers], NEW o \in Used(hdr), NEW r, r = <<o.c, o.p>>
    PROVE  TakesBack(r, o, [hdr EXCEPT ![r].free = @ \union {o.reg}])
<1> DEFINE S == hdr[r].free
           g == o.reg
           x == [free |-> S \union {g}, nextind |-> hdr[r].nextind]
           h == [hdr EXCEPT ![r].free = @ \union {o.reg}]
<1>1. o \in ObjectType /\ g # None /\ r \in DOMAIN hdr /\ g \notin S
  BY UsedFacts
<1>2. S \in SUBSET Regs /\ hdr[r].nextind \in 0 .. NRegs /\ g \in Regs
      /\ hdr[r] = [free |-> S, nextind |-> hdr[r].nextind]
  BY <1>1, ObjectFacts DEF Headers
<1>3. h = [hdr EXCEPT ![r] = x]
  <2> DEFINE y == [hdr[r] EXCEPT !.free = S \union {g}]
  <2>1. h = [hdr EXCEPT ![r] = y]
    OBVIOUS
  <2>2. y = x
    <3> DEFINE i == hdr[r].nextind
               z == S \union {g}
    <3>1. hdr[r] = [free |-> S, nextind |-> i]
      BY <1>2
    <3> HIDE DEF i, S, z
    <3>2. [hdr[r] EXCEPT !.free = z] = [free |-> z, nextind |-> i]
      BY <3>1
    <3> QED BY <3>2 DEF z, i
  <2> HIDE DEF y, h, x
  <2> QED BY <2>1, <2>2
<1> HIDE DEF h
<1>4. x \in Headers /\ x.free = S \union {g}
  BY <1>2 DEF Headers
<1> HIDE DEF x
<1>5. /\ DOMAIN h = DOMAIN hdr /\ h[r] = x /\ \A s \in DOMAIN hdr \ {r} : h[s] = hdr[s]
      /\ h \in [DOMAIN h -> Headers]
  BY <1>1, <1>3, <1>4
<1>6. Cardinality(h[r].free) = NFree(r) + 1 /\ NFree(r) \in 0 .. NRegs - 1
  <2>1. NFree(r) = Cardinality(S) /\ h[r].free = S \union {g}
    BY <1>4, <1>5 DEF NFree
  <2> HIDE DEF S, g
  <2>2. Cardinality(S) \in Nat /\ Cardinality(S) <= NRegs /\ (Cardinality(S) = NRegs => S = Regs)
        /\ Cardinality(S \union {g}) = Cardinality(S) + 1 /\ NRegs \in Nat
    BY <1>1, <1>2, FreeFacts, ArenaAssumption
  <2>3. Cardinality(S) # NRegs
    BY <1>1, <1>2, <2>2
  <2> QED BY <2>1, <2>2, <2>3
<1>7. ASSUME NEW y
      PROVE  y \in Used(h) <=> y \in Used(hdr) /\ y # o
  <2>1. CASE y \in ObjectType /\ <<y.c, y.p>> = r
    <3>1. y = o <=> y.reg = g
      BY <1>1, <2>1, ObjectFacts
    <3> QED BY <1>4, <1>5, <2>1, <3>1, UsedFacts
  <2>2. CASE y \in ObjectType /\ <<y.c, y.p>> # r
    <3>1. y # o
      BY <2>2
    <3> QED BY <1>5, <2>2, <3>1, UsedFacts
  <2>3. CASE y \notin ObjectType
    BY <2>3, UsedFacts
  <2> QED BY <2>1, <2>2, <2>3
<1>8. Used(h) = Used(hdr) \ {o}
  BY <1>7
<1> QED BY <1>5, <1>6, <1>8 DEF TakesBack, h

\* arena_dalloc_bin_locked keeps the invariant: a run that is unused leaves the bin with the
\* thread, one that was full is found again.
LEMMA DallocSmallKeeps ==
    ASSUME IInv, NEW t \in Threads, DallocSmall(t)
    PROVE  IInv'
<1> DEFINE T == TransitElse(t)
           R == PendingElse(t)
           E == {}
<1>1. /\ th \in [Threads -> Places] /\ live \subseteq ObjectType /\ DOMAIN hdr \subseteq Spots
      /\ hdr \in [DOMAIN hdr -> Headers] /\ bin \in BinType(DOMAIN hdr) /\ None \notin DOMAIN hdr
      /\ th[t].pc = "idle" /\ ~Working(t) /\ Pending(t) = E /\ Own(t) = E
      /\ Placed(hdr, live, E, R) /\ BinFits(hdr, bin, T) /\ Coming(hdr, E, T) /\ arena' = arena
  BY AloneFacts DEF DallocSmall, At
<1>2. bin.cur \in DOMAIN hdr \union {None} /\ bin.runs \subseteq DOMAIN hdr
      /\ bin = [cur |-> bin.cur, runs |-> bin.runs]
  BY <1>1 DEF BinType
<1>3. \A x \in DOMAIN hdr : RunFits(hdr, bin, T, x) /\ NFree(x) \in 0 .. NRegs
                            /\ (NFree(x) = NRegs <=> hdr[x].free = Regs)
  <2> TAKE x \in DOMAIN hdr
  <2>1. hdr[x].free \in SUBSET Regs /\ NRegs \in Nat
    BY <1>1, ArenaAssumption DEF Headers
  <2>2. RunFits(hdr, bin, T, x)
    BY <1>1 DEF BinFits
  <2> DEFINE y == hdr[x].free
  <2> HIDE DEF y
  <2>3. /\ Cardinality(y) \in Nat /\ Cardinality(y) <= NRegs
        /\ (Cardinality(y) = NRegs <=> y = Regs)
    BY <2>1, FreeFacts DEF y
  <2> QED BY <2>1, <2>2, <2>3 DEF NFree, y
<1>4. PICK o \in live :
        LET r == <<o.c, o.p>>
        IN /\ o.reg # None
           /\ live' = live \ {o}
           /\ hdr' = [hdr EXCEPT ![r].free = @ \union {o.reg}]
           /\ \/ /\ NFree(r) + 1 = NRegs
                 /\ bin' = Dissociated(bin, r)
                 /\ Goto(t, [pc |-> "freeRun", run |-> r, ret |-> {}])
              \/ /\ NFree(r) + 1 # NRegs
                 /\ bin' = IF NFree(r) = 0 /\ r # bin.cur
                           THEN LowerRun(bin, r, IF bin.cur = None THEN 0 ELSE NFree(bin.cur)) ELSE bin
                 /\ UNCHANGED th
  BY DEF DallocSmall
<1> DEFINE r == <<o.c, o.p>>
           one == {o}
           n == IF bin.cur = None THEN 0 ELSE NFree(bin.cur)
<1>5. o.reg # None /\ live' = live \ one /\ hdr' = [hdr EXCEPT ![r].free = @ \union {o.reg}]
  BY <1>4
<1>6. \/ /\ NFree(r) + 1 = NRegs /\ bin' = Dissociated(bin, r)
         /\ th' = [th EXCEPT ![t] = [pc |-> "freeRun", run |-> r, ret |-> E]]
      \/ /\ NFree(r) + 1 # NRegs /\ th' = th
         /\ bin' = IF NFree(r) = 0 /\ r # bin.cur THEN LowerRun(bin, r, n) ELSE bin
  BY <1>4 DEF Goto
<1> HIDE DEF T, R, E
<1>7. o \in Used(hdr) /\ o \notin R
  BY <1>1, <1>5 DEF Placed
<1>8. r \in DOMAIN hdr /\ r \in Spots /\ hdr[r].free # Regs /\ o \in ObjectType
  BY <1>1, <1>5, <1>7, UsedFacts, ObjectFacts
<1>9. TakesBack(r, o, hdr')
  BY <1>1, <1>5, <1>7, TakeBackFacts
<1> HIDE DEF r, n
<1>10. /\ r \notin T /\ DOMAIN hdr' = DOMAIN hdr /\ \A x \in DOMAIN hdr \ {r} : hdr'[x] = hdr[x]
       /\ Cardinality(hdr'[r].free) = NFree(r) + 1 /\ NFree(r) \in 0 .. NRegs - 1
       /\ hdr' \in [DOMAIN hdr -> Headers] /\ Used(hdr') = Used(hdr) \ one /\ NRegs \in Nat \ {0}
  <2>1. RunFits(hdr, bin, T, r)
    BY <1>3, <1>8
  <2> QED BY <1>8, <1>9, <2>1, ArenaAssumption DEF TakesBack, RunFits
<1>11. Placed(hdr', live', E, R) /\ LargeRuns(live') = LargeRuns(live) /\ live' \subseteq ObjectType
  <2>1. NoLarge(one)
    BY <1>5 DEF NoLarge
  <2>2. LargeRuns(live \ one) = LargeRuns(live)
    BY <2>1, LargeRunsSame
  <2>3. Placed(hdr', live', E, R)
    BY <1>1, <1>5, <1>7, <1>10 DEF Placed, E
  <2> QED BY <1>1, <1>5, <2>2, <2>3
<1>12. hdr'[r].free = Regs <=> NFree(r) + 1 = NRegs
  <2> DEFINE y == hdr'[r].free
  <2>1. y \in SUBSET Regs
    BY <1>8, <1>10 DEF Headers
  <2> HIDE DEF y
  <2>2. Cardinality(y) = NRegs <=> y = Regs
    BY <2>1, FreeFacts
  <2> QED BY <1>10, <2>2 DEF y
<1>13. CASE /\ NFree(r) + 1 = NRegs /\ bin' = Dissociated(bin, r)
            /\ th' = [th EXCEPT ![t] = [pc |-> "freeRun", run |-> r, ret |-> E]]
  <2> DEFINE N == {r}
             S == N \union T
  <2>1. /\ bin'.cur = (IF r = bin.cur THEN None ELSE bin.cur)
        /\ bin'.runs = (IF r = bin.cur THEN bin.runs ELSE bin.runs \ {r})
        /\ bin' \in BinType(DOMAIN hdr)
    <3>1. bin' = [cur |-> IF r = bin.cur THEN None ELSE bin.cur,
                  runs |-> IF r = bin.cur THEN bin.runs ELSE bin.runs \ {r}]
      BY <1>2, <1>13 DEF Dissociated
    <3> QED BY <1>2, <3>1 DEF BinType
  <2>2. \A x \in DOMAIN hdr \ {r} : RunFits(hdr', bin', S, x)
    <3> TAKE x \in DOMAIN hdr \ {r}
    <3>1. RunFits(hdr, bin, T, x) /\ (x \in S <=> x \in T) /\ (x \in bin'.runs <=> x \in bin.runs)
          /\ (x = bin'.cur <=> x = bin.cur) /\ hdr'[x] = hdr[x]
      BY <1>1, <1>3, <1>10, <2>1
    <3> HIDE DEF S
    <3> QED BY <3>1 DEF RunFits
  <2>3. RunFits(hdr', bin', S, r)
    <3>1. RunFits(hdr, bin, T, r)
      BY <1>3, <1>8
    <3>2. r \notin bin'.runs /\ r # bin'.cur
      BY <1>1, <1>8, <1>10, <2>1, <3>1 DEF RunFits
    <3>3. r \in S /\ hdr'[r].free = Regs
      BY <1>12, <1>13
    <3> HIDE DEF S
    <3> QED BY <3>2, <3>3 DEF RunFits
  <2>4. bin'.cur # None => hdr'[bin'.cur].free # Regs
    <3>1. bin'.cur # None => bin'.cur = bin.cur /\ bin.cur # r /\ bin.cur \in DOMAIN hdr
      BY <1>2, <2>1
    <3> QED BY <1>1, <1>10, <3>1 DEF BinFits
  <2> HIDE DEF S, N
  <2>5. BinFits(hdr', bin', S)
    BY <1>10, <2>2, <2>3, <2>4 DEF BinFits
  <2>6. /\ th'[t] = [pc |-> "freeRun", run |-> r, ret |-> E]
        /\ \A u \in Threads \ {t} : th'[u] = th[u] /\ th' \in [Threads -> Places]
        /\ th' \in [Threads -> Places]
    <3>1. [pc |-> "freeRun", run |-> r, ret |-> E] \in Places
      BY <1>8 DEF Places, E
    <3> QED BY <1>1, <1>13, <3>1
  <2>7. ~Working(t)' /\ Pending(t)' = E /\ Own(t)' = N
    BY <2>6 DEF Working, Pending, Own, At, N
  <2>8. Own(t)' \union T = S /\ Coming(hdr', N, T) /\ NoLarge(E)
    BY <1>1, <1>8, <1>10, <2>7 DEF S, N, Coming, NoLarge, E
  <2>9. BinMoves(t)
    BY <1>1, <1>10, <1>11, <2>1, <2>5, <2>6, <2>7, <2>8 DEF BinMoves, BinType, T, R
  <2> QED BY <2>9, BinStep
<1>14. CASE /\ NFree(r) + 1 # NRegs /\ th' = th
            /\ bin' = IF NFree(r) = 0 /\ r # bin.cur THEN LowerRun(bin, r, n) ELSE bin
  <2>1. BinFits(hdr', bin', T) /\ bin' \in BinType(DOMAIN hdr)
    <3>1. CASE NFree(r) = 0 /\ r # bin.cur
      <4>1. RunFits(hdr, bin, T, r)
        BY <1>3, <1>8
      <4>2. r \notin bin.runs
        BY <1>10, <3>1, <4>1 DEF RunFits, NFree
      <4>3. hdr'[r].free # Regs /\ Cardinality(hdr'[r].free) \in 1 .. NRegs - 1
        BY <1>10, <1>12, <1>14, <3>1
      <4>4. \A x \in DOMAIN hdr' \ {r} : RunFits(hdr', bin, T, x)
        <5> TAKE x \in DOMAIN hdr' \ {r}
        <5>1. RunFits(hdr, bin, T, x) /\ hdr'[x] = hdr[x]
          BY <1>3, <1>10
        <5> QED BY <5>1 DEF RunFits
      <4>5. bin.cur # None => /\ hdr'[bin.cur] = hdr[bin.cur] /\ hdr[bin.cur].free # Regs /\ bin.cur \in DOMAIN hdr
                              /\ NFree(bin.cur) \in 0 .. NRegs - 1 /\ bin.cur \notin T /\ bin.cur \notin bin.runs
        <5> HAVE bin.cur # None
        <5>1. bin.cur \in DOMAIN hdr /\ hdr[bin.cur].free # Regs
          BY <1>1, <1>2 DEF BinFits
        <5>2. RunFits(hdr, bin, T, bin.cur) /\ NFree(bin.cur) \in 0 .. NRegs /\ NFree(bin.cur) # NRegs
          BY <1>3, <5>1
        <5> QED BY <1>10, <3>1, <5>1, <5>2 DEF RunFits
      <4>6. FitsBut(hdr', bin, T, r)
        BY <1>1, <1>8, <1>10, <3>1, <4>2, <4>4, <4>5 DEF FitsBut, NFree
      <4>7. bin.cur # None => n = Cardinality(hdr'[bin.cur].free)
        BY <4>5 DEF n, NFree
      <4>8. BinFits(hdr', LowerRun(bin, r, n), T) /\ LowerRun(bin, r, n) \in BinType(DOMAIN hdr')
        BY <4>3, <4>6, <4>7, LowerFits
      <4> QED BY <1>10, <1>14, <3>1, <4>8
    <3>2. CASE ~ (NFree(r) = 0 /\ r # bin.cur)
      <4>1. bin' = bin
        BY <1>14, <3>2
      <4>2. \A x \in DOMAIN hdr \ {r} : RunFits(hdr', bin, T, x)
        <5> TAKE x \in DOMAIN hdr \ {r}
        <5>1. RunFits(hdr, bin, T, x) /\ hdr'[x] = hdr[x]
          BY <1>3, <1>10
        <5> QED BY <5>1 DEF RunFits
      <4>3. RunFits(hdr', bin, T, r)
        <5>1. RunFits(hdr, bin, T, r)
          BY <1>3, <1>8
        <5>2. Cardinality(hdr'[r].free) \in 1 .. NRegs - 1
          BY <1>10, <1>14
        <5>3. NFree(r) > 0 \/ r = bin.cur
          BY <1>10, <3>2
        <5> QED BY <1>10, <5>1, <5>2, <5>3 DEF RunFits, NFree
      <4>4. bin.cur # None => hdr'[bin.cur].free # Regs
        <5>1. bin.cur # r => bin.cur = None \/ hdr'[bin.cur] = hdr[bin.cur]
          BY <1>2, <1>10
        <5> QED BY <1>1, <1>12, <1>14, <5>1 DEF BinFits
      <4> QED BY <1>1, <1>10, <4>1, <4>2, <4>3, <4>4 DEF BinFits
    <3> QED BY <3>1, <3>2
  <2>2. ~Working(t)' /\ Pending(t)' = E /\ Own(t)' = E /\ th' \in [Threads -> Places]
    BY <1>1, <1>14 DEF Working, Pending, Own, At, E
  <2>3. Own(t)' \union T = T /\ Coming(hdr', E, T) /\ NoLarge(E)
    BY <1>1, <1>10, <2>2 DEF Coming, NoLarge, E
  <2>4. BinMoves(t)
    BY <1>1, <1>10, <1>11, <1>14, <2>1, <2>2, <2>3 DEF BinMoves, BinType, T, R
  <2> QED BY <2>4, BinStep
<1> QED BY <1>6, <1>13, <1>14
-----------------------------------------------------------------------------
(* The sections under arena->lock.                                         *)

\* What the bin is when the thread t has left, with ret to return and others the objects of the program.
BinStays(t, ret, others) ==
    /\ DOMAIN hdr' \subseteq Spots /\ hdr' \in [DOMAIN hdr' -> Headers] /\ bin' \in BinType(DOMAIN hdr')
    /\ Placed(hdr', others, ret, PendingElse(t)) /\ BinFits(hdr', bin', TransitElse(t))
    /\ \A r \in TransitElse(t) : r # None => r \in DOMAIN hdr'

\* A section under arena->lock keeps the invariant.
LEMMA SectionKeeps ==
    ASSUME IInv, NEW t \in Threads, NEW k, NEW others, Leaves(t, k, others), BinStays(t, k.ret, others)
    PROVE  IInv'
<1> DEFINE T == TransitElse(t)
           R == PendingElse(t)
           E == {}
<1>1. /\ ArenaExact' /\ RunsOwned' /\ RunsMarked' /\ ClaimsBalance'
      /\ th' \in [Threads -> Places] /\ live' \subseteq ObjectType
      /\ \A u \in Threads \ {t} : th'[u] = th[u]
  BY DEF Leaves
<1>2. StateTypes'
  BY <1>1 DEF StateTypes, BinStays, BinType
<1>3. Own(t)' = E
  BY DEF Leaves, Own, Idle
<1>4. Placed(hdr', live', Pending(t)', R)
  <2>1. CASE th'[t] = Idle /\ live' = others \union k.ret
    <3>1. Pending(t)' = E
      BY <2>1 DEF Pending, Working, At, Idle
    <3>2. Placed(hdr', others \union k.ret, E, R)
      BY DEF BinStays, Placed, E
    <3> QED BY <2>1, <3>1, <3>2
  <2>2. CASE th'[t].pc \in {"unmap", "madvise"} /\ th'[t].ret = k.ret /\ live' = others
    <3>1. Pending(t)' = k.ret
      BY <2>2 DEF Pending, Working
    <3> QED BY <2>2, <3>1 DEF BinStays
  <2> QED BY <2>1, <2>2 DEF Leaves
<1>5. RegionsOwned'
  BY <1>1, <1>4, PlacedNext DEF IInv
<1>6. BinExact'
  <2>1. BinFits(hdr', bin', E \union T) /\ Coming(hdr', E, T)
    BY DEF BinStays, Coming
  <2> HIDE DEF E, T
  <2> QED BY <1>1, <1>3, <2>1, FitsNext DEF IInv, T
<1> QED BY <1>1, <1>2, <1>5, <1>6 DEF IInv

\* Jobs that may be done in the arena A.
Ready(A, todo) ==
    /\ todo \in Seq(JobType) /\ Apart(todo)
    /\ \A i \in DOMAIN todo : JobMarked(A, todo[i]) /\ (todo[i].cleaned => ~todo[i].dirty)

\* The fields of a job.
LEMMA JobFacts ==
    ASSUME NEW c \in Chunks, NEW p \in Pages, NEW dirty \in BOOLEAN
    PROVE  LET j == Job(c, p, dirty, FALSE)
           IN j \in JobType /\ j.c = c /\ j.p = p /\ j.dirty = dirty /\ j.cleaned = FALSE
  BY DEF Job, JobType

\* Work with no job, with one, and with two.
LEMMA ReadyNone ==
    ASSUME NEW A
    PROVE  Ready(A, << >>) /\ Held(<< >>) = {}
<1> DEFINE s == << >>
<1>1. DOMAIN s = {} /\ s \in Seq(JobType)
  OBVIOUS
<1> HIDE DEF s
<1>2. Ready(A, s) /\ Held(s) = {}
  BY <1>1 DEF Ready, Held, Apart
<1> QED BY <1>2 DEF s

LEMMA ReadyOne ==
    ASSUME NEW A, NEW j \in JobType, JobMarked(A, j), j.cleaned = FALSE
    PROVE  Ready(A, <<j>>) /\ Held(<<j>>) = {<<j.c, j.p>>}
<1> DEFINE s == <<j>>
<1>1. s \in Seq(JobType) /\ DOMAIN s = 1 .. 1 /\ s[1] = j
  OBVIOUS
<1> HIDE DEF s
<1>2. \A i \in DOMAIN s : i = 1
  BY <1>1
<1>3. 1 \in DOMAIN s
  BY <1>1
<1>4. Ready(A, s) /\ Held(s) = {<<j.c, j.p>>}
  BY <1>1, <1>2, <1>3 DEF Ready, Held, Apart
<1> QED BY <1>4 DEF s

LEMMA ReadyTwo ==
    ASSUME NEW A, NEW i \in JobType, NEW j \in JobType, JobMarked(A, i), JobMarked(A, j),
           i.cleaned = FALSE, j.cleaned = FALSE, <<i.c, i.p>> # <<j.c, j.p>>
    PROVE  Ready(A, <<i>> \o <<j>>) /\ Held(<<i>> \o <<j>>) = {<<i.c, i.p>>, <<j.c, j.p>>}
<1> DEFINE s == <<i>> \o <<j>>
<1>1. <<i>> \in Seq(JobType) /\ <<j>> \in Seq(JobType) /\ Len(<<i>>) = 1 /\ Len(<<j>>) = 1
      /\ <<i>>[1] = i /\ <<j>>[1] = j
  OBVIOUS
<1>2. s \in Seq(JobType) /\ DOMAIN s = 1 .. 2 /\ s[1] = i /\ s[2] = j
  BY <1>1, ConcatProperties
<1> HIDE DEF s
<1>3. 1 \in DOMAIN s /\ 2 \in DOMAIN s /\ \A n \in DOMAIN s : n = 1 \/ n = 2
  BY <1>2
<1>4. Apart(s) /\ Held(s) = {<<i.c, i.p>>, <<j.c, j.p>>}
  BY <1>2, <1>3 DEF Held, Apart
<1>5. Ready(A, s)
  BY <1>2, <1>3, <1>4 DEF Ready
<1> QED BY <1>4, <1>5 DEF s

\* A section that begins with nothing claimed.
LEMMA WorkKeeps ==
    ASSUME IInv, NEW t \in Threads, ~Working(t), NEW A, NEW todo, NEW ret, NEW others,
           Ledger(A, {}), A.npurg = arena.npurg, Alike(arena, A, Elsewhere(t)), Ready(A, todo),
           ret \subseteq ObjectType, others \subseteq ObjectType, BinRunsMarked(A, DOMAIN hdr'),
           Parted(A, Held(todo), LargeRuns(ret), LargeRuns(others), DOMAIN hdr', Elsewhere(t)),
           Continue(t, A, Work(todo, ret), others), BinStays(t, ret, others)
    PROVE  IInv'
<1> DEFINE k == Work(todo, ret)
<1>1. /\ k.pc = "work" /\ k.todo = todo /\ k.check = FALSE /\ k.claim = 0 /\ k.back = 0
      /\ k.chunk = None /\ k.ret = ret
  BY DEF Work
<1>2. k \in WorkType
  <2>1. todo \in Seq(JobType) /\ 0 \in 0 .. Word - 1
    BY ArenaAssumption DEF Ready
  <2> QED BY <2>1 DEF Work, WorkType
<1> HIDE DEF k
<1>3. Orderly(A, k)
  BY <1>1 DEF Ready, Orderly
<1>4. Enters(t, A, k, others)
  BY <1>1, <1>2, <1>3 DEF Enters, Ready, ClaimOf
<1>5. Leaves(t, k, others)
  BY <1>4, Continues DEF IInv, StateTypes, k
<1> QED BY <1>1, <1>5, SectionKeeps

\* A large object leaves the program.
LEMMA LargeRunsMinus ==
    ASSUME NEW S \in SUBSET ObjectType, NEW o \in S, o.reg = None
    PROVE  /\ LargeRuns(S \ {o}) = LargeRuns(S) \ {<<o.c, o.p>>} /\ <<o.c, o.p>> \in LargeRuns(S)
           /\ LargeRuns({o}) = {<<o.c, o.p>>} /\ LargeRuns({}) = {}
<1>1. \A x \in S : x.reg = None /\ <<x.c, x.p>> = <<o.c, o.p>> => x = o
  BY ObjectFacts
<1> QED BY <1>1 DEF LargeRuns

\* The runs of the bin bear the marks.
LEMMA BinMarkedBy ==
    ASSUME IInv
    PROVE  BinRunsMarked(arena, DOMAIN hdr)
  BY DEF IInv, RunsMarked, BinRunsMarked

\* A thread with nothing in hand takes the large object o from the program.
TakesLarge(t, o) ==
    /\ o \in ObjectType /\ o.c \in Chunks /\ o.p \in Pages /\ <<o.c, o.p>> \in Taken(arena)
    /\ Parted(arena, {<<o.c, o.p>>}, {}, LargeRuns(live \ {o}), DOMAIN hdr, Elsewhere(t))
    /\ LargeRuns({o}) = {<<o.c, o.p>>} /\ LargeRuns({}) = {} /\ live \ {o} \subseteq ObjectType
    /\ Placed(hdr, live \ {o}, {}, PendingElse(t)) /\ Placed(hdr, live \ {o}, {o}, PendingElse(t))

\* A thread takes a large object from the program.
LEMMA TakeLargeFacts ==
    ASSUME IInv, NEW t \in Threads, th[t].pc = "idle", NEW o \in live, o.reg = None
    PROVE  TakesLarge(t, o)
<1> DEFINE T == TransitElse(t)
           R == PendingElse(t)
           L == LargeRuns(live)
           M == LargeRuns(live \ {o})
           H == DOMAIN hdr
           E == Elsewhere(t)
           X == {<<o.c, o.p>>}
           N == {}
           rest == live \ {o}
           one == {o}
<1>1. live \subseteq ObjectType /\ ~Working(t) /\ Pending(t) = N /\ Placed(hdr, live, N, R)
  BY AloneFacts
<1>2. Parted(arena, HeldBy(t), LargeRuns(Pending(t)), L, H, E)
  BY OwnedBy DEF IInv
<1>3. HeldBy(t) = N
  BY <1>1 DEF HeldBy
<1>4. M = L \ X /\ <<o.c, o.p>> \in L /\ LargeRuns(one) = X /\ LargeRuns(N) = N
  BY <1>1, LargeRunsMinus
<1> HIDE DEF L, M, H, E
<1>5. Parted(arena, X, N, M, H, E) /\ <<o.c, o.p>> \in Taken(arena)
  BY <1>1, <1>2, <1>3, <1>4 DEF Parted
<1>6. o \in ObjectType /\ o.c \in Chunks /\ o.p \in Pages /\ rest \subseteq ObjectType
  BY <1>1, ObjectFacts
<1>7. Placed(hdr, rest, N, R) /\ Placed(hdr, rest, one, R)
  BY <1>1 DEF Placed
<1> QED BY <1>4, <1>5, <1>6, <1>7 DEF TakesLarge, M, H, E

\* The headers and the tree are as they were.
LEMMA BinAsBefore ==
    ASSUME IInv, NEW t \in Threads, th[t].pc \in {"idle", "wantRun", "chunk", "unmap", "madvise"},
           bin' = bin, hdr' = hdr, NEW ret, NEW others, Placed(hdr, others, ret, PendingElse(t))
    PROVE  BinStays(t, ret, others)
<1> DEFINE T == TransitElse(t)
           E == {}
<1>1. BinFits(hdr, bin, Own(t) \union T) /\ Coming(hdr, Own(t), T)
  BY FitsBy DEF IInv
<1>2. Own(t) = E
  BY DEF Own
<1>3. Own(t) \union T = T
  BY <1>2
<1> HIDE DEF T
<1>4. BinFits(hdr, bin, T) /\ \A r \in T : r # None => r \in DOMAIN hdr
  BY <1>1, <1>3 DEF Coming
<1> QED BY <1>4 DEF BinStays, IInv, StateTypes, BinType, T

\* arena_dalloc_large keeps the invariant.
LEMMA DallocLargeKeeps ==
    ASSUME IInv, NEW t \in Threads, DallocLarge(t)
    PROVE  IInv'
<1> DEFINE E == Elsewhere(t)
           H == DOMAIN hdr
<1>1. PICK o \in Large : Continue(t, Touch(arena, o.c, Extent(o.p, Size(o))),
                                  Work(<<Job(o.c, o.p, TRUE, FALSE)>>, {}), live \ {o})
  BY DEF DallocLarge
<1> DEFINE A == Touch(arena, o.c, Extent(o.p, Size(o)))
           j == Job(o.c, o.p, TRUE, FALSE)
           todo == <<j>>
           N == {}
           rest == live \ {o}
           X == {<<o.c, o.p>>}
           M == LargeRuns(rest)
<1>2. th[t].pc = "idle" /\ bin' = bin /\ hdr' = hdr /\ o \in live /\ o.reg = None /\ ~Working(t)
  BY DEF DallocLarge, At, Large, Working
<1>3. TakesLarge(t, o) /\ Ledger(arena, {})
  BY <1>2, TakeLargeFacts DEF IInv, ArenaExact
<1>4. /\ o.c \in Chunks /\ o.p \in Pages /\ <<o.c, o.p>> \in Taken(arena) /\ Parted(arena, X, N, M, H, E)
      /\ LargeRuns(N) = N /\ rest \subseteq ObjectType /\ Placed(hdr, rest, N, PendingElse(t))
  BY <1>3 DEF TakesLarge
<1>5. Writes(arena, A, o.c, o.p)
  BY <1>3, <1>4, TouchWrites DEF Size
<1> HIDE DEF A, N, rest, X, M, E, H
<1>6. /\ Ledger(A, {}) /\ Taken(A) = Taken(arena) /\ A.npurg = arena.npurg
      /\ Alike(arena, A, Taken(arena) \ X)
  BY <1>5 DEF Writes, X
<1>7. Alike(arena, A, E) /\ Alike(arena, A, H) /\ Parted(A, X, N, M, H, E)
  <2>1. E \subseteq Taken(arena) \ X /\ H \subseteq Taken(arena) \ X
    BY <1>4 DEF Parted
  <2> QED BY <1>4, <1>6, <2>1 DEF Alike, Parted
<1>8. BinRunsMarked(A, DOMAIN hdr')
  BY <1>2, <1>7, BinMarkedBy, BinMarkedKept DEF H
<1>9. Ready(A, todo) /\ Held(todo) = X
  <2>1. j \in JobType /\ j.c = o.c /\ j.p = o.p /\ j.dirty = TRUE /\ j.cleaned = FALSE
    BY <1>4, JobFacts
  <2> HIDE DEF j
  <2>2. JobMarked(A, j)
    BY <2>1 DEF JobMarked, FreesDirty
  <2> QED BY <2>1, <2>2, ReadyOne DEF X
<1>10. BinStays(t, N, rest)
  BY <1>2, <1>4, BinAsBefore
<1>11. Continue(t, A, Work(todo, N), rest)
  BY <1>1 DEF A, N, rest
<1>12. N \subseteq ObjectType /\ LargeRuns(N) = N
  BY <1>4 DEF N
<1> HIDE DEF todo
<1>13. Parted(A, Held(todo), LargeRuns(N), LargeRuns(rest), DOMAIN hdr', Elsewhere(t))
  BY <1>2, <1>7, <1>9, <1>12 DEF E, M, H
<1> QED BY <1>2, <1>4, <1>6, <1>7, <1>8, <1>9, <1>10, <1>11, <1>12, <1>13, WorkKeeps DEF E

\* arena_ralloc_large_shrink does: the tail is freed, the object stays.
LEMMA RallocShrinkKeeps ==
    ASSUME IInv, NEW t \in Threads, RallocShrink(t)
    PROVE  IInv'
<1> DEFINE E == Elsewhere(t)
           H == DOMAIN hdr
<1>1. PICK o \in Large : \E n \in {x \in Sizes : x < Size(o)} :
        Continue(t, Cut(Touch(arena, o.c, Extent(o.p, Size(o))), o.c, o.p, n),
                 Work(<<Job(o.c, o.p + n, TRUE, FALSE)>>, {o}), live \ {o})
  BY DEF RallocShrink
<1>2. PICK n \in {x \in Sizes : x < Size(o)} :
        Continue(t, Cut(Touch(arena, o.c, Extent(o.p, Size(o))), o.c, o.p, n),
                 Work(<<Job(o.c, o.p + n, TRUE, FALSE)>>, {o}), live \ {o})
  BY <1>1
<1> DEFINE A == Touch(arena, o.c, Extent(o.p, Size(o)))
           B == Cut(A, o.c, o.p, n)
           j == Job(o.c, o.p + n, TRUE, FALSE)
           todo == <<j>>
           one == {o}
           rest == live \ {o}
           N == {}
           X == {<<o.c, o.p>>}
           Y == {<<o.c, o.p + n>>}
           M == LargeRuns(rest)
<1>3. th[t].pc = "idle" /\ bin' = bin /\ hdr' = hdr /\ o \in live /\ o.reg = None /\ ~Working(t)
  BY DEF RallocShrink, At, Large, Working
<1>4. TakesLarge(t, o) /\ Ledger(arena, {})
  BY <1>3, TakeLargeFacts DEF IInv, ArenaExact
<1>5. /\ o.c \in Chunks /\ o.p \in Pages /\ <<o.c, o.p>> \in Taken(arena) /\ Parted(arena, X, N, M, H, E)
      /\ LargeRuns(one) = X /\ rest \subseteq ObjectType /\ Placed(hdr, rest, one, PendingElse(t))
      /\ o \in ObjectType
  BY <1>4 DEF TakesLarge
<1>6. Writes(arena, A, o.c, o.p)
  BY <1>4, <1>5, TouchWrites DEF Size
<1>7. n \in 1 .. arena.map[o.c][o.p].len - 1
  <2>1. o.p \in DOMAIN arena.map[o.c] /\ IsTiling(arena.map[o.c])
    BY <1>4, <1>5, TypedFacts DEF Taken, Ledger
  <2> DEFINE x == arena.map[o.c][o.p].len
  <2>2. x \in Nat
    BY <2>1, TilingTypes
  <2>3. n \in 1 .. NPages /\ NPages \in Nat
    BY ArenaAssumption
  <2>4. n < x
    BY DEF Size
  <2> HIDE DEF x
  <2>5. n \in 1 .. x - 1
    BY <2>2, <2>3, <2>4
  <2> QED BY <2>5 DEF x
<1> HIDE DEF A, B, N, rest, one, X, Y, M, E, H
<1>8. /\ Ledger(A, {}) /\ Taken(A) = Taken(arena) /\ A.npurg = arena.npurg /\ A.map = arena.map
      /\ Alike(arena, A, Taken(arena) \ X)
  BY <1>6 DEF Writes, X
<1>9. Parts(A, B, o.c, o.p, n)
  BY <1>5, <1>7, <1>8, CutFacts DEF B
<1>10. /\ Ledger(B, {}) /\ Taken(B) = Taken(A) \union Y /\ Y \cap Taken(A) = {}
       /\ Alike(A, B, Taken(A) \ X) /\ B.npurg = A.npurg
  BY <1>9 DEF Parts, X, Y
<1>11. Alike(arena, B, E) /\ Alike(arena, B, H) /\ Parted(B, Y, X, M, H, E)
  <2>1. E \subseteq Taken(arena) \ X /\ H \subseteq Taken(arena) \ X
    BY <1>5 DEF Parted
  <2>2. Alike(arena, A, E) /\ Alike(arena, A, H) /\ Alike(A, B, E) /\ Alike(A, B, H)
    BY <1>8, <1>10, <2>1 DEF Alike
  <2>3. Alike(arena, B, E) /\ Alike(arena, B, H)
    BY <2>2, AlikeTwice
  <2>4. Parted(B, Y, X, M, H, E)
    BY <1>5, <1>8, <1>10 DEF Parted, N
  <2> QED BY <2>3, <2>4
<1>12. BinRunsMarked(B, DOMAIN hdr')
  BY <1>3, <1>11, BinMarkedBy, BinMarkedKept DEF H
<1>13. Ready(B, todo) /\ Held(todo) = Y
  <2>0. <<o.c, o.p + n>> \in Spots
    BY <1>10 DEF Y, Taken
  <2>1. j \in JobType /\ j.c = o.c /\ j.p = o.p + n /\ j.dirty = TRUE /\ j.cleaned = FALSE
    BY <1>5, <2>0, JobFacts DEF Spots
  <2> HIDE DEF j
  <2>2. JobMarked(B, j)
    BY <2>1 DEF JobMarked, FreesDirty
  <2> QED BY <2>1, <2>2, ReadyOne DEF Y
<1>14. BinStays(t, one, rest)
  BY <1>3, <1>5, BinAsBefore
<1>15. Continue(t, B, Work(todo, one), rest)
  BY <1>2 DEF A, B, one, rest
<1>16. one \subseteq ObjectType
  BY <1>5 DEF one
<1> HIDE DEF todo
<1>17. Parted(B, Held(todo), LargeRuns(one), LargeRuns(rest), DOMAIN hdr', Elsewhere(t))
  BY <1>3, <1>5, <1>11, <1>13 DEF E, M, H
<1>18. B.npurg = arena.npurg
  BY <1>8, <1>10
<1> QED BY <1>3, <1>5, <1>10, <1>11, <1>12, <1>13, <1>14, <1>15, <1>16, <1>17, <1>18, WorkKeeps DEF E

\* arena_ralloc_large_grow does: the pages after the object become part of it.
LEMMA RallocGrowKeeps ==
    ASSUME IInv, NEW t \in Threads, RallocGrow(t)
    PROVE  IInv'
<1> DEFINE E == Elsewhere(t)
           H == DOMAIN hdr
<1>1. PICK o \in Large : \E size, most \in {x \in Sizes : x > Size(o)} :
        LET q == o.p + Size(o)
            n == Min({arena.map[o.c][q].len, most - Size(o)})
            A == RunSplit(arena, o.c, q, n, "large")
            dirty == A.map[o.c][o.p].dirty \/ A.map[o.c][q].dirty
        IN /\ FreeAt(arena, o.c, q)
           /\ size <= most /\ arena.map[o.c][q].len >= size - Size(o)
           /\ arena' = [A EXCEPT !.map[o.c] = With(Restrict(@, DOMAIN @ \ {q}), o.p,
                                                   Run("large", Size(o) + n, dirty))]
  BY DEF RallocGrow
<1> DEFINE q == o.p + Size(o)
           X == {<<o.c, o.p>>}
           N == {}
           M == LargeRuns(live \ {o})
<1>2. PICK most \in {x \in Sizes : x > Size(o)} :
        LET n == Min({arena.map[o.c][q].len, most - Size(o)})
            A == RunSplit(arena, o.c, q, n, "large")
            dirty == A.map[o.c][o.p].dirty \/ A.map[o.c][q].dirty
        IN /\ FreeAt(arena, o.c, q)
           /\ arena' = [A EXCEPT !.map[o.c] = With(Restrict(@, DOMAIN @ \ {q}), o.p,
                                                   Run("large", Size(o) + n, dirty))]
  BY <1>1
<1> DEFINE n == Min({arena.map[o.c][q].len, most - Size(o)})
           A == RunSplit(arena, o.c, q, n, "large")
           dirty == A.map[o.c][o.p].dirty \/ A.map[o.c][q].dirty
<1>3. /\ th[t].pc = "idle" /\ bin' = bin /\ hdr' = hdr /\ live' = live /\ th' = th
      /\ o \in live /\ o.reg = None
  BY DEF RallocGrow, At, Large
<1>4. TakesLarge(t, o) /\ Ledger(arena, {})
  BY <1>3, TakeLargeFacts DEF IInv, ArenaExact
<1>5. /\ o.c \in Chunks /\ o.p \in Pages /\ <<o.c, o.p>> \in Taken(arena) /\ Parted(arena, X, N, M, H, E)
  BY <1>4 DEF TakesLarge
<1>6. FreeAt(arena, o.c, q) /\ dirty \in BOOLEAN
      /\ arena' = [A EXCEPT !.map[o.c] = With(Restrict(@, DOMAIN @ \ {q}), o.p,
                                              Run("large", Size(o) + n, dirty))]
  BY <1>2
<1>7. n \in 1 .. arena.map[o.c][q].len
  <2> DEFINE x == arena.map[o.c][q].len
             y == most - Size(o)
             S == {x, y}
  <2>1. q \in DOMAIN arena.map[o.c] /\ IsTiling(arena.map[o.c]) /\ o.p \in DOMAIN arena.map[o.c]
    BY <1>4, <1>5, <1>6, TypedFacts DEF Taken, Ledger, FreeAt
  <2>2. x \in Nat \ {0} /\ Size(o) \in Nat
    BY <2>1, TilingTypes DEF Size
  <2>3. y \in Nat \ {0}
    BY <2>2, ArenaAssumption
  <2> HIDE DEF x, y
  <2>4. \E m \in S : \A i \in S : m <= i
    <3>1. S \subseteq Nat /\ S # {}
      BY <2>2, <2>3
    <3> QED BY <3>1, LeastOf
  <2>5. n = CHOOSE m \in S : \A i \in S : m <= i
    BY DEF Min, x, y
  <2> HIDE DEF n
  <2>6. n \in S /\ n <= x
    <3> HIDE DEF S
    <3>1. n \in S /\ \A i \in S : n <= i
      BY <2>4, <2>5
    <3> QED BY <3>1 DEF S
  <2>7. n \in 1 .. x
    BY <2>2, <2>3, <2>6
  <2> QED BY <2>7 DEF x
<1> HIDE DEF n, dirty
<1>8. Grown(arena, arena', o.c, o.p)
  <2>1. A = RunSplit(arena, o.c, q, n, "large") /\ q = o.p + arena.map[o.c][o.p].len
    BY DEF Size
  <2> HIDE DEF A, q
  <2>2. Grown(arena, [A EXCEPT !.map[o.c] = With(Restrict(@, DOMAIN @ \ {q}), o.p,
                                              Run("large", arena.map[o.c][o.p].len + n, dirty))], o.c, o.p)
    BY <1>4, <1>5, <1>6, <1>7, <2>1, GrowFacts
  <2> QED BY <1>6, <2>2 DEF Size
<1> HIDE DEF A, q, X, N, M, E, H
<1>9. /\ Ledger(arena', {}) /\ Taken(arena') = Taken(arena) /\ arena'.npurg = arena.npurg
      /\ Alike(arena, arena', Taken(arena) \ X)
  BY <1>8 DEF Grown, X
<1>10. Alike(arena, arena', E) /\ Alike(arena, arena', H)
  <2>1. E \subseteq Taken(arena) \ X /\ H \subseteq Taken(arena) \ X
    BY <1>5 DEF Parted
  <2> QED BY <1>9, <2>1 DEF Alike
<1>11. BinRunsMarked(arena', DOMAIN hdr')
  BY <1>3, <1>10, BinMarkedBy, BinMarkedKept DEF H
<1>12. StateTypes'
  BY <1>3 DEF IInv, StateTypes
<1>13. ArenaExact'
  BY <1>9 DEF IInv, ArenaExact
<1>14. ~Working(t) /\ ~Working(t)' /\ HeldBy(t)' = HeldBy(t) /\ Pending(t)' = Pending(t)
       /\ ClaimOf(t)' = ClaimOf(t)
  BY <1>3 DEF Working, HeldBy, Pending, ClaimOf, At
<1>15. RunsOwned'
  <2>1. Parted(arena, HeldBy(t), LargeRuns(Pending(t)), LargeRuns(live), DOMAIN hdr, Elsewhere(t))
    BY OwnedBy DEF IInv
  <2>2. Parted(arena', HeldBy(t)', LargeRuns(Pending(t)'), LargeRuns(live'), DOMAIN hdr', Elsewhere(t))
    BY <1>3, <1>9, <1>14, <2>1 DEF Parted
  <2> QED BY <1>3, <1>14, <2>2, OwnedNext DEF IInv
<1>16. RunsMarked'
  BY <1>3, <1>10, <1>11, <1>14, MarkedNext DEF IInv, E
<1>17. RegionsOwned'
  <2>1. Placed(hdr', live', Pending(t)', PendingElse(t))
    BY <1>3, <1>14, PlacedBy DEF IInv
  <2> QED BY <1>3, <2>1, PlacedNext DEF IInv
<1>18. BinExact'
  <2>1. Own(t)' = Own(t)
    BY <1>3 DEF Own
  <2>2. BinFits(hdr', bin', Own(t)' \union TransitElse(t)) /\ Coming(hdr', Own(t)', TransitElse(t))
    BY <1>3, <2>1, FitsBy DEF IInv
  <2> QED BY <1>3, <2>2, FitsNext DEF IInv
<1>19. ClaimsBalance'
  BY <1>3, <1>9, <1>12, <1>13, <1>14, ClaimsKept DEF IInv, StateTypes, ArenaExact
<1> QED BY <1>12, <1>13, <1>15, <1>16, <1>17, <1>18, <1>19 DEF IInv

\* A thread comes back for the lock, its work to be gone on with.
LEMMA ResumeKeeps ==
    ASSUME IInv, NEW t \in Threads, th[t].pc \in {"unmap", "madvise"}, NEW k, k \in WorkType,
           k.pc = "work", k.todo = th[t].todo, k.claim = th[t].claim, k.ret = th[t].ret,
           NEW A, Ledger(A, {}), Taken(A) = Taken(arena), A.npurg = arena.npurg, Alike(arena, A, Taken(arena)),
           Orderly(A, k), Continue(t, A, k, live), bin' = bin, hdr' = hdr
    PROVE  IInv'
<1> DEFINE E == Elsewhere(t)
           H == DOMAIN hdr
           L == LargeRuns(live)
           Y == LargeRuns(k.ret)
           X == Held(k.todo)
<1>1. Working(t) /\ HeldBy(t) = X /\ Pending(t) = k.ret /\ ClaimOf(t) = k.claim
  BY DEF Working, HeldBy, Held, Pending, ClaimOf
<1>2. Apart(k.todo)
  BY <1>1 DEF IInv, RunsOwned
<1>3. Parted(arena, X, Y, L, H, E)
  BY <1>1, OwnedBy DEF IInv
<1>4. live \subseteq ObjectType
  BY AloneFacts
<1> HIDE DEF E, H, L, Y, X
<1>5. Alike(arena, A, E) /\ Alike(arena, A, H) /\ Parted(A, X, Y, L, H, E)
  <2>1. E \subseteq Taken(arena) /\ H \subseteq Taken(arena)
    BY <1>3 DEF Parted
  <2>2. Alike(arena, A, E) /\ Alike(arena, A, H)
    BY <2>1 DEF Alike
  <2> QED BY <1>3, <2>2 DEF Parted
<1>6. BinRunsMarked(A, DOMAIN hdr')
  BY <1>5, BinMarkedBy, BinMarkedKept DEF H
<1>7. Enters(t, A, k, live)
  BY <1>1, <1>2, <1>4, <1>5, <1>6 DEF Enters, X, Y, L, H, E
<1>8. Leaves(t, k, live)
  BY <1>7, Continues DEF IInv, StateTypes
<1>9. BinStays(t, k.ret, live)
  <2>1. Placed(hdr, live, k.ret, PendingElse(t))
    BY <1>1, PlacedBy DEF IInv
  <2> QED BY <2>1, BinAsBefore
<1> QED BY <1>8, <1>9, SectionKeeps

\* The section that goes on after chunk_dealloc keeps the invariant.
LEMMA ChunkDeallocKeeps ==
    ASSUME IInv, NEW t \in Threads, ChunkDealloc(t)
    PROVE  IInv'
<1> DEFINE l == th[t]
           k == [l EXCEPT !.pc = "work", !.chunk = None]
<1>1. l.pc = "unmap" /\ Continue(t, arena, k, live) /\ bin' = bin /\ hdr' = hdr
  BY DEF ChunkDealloc, At
<1>2. l \in WorkType /\ Ledger(arena, {}) /\ Orderly(arena, l)
  <2>1. l \in Places
    BY AloneFacts
  <2>2. l \in WorkType
    BY <1>1, <2>1, PlaceFacts
  <2>3. Working(t)
    BY <1>1 DEF Working
  <2> QED BY <2>2, <2>3 DEF IInv, RunsMarked, ArenaExact
<1>3. k \in WorkType /\ k.pc = "work" /\ k.todo = l.todo /\ k.claim = l.claim /\ k.ret = l.ret
      /\ k.check = l.check /\ k.back = l.back
  <2> HIDE DEF l
  <2> QED BY <1>2 DEF WorkType
<1> HIDE DEF k
<1>4. Orderly(arena, k)
  BY <1>1, <1>2, <1>3 DEF Orderly
<1>5. Alike(arena, arena, Taken(arena))
  BY DEF Alike
<1> QED BY <1>1, <1>2, <1>3, <1>4, <1>5, ResumeKeeps

\* The one after madvise does: the stashed runs were the thread's all the while.
LEMMA PagesPurgedKeeps ==
    ASSUME IInv, NEW t \in Threads, PagesPurged(t)
    PROVE  IInv'
<1> DEFINE l == th[t]
           k == [l EXCEPT !.pc = "work"]
           stash(c) == {j \in Range(k.todo) : j.cleaned /\ j.c = c}
           pages(c) == UNION {Extent(j.p, arena.map[c][j.p].len) : j \in stash(c)}
           P == [c \in Chunks |-> pages(c)]
           A == [arena EXCEPT !.unz = [c \in Chunks |-> IF c \in Zeroing THEN arena.unz[c] \ P[c]
                                                        ELSE arena.unz[c] \union P[c]],
                              !.touched = [c \in Chunks |-> IF c \in Zeroing THEN arena.touched[c] \ P[c]
                                                            ELSE arena.touched[c]]]
<1>1. l.pc = "madvise" /\ bin' = bin /\ hdr' = hdr
      /\ Continue(t, [arena EXCEPT
                           !.unz = [c \in Chunks |-> IF c \in Zeroing THEN @[c] \ pages(c)
                                                     ELSE @[c] \union pages(c)],
                           !.touched = [c \in Chunks |-> IF c \in Zeroing THEN @[c] \ pages(c)
                                                         ELSE @[c]]], k, live)
  BY DEF PagesPurged, At
<1>2. l \in WorkType /\ Ledger(arena, {}) /\ Orderly(arena, l)
  <2>1. l \in Places
    BY AloneFacts
  <2>2. l \in WorkType
    BY <1>1, <2>1, PlaceFacts
  <2>3. Working(t)
    BY <1>1 DEF Working
  <2> QED BY <2>2, <2>3 DEF IInv, RunsMarked, ArenaExact
<1>3. k \in WorkType /\ k.pc = "work" /\ k.todo = l.todo /\ k.claim = l.claim /\ k.ret = l.ret
      /\ k.check = l.check /\ k.back = l.back
  <2> HIDE DEF l
  <2> QED BY <1>2 DEF WorkType
<1>4. Held(k.todo) \subseteq Taken(arena)
  <2>1. HeldBy(t) = Held(k.todo)
    BY <1>1, <1>3 DEF HeldBy, Held, Working
  <2>2. Parted(arena, HeldBy(t), LargeRuns(Pending(t)), LargeRuns(live), DOMAIN hdr, Elsewhere(t))
    BY OwnedBy DEF IInv
  <2> QED BY <2>1, <2>2 DEF Parted
<1> HIDE DEF k
<1>5. \A j \in Range(k.todo) : <<j.c, j.p>> \in Taken(arena)
  BY <1>4 DEF Held, Range
<1>6. P \in [Chunks -> SUBSET Pages]
  <2> SUFFICES ASSUME NEW c \in Chunks, NEW j \in stash(c)
               PROVE  Extent(j.p, arena.map[c][j.p].len) \subseteq Pages
    OBVIOUS
  <2>1. <<c, j.p>> \in Taken(arena)
    BY <1>5
  <2>2. j.p \in DOMAIN arena.map[c] /\ IsTiling(arena.map[c])
    BY <1>2, <2>1, TypedFacts DEF Taken, Ledger
  <2> DEFINE n == arena.map[c][j.p].len
  <2>3. j.p \in Nat /\ n \in Nat /\ j.p + n <= NPages /\ NPages \in Nat
    BY <2>2, TilingTypes
  <2> HIDE DEF n
  <2>4. Extent(j.p, n) \subseteq Pages
    BY <2>3 DEF Extent, Pages
  <2> QED BY <2>4 DEF n
<1>7. \A c \in Chunks : P[c] = pages(c)
  OBVIOUS
<1>8. Continue(t, A, k, live)
  <2> DEFINE u == [c \in Chunks |-> IF c \in Zeroing THEN arena.unz[c] \ pages(c)
                                                     ELSE arena.unz[c] \union pages(c)]
             v == [c \in Chunks |-> IF c \in Zeroing THEN arena.touched[c] \ pages(c)
                                                         ELSE arena.touched[c]]
             y == [c \in Chunks |-> IF c \in Zeroing THEN arena.unz[c] \ P[c]
                                                        ELSE arena.unz[c] \union P[c]]
             z == [c \in Chunks |-> IF c \in Zeroing THEN arena.touched[c] \ P[c]
                                                            ELSE arena.touched[c]]
  <2>1. Continue(t, [arena EXCEPT !.unz = u, !.touched = v], k, live)
    BY <1>1 DEF k
  <2>2. u = y /\ v = z
    <3> HIDE DEF P, pages
    <3> QED BY <1>7
  <2> HIDE DEF u, v, y, z
  <2>3. Continue(t, [arena EXCEPT !.unz = y, !.touched = z], k, live)
    BY <2>1, <2>2
  <2> QED BY <2>3 DEF y, z
<1> DEFINE Q == P
<1>9. Purges(arena, A, Q)
  <2>1. Q \in [Chunks -> SUBSET Pages]
    BY <1>6
  <2>2. A = [arena EXCEPT !.unz = [c \in Chunks |-> IF c \in Zeroing THEN arena.unz[c] \ Q[c]
                                                        ELSE arena.unz[c] \union Q[c]],
                              !.touched = [c \in Chunks |-> IF c \in Zeroing THEN arena.touched[c] \ Q[c]
                                                            ELSE arena.touched[c]]]
    OBVIOUS
  <2> HIDE DEF Q, A
  <2> QED BY <1>2, <2>1, <2>2, PurgeFacts
<1>10. \A c \in Chunks : \A j \in stash(c) : Extent(j.p, arena.map[c][j.p].len) \subseteq Q[c]
  OBVIOUS
<1> HIDE DEF Q, A, P
<1>11. /\ Ledger(A, {}) /\ A.map = arena.map /\ Taken(A) = Taken(arena) /\ A.npurg = arena.npurg
       /\ Alike(arena, A, Taken(arena))
       /\ \A c \in Chunks : \A p : Extent(p, arena.map[c][p].len) \subseteq Q[c] => Marked(A, c, p)
  BY <1>9 DEF Purges
<1>12. Orderly(A, k)
  <2>1. \A i \in DOMAIN k.todo : k.todo[i].cleaned => ~k.todo[i].dirty
    BY <1>2, <1>3 DEF Orderly
  <2>2. ASSUME NEW i \in DOMAIN k.todo
        PROVE  JobMarked(A, k.todo[i])
    <3> DEFINE j == k.todo[i]
    <3>1. j \in Range(k.todo) /\ <<j.c, j.p>> \in Taken(arena)
      BY <1>5 DEF Range
    <3>2. j.c \in Chunks
      BY <3>1 DEF Taken, Spots
    <3>3. CASE j.cleaned
      <4>1. j \in stash(j.c)
        BY <3>1, <3>3
      <4>2. Extent(j.p, arena.map[j.c][j.p].len) \subseteq Q[j.c]
        BY <1>10, <3>2, <4>1
      <4>3. Marked(A, j.c, j.p)
        BY <1>11, <3>2, <4>2
      <4> QED BY <4>3 DEF JobMarked
    <3>4. CASE ~j.cleaned
      <4>1. JobMarked(arena, j)
        BY <1>2, <1>3, <3>4 DEF Orderly
      <4>2. A.map[j.c][j.p] = arena.map[j.c][j.p] /\ (Marked(arena, j.c, j.p) => Marked(A, j.c, j.p))
        BY <1>11, <3>1 DEF Alike
      <4> QED BY <4>1, <4>2 DEF JobMarked, FreesDirty
    <3> QED BY <3>3, <3>4
  <2>3. (k.check => k.claim = 0 /\ k.back = 0) /\ k.pc # "return"
    BY <1>2, <1>3 DEF Orderly
  <2> QED BY <2>1, <2>2, <2>3 DEF Orderly
<1> QED BY <1>1, <1>3, <1>8, <1>11, <1>12, ResumeKeeps

\* The header of the run r, which nobody else can reach, is gone.
LEMMA HeaderGone ==
    ASSUME IInv, NEW t \in Threads, th[t].pc = "freeRun", NEW r, r = th[t].run,
           hdr' = Restrict(hdr, DOMAIN hdr \ {r}), bin' = bin
    PROVE  /\ r \in DOMAIN hdr /\ DOMAIN hdr' = DOMAIN hdr \ {r} /\ hdr[r] \in Headers
           /\ BinStays(t, Pending(t), live)
<1> DEFINE T == TransitElse(t)
           R == PendingElse(t)
           mine == Pending(t)
           N == {r}
           S == N \union T
           H == DOMAIN hdr
           h == hdr'
<1>1. /\ H \subseteq Spots /\ hdr \in [H -> Headers] /\ bin \in BinType(H) /\ None \notin H
      /\ th \in [Threads -> Places]
  BY AloneFacts
<1>2. r \in Spots
  BY <1>1, PlaceFacts
<1>3. Own(t) = N
  BY DEF Own
<1>4. BinFits(hdr, bin, S) /\ Coming(hdr, N, T) /\ Placed(hdr, live, mine, R)
  BY <1>3, FitsBy, PlacedBy DEF IInv
<1> HIDE DEF T, R, mine
<1>5. r \in H /\ r \notin T /\ \A x \in T : x # None => x \in H
  BY <1>2, <1>4, ObjectFacts DEF Coming
<1>6. DOMAIN h = H \ {r} /\ (\A x \in DOMAIN h : h[x] = hdr[x]) /\ h = [x \in DOMAIN h |-> h[x]]
  BY DEF Restrict
<1>7. RunFits(hdr, bin, S, r) /\ hdr[r] \in Headers
  BY <1>1, <1>4, <1>5 DEF BinFits
<1>8. hdr[r].free = Regs /\ r \notin bin.runs /\ r # bin.cur
  BY <1>7 DEF RunFits
<1> HIDE DEF H, h
<1>9. DOMAIN h \subseteq Spots /\ h \in [DOMAIN h -> Headers] /\ bin \in BinType(DOMAIN h)
  BY <1>1, <1>6, <1>8 DEF BinType
<1>10. Placed(h, live, mine, R)
  <2>1. Used(h) = Used(hdr)
    <3>1. ASSUME NEW o
          PROVE  o \in Used(h) <=> o \in Used(hdr)
      <4>1. CASE o \in ObjectType /\ <<o.c, o.p>> = r
        <5>1. o.reg # None => o.reg \in hdr[r].free
          BY <1>8, <4>1, ObjectFacts
        <5> QED BY <1>6, <4>1, <5>1, UsedFacts
      <4>2. CASE o \in ObjectType /\ <<o.c, o.p>> # r
        BY <1>6, <4>2, UsedFacts, ZenonT(40) DEF H
      <4>3. CASE o \notin ObjectType
        BY <4>3, UsedFacts
      <4> QED BY <4>1, <4>2, <4>3
    <3> QED BY <3>1
  <2> QED BY <1>4, <2>1 DEF Placed
<1>11. BinFits(h, bin, T)
  <2>1. ASSUME NEW x \in DOMAIN h
        PROVE  RunFits(h, bin, T, x)
    <3>1. RunFits(hdr, bin, S, x) /\ h[x] = hdr[x] /\ (x \in S <=> x \in T)
      BY <1>4, <1>6 DEF BinFits, H
    <3> HIDE DEF S
    <3> QED BY <3>1 DEF RunFits
  <2>2. bin.cur # None => h[bin.cur].free # Regs
    <3>1. bin.cur # None => bin.cur \in DOMAIN h
      BY <1>9 DEF BinType
    <3> QED BY <1>4, <1>6, <3>1 DEF BinFits
  <2> QED BY <2>1, <2>2 DEF BinFits
<1>12. \A x \in T : x # None => x \in DOMAIN h
  BY <1>5, <1>6
<1> QED BY <1>5, <1>6, <1>7, <1>9, <1>10, <1>11, <1>12 DEF BinStays, T, R, mine, H, h

\* arena_dalloc_bin_run keeps the invariant: the pages past nextind, freed clean, were never
\* written or bear the mark.
LEMMA DallocBinRunKeeps ==
    ASSUME IInv, NEW t \in Threads, DallocBinRun(t)
    PROVE  IInv'
<1> DEFINE r == th[t].run
           c == r[1]
           p == r[2]
           past == PastUsed(hdr[r])
           A == Touch(arena, c, Extent(p, Past[hdr[r].nextind]))
           trim == ~A.map[c][p].dirty /\ past < RunPages
           B == IF trim THEN Cut(A, c, p, past) ELSE A
           i == Job(c, p + past, FALSE, FALSE)
           j == Job(c, p, TRUE, FALSE)
           tail == IF trim THEN <<i>> ELSE << >>
           todo == tail \o <<j>>
           ret == Pending(t)
           N == {}
           X == {r}
           Y == LargeRuns(ret)
           L == LargeRuns(live)
           H == DOMAIN hdr
           I == H \ {r}
           E == Elsewhere(t)
<1>1. /\ th[t].pc = "freeRun" /\ bin' = bin /\ hdr' = Restrict(hdr, DOMAIN hdr \ {r})
      /\ Continue(t, B, Work(todo, th[t].ret), live)
  BY DEF DallocBinRun, At
<1>2. ~Working(t) /\ ret = th[t].ret /\ HeldBy(t) = N
  BY <1>1 DEF Working, HeldBy, Pending, At
<1>3. /\ H \subseteq Spots /\ th \in [Threads -> Places] /\ Ledger(arena, {}) /\ live \subseteq ObjectType
  BY AloneFacts DEF IInv, ArenaExact
<1>4. r \in Spots /\ ret \subseteq ObjectType /\ c \in Chunks /\ p \in Pages /\ r = <<c, p>>
  <2>1. r \in Spots /\ th[t].ret \subseteq ObjectType
    BY <1>1, <1>3, PlaceFacts
  <2> QED BY <1>2, <2>1 DEF Spots
<1>5. r \in H /\ DOMAIN hdr' = I /\ hdr[r] \in Headers /\ BinStays(t, ret, live)
  BY <1>1, HeaderGone
<1>6. past \in 1 .. RunPages /\ past = Past[hdr[r].nextind] /\ RunPages \in Nat
  BY <1>5, ArenaAssumption DEF PastUsed, Headers
<1>7. Parted(arena, N, Y, L, H, E)
  BY <1>2, OwnedBy DEF IInv
<1>8. BinRunsMarked(arena, H)
  BY BinMarkedBy
<1>9. arena.map[c][p].len = RunPages /\ (arena.map[c][p].dirty \/ Marked(arena, c, p))
  BY <1>5, <1>8 DEF BinRunsMarked
<1>10. <<c, p>> \in Taken(arena)
  BY <1>4, <1>5, <1>7 DEF Parted
<1>11. Extent(p, past) \subseteq Extent(p, arena.map[c][p].len)
  BY <1>4, <1>6, <1>9, SMTT(30) DEF Extent, Pages
<1>12. Writes(arena, A, c, p) /\ A.touched[c] = arena.touched[c] \union Extent(p, past) /\ A.unz = arena.unz
  <2> DEFINE pages == Extent(p, past)
  <2>1. A = Touch(arena, c, pages)
    BY <1>6
  <2>2. pages \subseteq Extent(p, arena.map[c][p].len)
    BY <1>11
  <2> HIDE DEF A, pages, c, p, past
  <2>3. /\ Writes(arena, Touch(arena, c, pages), c, p)
        /\ Touch(arena, c, pages).touched[c] = arena.touched[c] \union pages
        /\ Touch(arena, c, pages).unz = arena.unz
    BY <1>3, <1>4, <1>10, <2>2, TouchWrites
  <2> QED BY <2>1, <2>3 DEF pages
<1> HIDE DEF A, N, Y, L, H, E, I, past, ret
<1>13. /\ Ledger(A, {}) /\ Taken(A) = Taken(arena) /\ A.npurg = arena.npurg /\ A.map = arena.map
       /\ Alike(arena, A, Taken(arena) \ X)
  BY <1>4, <1>12 DEF Writes
<1>14. E \subseteq Taken(arena) \ X /\ I \subseteq Taken(arena) \ X /\ I \subseteq H
  BY <1>5, <1>7 DEF Parted, I
<1>15. ASSUME Alike(A, B, Taken(arena) \ X)
       PROVE  Alike(arena, B, E) /\ BinRunsMarked(B, DOMAIN hdr')
  <2> HIDE DEF B, X
  <2>1. Alike(arena, A, E) /\ Alike(arena, A, I) /\ Alike(A, B, E) /\ Alike(A, B, I)
    BY <1>13, <1>14, <1>15 DEF Alike
  <2>2. Alike(arena, B, E) /\ Alike(arena, B, I)
    BY <2>1, AlikeTwice
  <2>3. BinRunsMarked(arena, I)
    BY <1>8, <1>14 DEF BinRunsMarked
  <2> QED BY <1>5, <2>2, <2>3, BinMarkedKept
<1>16. j \in JobType /\ j.c = c /\ j.p = p /\ j.dirty = TRUE /\ j.cleaned = FALSE
  BY <1>4, JobFacts
<1>17. Continue(t, B, Work(todo, ret), live)
  BY <1>1, <1>2 DEF past
<1> HIDE DEF j
<1>18. CASE trim
  <2> DEFINE Z == {<<c, p + past>>}
  <2>1. B = Cut(A, c, p, past) /\ todo = <<i>> \o <<j>>
    BY <1>18
  <2>2. past \in 1 .. A.map[c][p].len - 1 /\ <<c, p>> \in Taken(A)
    BY <1>6, <1>9, <1>10, <1>13, <1>18, SMTT(30)
  <2>3. Parts(A, B, c, p, past)
    <3> HIDE DEF B, c, p
    <3> QED BY <1>4, <1>13, <2>1, <2>2, CutFacts
  <2> HIDE DEF B, todo
  <2>4. /\ Ledger(B, {}) /\ Taken(B) = Taken(A) \union Z /\ Z \cap Taken(A) = {}
        /\ Alike(A, B, Taken(A) \ X) /\ B.npurg = A.npurg /\ B.unz = A.unz /\ B.touched = A.touched
        /\ B.map[c][p + past] = Run("large", A.map[c][p].len - past, A.map[c][p].dirty)
    BY <1>4, <2>3 DEF Parts
  <2>5. i \in JobType /\ i.c = c /\ i.p = p + past /\ i.dirty = FALSE /\ i.cleaned = FALSE
    <3>1. <<c, p + past>> \in Spots
      BY <2>4 DEF Taken
    <3> QED BY <1>4, <3>1, JobFacts DEF Spots
  <2> HIDE DEF i
  <2>6. Marked(B, c, p + past)
    <3>1. ~arena.map[c][p].dirty /\ Marked(arena, c, p)
      BY <1>9, <1>13, <1>18
    <3>2. B.map[c][p + past].len = RunPages - past
      <4>1. A.map[c][p].len = RunPages
        BY <1>9, <1>13
      <4>2. B.map[c][p + past] = Run("large", A.map[c][p].len - past, A.map[c][p].dirty)
        BY <2>4
      <4> QED BY <4>1, <4>2 DEF Run
    <3>3. Extent(p + past, RunPages - past) \subseteq Extent(p, RunPages) \ Extent(p, past)
      BY <1>4, <1>6 DEF Extent, Pages
    <3> QED BY <1>9, <1>12, <2>4, <3>1, <3>2, <3>3 DEF Marked
  <2>7. JobMarked(B, i) /\ JobMarked(B, j) /\ <<i.c, i.p>> # <<j.c, j.p>>
    BY <1>10, <1>13, <1>16, <2>4, <2>5, <2>6 DEF JobMarked, FreesDirty
  <2>8. Ready(B, todo) /\ Held(todo) = Z \union X
    <3>1. Ready(B, <<i>> \o <<j>>) /\ Held(<<i>> \o <<j>>) = {<<i.c, i.p>>, <<j.c, j.p>>}
      <4>1. /\ i \in JobType /\ j \in JobType /\ JobMarked(B, i) /\ JobMarked(B, j)
            /\ i.cleaned = FALSE /\ j.cleaned = FALSE /\ <<i.c, i.p>> # <<j.c, j.p>>
        BY <1>16, <2>5, <2>7
      <4> QED BY <4>1, ReadyTwo
    <3> QED BY <1>4, <1>16, <2>1, <2>5, <3>1
  <2> HIDE DEF Z
  <2>9. Parted(B, Z \union X, Y, L, I, E)
    <3> HIDE DEF X
    <3>1. Taken(B) = Taken(arena) \union Z /\ Z \cap Taken(arena) = {}
      BY <1>13, <2>4
    <3>2. H = I \union X /\ I \cap X = {}
      BY <1>5 DEF I, X
    <3> QED BY <1>7, <3>1, <3>2 DEF Parted, N
  <2>10. Parted(B, Held(todo), LargeRuns(ret), LargeRuns(live), DOMAIN hdr', Elsewhere(t))
    BY <1>5, <2>8, <2>9 DEF Y, L, E
  <2>11. Alike(arena, B, Elsewhere(t)) /\ BinRunsMarked(B, DOMAIN hdr')
    BY <1>13, <1>15, <2>4 DEF E
  <2> QED BY <1>2, <1>3, <1>4, <1>5, <1>13, <1>17, <2>4, <2>8, <2>10, <2>11, WorkKeeps
<1>19. CASE ~trim
  <2>1. B = A /\ todo = <<j>>
    <3>1. B = A /\ tail = << >>
      BY <1>19
    <3>2. << >> \o <<j>> = <<j>>
      OBVIOUS
    <3> QED BY <3>1, <3>2
  <2> HIDE DEF B, todo
  <2>2. JobMarked(B, j)
    BY <1>16 DEF JobMarked, FreesDirty
  <2>3. Ready(B, todo) /\ Held(todo) = X
    <3>1. Ready(B, <<j>>) /\ Held(<<j>>) = {<<j.c, j.p>>}
      BY <1>16, <2>2, ReadyOne
    <3> QED BY <1>4, <1>16, <2>1, <3>1
  <2>4. Parted(B, X, Y, L, I, E)
    <3>1. H = I \union X /\ I \cap X = {}
      BY <1>5 DEF I
    <3> HIDE DEF X
    <3> QED BY <1>7, <1>13, <2>1, <3>1 DEF Parted, N
  <2>5. Parted(B, Held(todo), LargeRuns(ret), LargeRuns(live), DOMAIN hdr', Elsewhere(t))
    BY <1>5, <2>3, <2>4 DEF Y, L, E
  <2>6. Alike(A, B, Taken(arena) \ X)
    BY <2>1 DEF Alike
  <2>7. Alike(arena, B, Elsewhere(t)) /\ BinRunsMarked(B, DOMAIN hdr')
    BY <1>15, <2>6 DEF E
  <2> QED BY <1>2, <1>3, <1>4, <1>5, <1>13, <1>17, <2>1, <2>3, <2>5, <2>7, WorkKeeps
<1> QED BY <1>18, <1>19
-----------------------------------------------------------------------------
(* The steps that give a thread a run.                                     *)

\* A thread that has nothing.
Unladen(t) ==
    /\ ~Working(t) /\ Pending(t) = {} /\ LargeRuns({}) = {}
    /\ Parted(arena, {}, {}, LargeRuns(live), DOMAIN hdr, Elsewhere(t))
    /\ Placed(hdr, live, {}, PendingElse(t)) /\ BinFits(hdr, bin, TransitElse(t))
    /\ \A r \in TransitElse(t) : r # None => r \in DOMAIN hdr

\* A thread with nothing in hand.
LEMMA UnladenFacts ==
    ASSUME IInv, NEW t \in Threads, th[t].pc \in {"idle", "wantRun", "chunk"}
    PROVE  Unladen(t)
<1> DEFINE T == TransitElse(t)
           N == {}
<1>1. BinFits(hdr, bin, Own(t) \union T) /\ Coming(hdr, Own(t), T)
  BY FitsBy DEF IInv
<1>2. Own(t) = N /\ ~Working(t) /\ HeldBy(t) = N /\ Pending(t) = N /\ LargeRuns(N) = N
  BY DEF Own, Working, HeldBy, Pending, At, LargeRuns
<1>3. Own(t) \union T = T
  BY <1>2
<1>4. Parted(arena, HeldBy(t), LargeRuns(Pending(t)), LargeRuns(live), DOMAIN hdr, Elsewhere(t))
  BY OwnedBy DEF IInv
<1>5. Placed(hdr, live, Pending(t), PendingElse(t))
  BY PlacedBy DEF IInv
<1> HIDE DEF T, N
<1>6. BinFits(hdr, bin, T) /\ \A r \in T : r # None => r \in DOMAIN hdr
  BY <1>1, <1>3 DEF Coming
<1>7. Parted(arena, N, N, LargeRuns(live), DOMAIN hdr, Elsewhere(t)) /\ Placed(hdr, live, N, PendingElse(t))
  BY <1>2, <1>4, <1>5
<1> QED BY <1>2, <1>6, <1>7 DEF Unladen, T, N

\* Thread t has moved, and claims nothing.
RunMoves(t) ==
    /\ bin' = bin /\ th' \in [Threads -> Places] /\ \A u \in Threads \ {t} : th'[u] = th[u]
    /\ ~Working(t) /\ ~Working(t)'
    /\ Ledger(arena', {}) /\ arena'.npurg = arena.npurg /\ Alike(arena, arena', Elsewhere(t))
    /\ BinRunsMarked(arena', DOMAIN hdr')
    /\ Parted(arena', HeldBy(t)', LargeRuns(Pending(t)'), LargeRuns(live'), DOMAIN hdr', Elsewhere(t))
    /\ live' \subseteq ObjectType /\ DOMAIN hdr' \subseteq Spots /\ hdr' \in [DOMAIN hdr' -> Headers]
    /\ bin' \in BinType(DOMAIN hdr')
    /\ Placed(hdr', live', Pending(t)', PendingElse(t))
    /\ BinFits(hdr', bin', Own(t)' \union TransitElse(t)) /\ Coming(hdr', Own(t)', TransitElse(t))

\* A step that gives a thread a run keeps the invariant.
LEMMA RunStep ==
    ASSUME IInv, NEW t \in Threads, RunMoves(t)
    PROVE  IInv'
<1>1. /\ th' \in [Threads -> Places] /\ \A u \in Threads \ {t} : th'[u] = th[u]
      /\ ~Working(t) /\ ~Working(t)' /\ arena'.npurg = arena.npurg
  BY DEF RunMoves
<1>2. StateTypes'
  BY DEF RunMoves, StateTypes, BinType
<1>3. ArenaExact'
  BY DEF RunMoves, IInv, ArenaExact
<1>4. RunsOwned'
  BY <1>1, OwnedNext DEF RunMoves, IInv
<1>5. RunsMarked'
  BY <1>1, MarkedNext DEF RunMoves, IInv
<1>6. RegionsOwned'
  BY <1>1, PlacedNext DEF RunMoves, IInv
<1>7. BinExact'
  BY <1>1, FitsNext DEF RunMoves, IInv
<1>8. ClaimsBalance'
  <2>1. ClaimOf(t) = 0 /\ ClaimOf(t)' = 0
    BY <1>1 DEF ClaimOf
  <2>2. (arena'.npurg - ClaimOf(t)') % Word = (arena.npurg - ClaimOf(t)) % Word
    BY <1>1, <2>1
  <2> QED BY <1>1, <1>3, <2>2, ClaimsKept DEF IInv, StateTypes, ArenaExact
<1> QED BY <1>2, <1>3, <1>4, <1>5, <1>6, <1>7, <1>8 DEF IInv

\* A thread goes elsewhere with nothing in hand.
LEMMA GoesElsewhere ==
    ASSUME IInv, NEW t \in Threads, th[t].pc \in {"idle", "wantRun", "chunk"}, NEW k \in Places,
           th' = [th EXCEPT ![t] = k], k.pc \in {"idle", "wantRun", "chunk", "haveRun"},
           k.pc = "haveRun" => k.run = None,
           arena' = arena, hdr' = hdr, live' = live, bin' = bin
    PROVE  IInv'
<1> DEFINE T == TransitElse(t)
           N == {}
<1>1. /\ th \in [Threads -> Places] /\ live \subseteq ObjectType /\ DOMAIN hdr \subseteq Spots
      /\ hdr \in [DOMAIN hdr -> Headers] /\ bin \in BinType(DOMAIN hdr) /\ None \notin DOMAIN hdr
      /\ Ledger(arena, {})
  BY AloneFacts DEF IInv, ArenaExact
<1>2. /\ ~Working(t) /\ LargeRuns(N) = N
      /\ Parted(arena, N, N, LargeRuns(live), DOMAIN hdr, Elsewhere(t))
      /\ Placed(hdr, live, N, PendingElse(t)) /\ BinFits(hdr, bin, T)
      /\ \A r \in T : r # None => r \in DOMAIN hdr
  BY UnladenFacts DEF Unladen
<1>3. th'[t] = k /\ th' \in [Threads -> Places] /\ \A u \in Threads \ {t} : th'[u] = th[u]
  BY <1>1
<1> HIDE DEF N, T
<1>4. ~Working(t)' /\ HeldBy(t)' = N /\ Pending(t)' = N /\ \A r \in Own(t)' : r = None
  BY <1>3 DEF Working, HeldBy, Pending, At, Own, N
<1>5. Coming(hdr', Own(t)', T)
  BY <1>1, <1>2, <1>4 DEF Coming
<1>6. BinFits(hdr', bin', Own(t)' \union T)
  <2>1. ASSUME NEW x \in DOMAIN hdr
        PROVE  RunFits(hdr, bin, Own(t)' \union T, x)
    <3>1. RunFits(hdr, bin, T, x) /\ (x \in Own(t)' \union T <=> x \in T)
      BY <1>1, <1>2, <1>4 DEF BinFits
    <3> QED BY <3>1 DEF RunFits
  <2> QED BY <1>2, <2>1 DEF BinFits
<1>7. Alike(arena, arena', Elsewhere(t)) /\ BinRunsMarked(arena', DOMAIN hdr')
  BY BinMarkedBy DEF Alike
<1>8. RunMoves(t)
  BY <1>1, <1>2, <1>3, <1>4, <1>5, <1>6, <1>7 DEF RunMoves, T
<1> QED BY <1>8, RunStep

\* The arena with which a request is met.
Supplies(A) ==
    /\ Ledger(A, {}) /\ Taken(A) = Taken(arena) /\ Alike(arena, A, Taken(arena)) /\ A.npurg = arena.npurg

\* The run that is split for it.
Splitting(t, B, r, n) ==
    /\ Ledger(B, {}) /\ Taken(B) = Taken(arena) \union {r} /\ r \notin Taken(arena) /\ r \in Spots
    /\ Alike(arena, B, Taken(arena)) /\ B.npurg = arena.npurg
    /\ B.map[r[1]][r[2]].len = n /\ (B.map[r[1]][r[2]].dirty \/ Marked(B, r[1], r[2]))
    /\ Alike(arena, B, Elsewhere(t)) /\ BinRunsMarked(B, DOMAIN hdr)
    /\ r \notin LargeRuns(live) /\ r \notin DOMAIN hdr /\ r \notin Elsewhere(t)

\* The run that arena_run_split_* makes was nobody's.
LEMMA SplittingFacts ==
    ASSUME IInv, NEW t \in Threads, Unladen(t), NEW A, Supplies(A), NEW r, NEW n, Fits(A, r, n), n \in Nat \ {0},
           NEW kind \in {"large", "small"}
    PROVE  Splitting(t, RunSplit(A, r[1], r[2], n, kind), r, n)
<1> DEFINE c == r[1]
           p == r[2]
           B == RunSplit(A, c, p, n, kind)
           X == {r}
           F == Taken(arena)
           L == LargeRuns(live)
           H == DOMAIN hdr
           E == Elsewhere(t)
<1>1. /\ Ledger(A, {}) /\ Taken(A) = F /\ Alike(arena, A, F) /\ A.npurg = arena.npurg
      /\ r \in A.avail /\ A.map[c][p].len >= n
  BY DEF Supplies, Fits
<1>2. r \in Spots /\ c \in Chunks /\ p \in Pages /\ r = <<c, p>>
  BY <1>1 DEF Ledger, Typed, Spots
<1>3. n \in 1 .. A.map[c][p].len
  <2>1. p \in DOMAIN A.map[c] /\ IsTiling(A.map[c])
    BY <1>1, <1>2, TypedFacts DEF Ledger, Stock, Outs, FreeAt
  <2> DEFINE l == A.map[c][p].len
  <2>2. l \in Nat /\ l >= n
    BY <1>1, <2>1, TilingTypes
  <2> HIDE DEF l
  <2>3. n \in 1 .. l
    BY <2>2
  <2> QED BY <2>3 DEF l
<1>4. Obtains(A, B, c, p, n)
  <2> HIDE DEF c, p
  <2> QED BY <1>1, <1>2, <1>3, SplitObtains
<1> HIDE DEF B, F
<1>5. /\ Ledger(B, {}) /\ Taken(B) = F \union X /\ r \notin F /\ Alike(A, B, F) /\ B.npurg = arena.npurg
      /\ B.map[c][p].len = n /\ (B.map[c][p].dirty \/ Marked(B, c, p))
  BY <1>1, <1>2, <1>4 DEF Obtains
<1>6. Alike(arena, B, F)
  BY <1>1, <1>5, AlikeTwice
<1>7. F = L \union H \union E
  BY DEF Unladen, Parted, F
<1> HIDE DEF L, H, E
<1>8. Alike(arena, B, E) /\ Alike(arena, B, H)
  BY <1>6, <1>7 DEF Alike
<1>9. BinRunsMarked(B, DOMAIN hdr)
  BY <1>8, BinMarkedBy, BinMarkedKept DEF H
<1>10. r \notin L /\ r \notin H /\ r \notin E
  BY <1>5, <1>7
<1> QED BY <1>2, <1>5, <1>6, <1>8, <1>9, <1>10 DEF Splitting, B, F, L, H, E

\* The program has the run.
LEMMA LargeGiven ==
    ASSUME IInv, NEW t \in Threads, Unladen(t), NEW B, NEW r, NEW n, Splitting(t, B, r, n),
           arena' = B, live' = live \union {Object(r[1], r[2], None)}, th' = [th EXCEPT ![t] = Idle],
           hdr' = hdr, bin' = bin
    PROVE  IInv'
<1> DEFINE T == TransitElse(t)
           N == {}
           X == {r}
           o == Object(r[1], r[2], None)
           L == LargeRuns(live)
           H == DOMAIN hdr
           E == Elsewhere(t)
<1>1. /\ th \in [Threads -> Places] /\ live \subseteq ObjectType /\ DOMAIN hdr \subseteq Spots
      /\ hdr \in [DOMAIN hdr -> Headers] /\ bin \in BinType(DOMAIN hdr)
  BY AloneFacts
<1>2. /\ ~Working(t) /\ LargeRuns(N) = N /\ Parted(arena, N, N, L, H, E)
      /\ Placed(hdr, live, N, PendingElse(t)) /\ BinFits(hdr, bin, T)
      /\ \A x \in T : x # None => x \in H
  BY DEF Unladen
<1>3. /\ Ledger(B, {}) /\ Taken(B) = Taken(arena) \union X /\ r \in Spots /\ B.npurg = arena.npurg
      /\ Alike(arena, B, E) /\ BinRunsMarked(B, H) /\ r \notin L /\ r \notin H /\ r \notin E
  BY DEF Splitting
<1>4. th'[t] = Idle /\ th' \in [Threads -> Places] /\ \A u \in Threads \ {t} : th'[u] = th[u]
  BY <1>1 DEF Places
<1>5. o \in ObjectType /\ o.c = r[1] /\ o.p = r[2] /\ o.reg = None /\ r = <<r[1], r[2]>>
  BY <1>3, ObjectFacts DEF Spots
<1> DEFINE one == {o}
<1>6. live' = live \union one /\ one \subseteq ObjectType /\ LargeRuns(one) = X
  BY <1>5 DEF LargeRuns
<1>7. \A x \in one : x.reg = None
  BY <1>5
<1> HIDE DEF N, T, one, X, L, H, E, o
<1>8. ~Working(t)' /\ HeldBy(t)' = N /\ Pending(t)' = N /\ Own(t)' = N
  BY <1>4 DEF Working, HeldBy, Pending, At, Own, N, Idle
<1>9. LargeRuns(live') = L \union X
  BY <1>6, LargeRunsUnion DEF L
<1>10. Parted(arena', N, N, LargeRuns(live'), H, E)
  <2>1. Parted(B, N, N, L \union X, H, E)
    BY <1>2, <1>3 DEF Parted, X, N
  <2> QED BY <1>9, <2>1
<1>11. Placed(hdr', live', N, PendingElse(t))
  BY <1>2, <1>6, <1>7 DEF Placed, N
<1>12. Own(t)' \union T = T /\ Coming(hdr', N, T)
  BY <1>2, <1>8 DEF N, Coming, H
<1>13. live' \subseteq ObjectType
  BY <1>1, <1>6
<1>14. RunMoves(t)
  BY <1>1, <1>2, <1>3, <1>4, <1>8, <1>10, <1>11, <1>12, <1>13 DEF RunMoves, T, H, E
<1> QED BY <1>14, RunStep

\* The thread has the run, for the bin.
LEMMA SmallGiven ==
    ASSUME IInv, NEW t \in Threads, Unladen(t), NEW B, NEW r, Splitting(t, B, r, RunPages),
           arena' = B, live' = live, th' = [th EXCEPT ![t] = [pc |-> "haveRun", run |-> r]],
           hdr' = With(hdr, r, [free |-> Regs, nextind |-> 0]), bin' = bin
    PROVE  IInv'
<1> DEFINE T == TransitElse(t)
           N == {}
           X == {r}
           x == [free |-> Regs, nextind |-> 0]
           L == LargeRuns(live)
           H == DOMAIN hdr
           I == H \union X
           E == Elsewhere(t)
           h == hdr'
           S == X \union T
<1>1. /\ th \in [Threads -> Places] /\ live \subseteq ObjectType /\ H \subseteq Spots
      /\ hdr \in [H -> Headers] /\ bin \in BinType(H) /\ None \notin H
  BY AloneFacts
<1>2. /\ ~Working(t) /\ LargeRuns(N) = N /\ Parted(arena, N, N, L, H, E)
      /\ Placed(hdr, live, N, PendingElse(t)) /\ BinFits(hdr, bin, T)
      /\ \A y \in T : y # None => y \in H
  BY DEF Unladen
<1>3. /\ Ledger(B, {}) /\ Taken(B) = Taken(arena) \union X /\ r \in Spots /\ B.npurg = arena.npurg
      /\ Alike(arena, B, E) /\ BinRunsMarked(B, H) /\ r \notin L /\ r \notin H /\ r \notin E
      /\ B.map[r[1]][r[2]].len = RunPages /\ (B.map[r[1]][r[2]].dirty \/ Marked(B, r[1], r[2]))
  BY DEF Splitting
<1>4. /\ th'[t] = [pc |-> "haveRun", run |-> r] /\ th' \in [Threads -> Places]
      /\ \A u \in Threads \ {t} : th'[u] = th[u]
  <2>1. [pc |-> "haveRun", run |-> r] \in Places
    BY <1>3 DEF Places
  <2> QED BY <1>1, <2>1
<1>5. x \in Headers /\ x.free = Regs
  BY ArenaAssumption DEF Headers
<1> HIDE DEF x
<1>6. /\ DOMAIN h = I /\ h[r] = x /\ (\A y \in H : h[y] = hdr[y]) /\ h = [y \in I |-> h[y]]
  BY <1>3 DEF With, x
<1>7. r # None /\ r \notin T
  BY <1>2, <1>3, ObjectFacts
<1> HIDE DEF N, T, L, H, E, h, I
<1>8. ~Working(t)' /\ HeldBy(t)' = N /\ Pending(t)' = N /\ Own(t)' = X
  BY <1>4 DEF Working, HeldBy, Pending, At, Own, N
<1>9. I \subseteq Spots /\ h \in [I -> Headers] /\ bin \in BinType(I)
  BY <1>1, <1>3, <1>5, <1>6 DEF I, BinType
<1>10. BinRunsMarked(B, I)
  BY <1>3 DEF BinRunsMarked, I
<1>11. Parted(arena', N, N, L, I, E)
  BY <1>2, <1>3 DEF Parted, I, N
<1>12. Placed(h, live, N, PendingElse(t))
  <2>1. Used(h) = Used(hdr)
    <3>1. ASSUME NEW o
          PROVE  o \in Used(h) <=> o \in Used(hdr)
      <4>1. CASE o \in ObjectType /\ <<o.c, o.p>> = r
        <5>1. o.reg # None => o.reg \in h[r].free
          BY <1>5, <1>6, <4>1, ObjectFacts
        <5> QED BY <1>3, <4>1, <5>1, UsedFacts DEF H
      <4>2. CASE o \in ObjectType /\ <<o.c, o.p>> # r
        BY <1>6, <4>2, UsedFacts, ZenonT(40) DEF H, I
      <4>3. CASE o \notin ObjectType
        BY <4>3, UsedFacts
      <4> QED BY <4>1, <4>2, <4>3
    <3> QED BY <3>1
  <2> QED BY <1>2, <2>1 DEF Placed
<1>13. BinFits(h, bin, S)
  <2>1. ASSUME NEW y \in H
        PROVE  RunFits(h, bin, S, y)
    <3>1. RunFits(hdr, bin, T, y) /\ h[y] = hdr[y] /\ (y \in S <=> y \in T)
      BY <1>2, <1>3, <1>6 DEF BinFits, H
    <3> HIDE DEF S
    <3> QED BY <3>1 DEF RunFits
  <2>2. RunFits(h, bin, S, r)
    <3>1. r \in S /\ h[r].free = Regs /\ r \notin bin.runs /\ r # bin.cur
      BY <1>1, <1>3, <1>5, <1>6, <1>7 DEF BinType
    <3> HIDE DEF S
    <3> QED BY <3>1 DEF RunFits
  <2>3. bin.cur # None => h[bin.cur].free # Regs
    <3>1. bin.cur # None => bin.cur \in H
      BY <1>1 DEF BinType
    <3> QED BY <1>2, <1>6, <3>1 DEF BinFits
  <2> QED BY <1>6, <2>1, <2>2, <2>3 DEF BinFits, I
<1>14. Own(t)' \union T = S /\ Coming(h, X, T)
  BY <1>2, <1>6, <1>7, <1>8 DEF Coming, I
<1> HIDE DEF S, X
<1>15. RunMoves(t)
  BY <1>1, <1>2, <1>3, <1>4, <1>6, <1>8, <1>9, <1>10, <1>11, <1>12, <1>13, <1>14 DEF RunMoves, T, L, E, h
<1> QED BY <1>15, RunStep

\* The run at p may be freed clean.
Sound(A, c, p) == A.map[c][p].dirty \/ Marked(A, c, p)

\* What is left when the first n pages of a run are cut off, and when all but its first n are.
Behind(A, B, c, p, n) ==
    /\ Ledger(B, {}) /\ Taken(B) = Taken(A) \union {<<c, p + n>>} /\ B.npurg = A.npurg
    /\ Alike(A, B, Taken(A) \ {<<c, p>>}) /\ B.map[c][p + n].len = A.map[c][p].len - n
    /\ Sound(B, c, p) /\ Sound(B, c, p + n) /\ (n # 0 => <<c, p + n>> \notin Taken(A))
Before(A, B, c, p, n) ==
    LET rest == IF n = A.map[c][p].len THEN {} ELSE {<<c, p + n>>}
    IN /\ Ledger(B, {}) /\ Taken(B) = Taken(A) \union rest /\ rest \cap Taken(A) = {} /\ B.npurg = A.npurg
       /\ Alike(A, B, Taken(A) \ {<<c, p>>}) /\ \A r \in rest : Sound(B, c, p + n)

\* Both parts of a cut run may be freed clean if the run may.
LEMMA PartsSound ==
    ASSUME NEW A, NEW c, NEW p, NEW n, NEW B, Parts(A, B, c, p, n), Sound(A, c, p)
    PROVE  Sound(B, c, p) /\ Sound(B, c, p + n)
<1>1. /\ B.map[c][p].dirty = A.map[c][p].dirty /\ B.map[c][p + n].dirty = A.map[c][p].dirty
      /\ Marked(A, c, p) => Marked(B, c, p) /\ Marked(B, c, p + n)
  BY DEF Parts, Run
<1> QED BY <1>1 DEF Sound

LEMMA BehindFacts ==
    ASSUME NEW A, Ledger(A, {}), NEW c \in Chunks, NEW p \in Pages, <<c, p>> \in Taken(A), Sound(A, c, p),
           NEW l, A.map[c][p].len = l, NEW n \in 0 .. l - 1, l \in Nat
    PROVE  Behind(A, IF n = 0 THEN A ELSE Cut(A, c, p, n), c, p, n)
<1>1. CASE n = 0
  <2>1. p + n = p /\ A.map[c][p].len - n = A.map[c][p].len
    BY <1>1 DEF Pages
  <2>2. Alike(A, A, Taken(A) \ {<<c, p>>})
    BY DEF Alike
  <2> QED BY <1>1, <2>1, <2>2 DEF Behind
<1>2. CASE n # 0
  <2> DEFINE B == Cut(A, c, p, n)
  <2>1. n \in 1 .. A.map[c][p].len - 1
    BY <1>2
  <2>2. Parts(A, B, c, p, n)
    BY <2>1, CutFacts
  <2> HIDE DEF B
  <2>3. Sound(B, c, p) /\ Sound(B, c, p + n)
    BY <2>2, PartsSound
  <2>4. B.map[c][p + n].len = A.map[c][p].len - n
    BY <2>2 DEF Parts, Run
  <2>5. Behind(A, B, c, p, n)
    BY <2>2, <2>3, <2>4 DEF Behind, Parts
  <2> QED BY <1>2, <2>5 DEF B
<1> QED BY <1>1, <1>2

LEMMA BeforeFacts ==
    ASSUME NEW A, Ledger(A, {}), NEW c \in Chunks, NEW p \in Pages, <<c, p>> \in Taken(A), Sound(A, c, p),
           NEW l, A.map[c][p].len = l, NEW n \in 1 .. l, l \in Nat, NEW k, k = 0 <=> n = l
    PROVE  Before(A, IF k = 0 THEN A ELSE Cut(A, c, p, n), c, p, n)
<1>1. CASE n = l
  <2>1. Alike(A, A, Taken(A) \ {<<c, p>>})
    BY DEF Alike
  <2> QED BY <1>1, <2>1 DEF Before
<1>2. CASE n # l
  <2> DEFINE B == Cut(A, c, p, n)
             X == {<<c, p + n>>}
  <2>1. n \in 1 .. A.map[c][p].len - 1
    BY <1>2
  <2>2. Parts(A, B, c, p, n)
    BY <2>1, CutFacts
  <2> HIDE DEF B
  <2>3. Sound(B, c, p + n)
    BY <2>2, PartsSound
  <2>4. /\ Ledger(B, {}) /\ Taken(B) = Taken(A) \union X /\ X \cap Taken(A) = {} /\ B.npurg = A.npurg
        /\ Alike(A, B, Taken(A) \ {<<c, p>>})
    BY <2>2 DEF Parts
  <2>5. Before(A, B, c, p, n)
    BY <1>2, <2>3, <2>4 DEF Before
  <2> QED BY <1>2, <2>5 DEF B
<1> QED BY <1>1, <1>2

\* The pages before and after an aligned object are freed.
TrimJobs(D, lead, trail, i, j) ==
    /\ i.cleaned = FALSE /\ j.cleaned = FALSE
    /\ lead # 0 => i \in JobType /\ JobMarked(D, i)
    /\ trail # 0 => j \in JobType /\ JobMarked(D, j)
    /\ lead # 0 /\ trail # 0 => <<i.c, i.p>> # <<j.c, j.p>>
TrimParts(lead, trail, i, j, todo, V, W) ==
    /\ todo = (IF lead = 0 THEN << >> ELSE <<i>>) \o (IF trail = 0 THEN << >> ELSE <<j>>)
    /\ V = (IF lead = 0 THEN {} ELSE {<<i.c, i.p>>}) /\ W = (IF trail = 0 THEN {} ELSE {<<j.c, j.p>>})

\* What is freed around an aligned object.
LEMMA TrimFacts ==
    ASSUME NEW D, NEW lead, NEW trail, NEW i, NEW j, NEW todo, NEW V, NEW W,
           TrimJobs(D, lead, trail, i, j), TrimParts(lead, trail, i, j, todo, V, W)
    PROVE  Ready(D, todo) /\ Held(todo) = V \union W
<1> USE DEF TrimJobs, TrimParts
<1>1. CASE lead = 0 /\ trail = 0
  <2>1. todo = << >>
    BY <1>1
  <2>2. Ready(D, todo) /\ Held(todo) = {}
    BY <2>1, ReadyNone
  <2> QED BY <1>1, <2>2
<1>2. CASE lead # 0 /\ trail = 0
  <2>1. todo = <<i>>
    BY <1>2
  <2>2. Ready(D, todo) /\ Held(todo) = V
    BY <1>2, <2>1, ReadyOne
  <2> QED BY <1>2, <2>2
<1>3. CASE lead = 0 /\ trail # 0
  <2>1. todo = <<j>>
    BY <1>3
  <2>2. Ready(D, todo) /\ Held(todo) = W
    BY <1>3, <2>1, ReadyOne
  <2> QED BY <1>3, <2>2
<1>4. CASE lead # 0 /\ trail # 0
  <2>1. /\ i \in JobType /\ j \in JobType /\ JobMarked(D, i) /\ JobMarked(D, j)
        /\ i.cleaned = FALSE /\ j.cleaned = FALSE /\ <<i.c, i.p>> # <<j.c, j.p>>
    BY <1>4
  <2>2. Ready(D, <<i>> \o <<j>>) /\ Held(<<i>> \o <<j>>) = {<<i.c, i.p>>, <<j.c, j.p>>}
    BY <2>1, ReadyTwo
  <2>3. todo = <<i>> \o <<j>> /\ V \union W = {<<i.c, i.p>>, <<j.c, j.p>>}
    BY <1>4
  <2> QED BY <2>2, <2>3
<1> QED BY <1>1, <1>2, <1>3, <1>4

\* How an aligned object is cut out of a run.
Aligning(B, c, p, n, lead, trail, head, D, todo) ==
    /\ head = (IF lead = 0 THEN B ELSE Cut(B, c, p, lead))
    /\ D = (IF trail = 0 THEN head ELSE Cut(head, c, p + lead, n))
    /\ todo = (IF lead = 0 THEN << >> ELSE <<Job(c, p, FALSE, FALSE)>>)
              \o (IF trail = 0 THEN << >> ELSE <<Job(c, p + lead + n, FALSE, FALSE)>>)

\* The program has the aligned part of the run, when the rest is freed.
LEMMA AlignedGiven ==
    ASSUME IInv, NEW t \in Threads, Unladen(t), NEW B, NEW r, NEW c, NEW p, r = <<c, p>>,
           NEW n, NEW lead, NEW trail, n \in Nat \ {0}, lead \in Nat, trail \in Nat,
           Splitting(t, B, r, lead + n + trail),
           NEW head, NEW D, NEW todo, Aligning(B, c, p, n, lead, trail, head, D, todo),
           Continue(t, D, Work(todo, {Object(c, p + lead, None)}), live), hdr' = hdr, bin' = bin,
           th[t].pc \in {"idle", "wantRun", "chunk"}
    PROVE  IInv'
<1> DEFINE o == Object(c, p + lead, None)
           one == {o}
           i == Job(c, p, FALSE, FALSE)
           j == Job(c, p + lead + n, FALSE, FALSE)
           N == {}
           X == {r}
           Y == {<<c, p + lead>>}
           V == IF lead = 0 THEN {} ELSE {<<c, p>>}
           W == IF trail = 0 THEN {} ELSE {<<c, p + lead + n>>}
           l == lead + n + trail
           m == n + trail
           q == p + lead
           F == Taken(arena)
           L == LargeRuns(live)
           H == DOMAIN hdr
           E == Elsewhere(t)
<1>0. /\ head = (IF lead = 0 THEN B ELSE Cut(B, c, p, lead))
      /\ D = (IF trail = 0 THEN head ELSE Cut(head, c, p + lead, n))
      /\ todo = (IF lead = 0 THEN << >> ELSE <<i>>) \o (IF trail = 0 THEN << >> ELSE <<j>>)
  BY DEF Aligning
<1>1. /\ live \subseteq ObjectType /\ ~Working(t) /\ Parted(arena, N, N, L, H, E)
      /\ Placed(hdr, live, N, PendingElse(t))
  BY AloneFacts DEF Unladen
<1>2. /\ Ledger(B, {}) /\ Taken(B) = F \union X /\ r \notin F /\ r \in Spots /\ B.npurg = arena.npurg
      /\ Alike(arena, B, F) /\ B.map[c][p].len = l /\ Sound(B, c, p)
  BY DEF Splitting, Sound
<1>3. c \in Chunks /\ p \in Pages /\ p \in Nat
  BY <1>2 DEF Spots, Pages
<1>4. l \in Nat /\ lead \in 0 .. l - 1 /\ m \in Nat /\ n \in 1 .. m /\ l - lead = m /\ (trail = 0 <=> n = m)
      /\ p + lead + n = q + n /\ q \in Nat /\ (lead = 0 => q = p)
  BY <1>3
<1> HIDE DEF l, m, X, Y, F, L, H, E, N, W, V
<1>5. Behind(B, head, c, p, lead)
  BY <1>0, <1>2, <1>3, <1>4, BehindFacts DEF X
<1>6. /\ Ledger(head, {}) /\ Taken(head) = F \union X \union Y /\ head.npurg = arena.npurg
      /\ Alike(B, head, (F \union X) \ X) /\ head.map[c][q].len = m
      /\ Sound(head, c, p) /\ Sound(head, c, q)
      /\ (lead # 0 => <<c, q>> \notin F \union X) /\ <<c, q>> \in Taken(head)
  BY <1>2, <1>4, <1>5 DEF Behind, X, Y
<1>7. q \in Pages
  BY <1>6 DEF Taken, Spots
<1> HIDE DEF q
<1>8. Before(head, D, c, q, n)
  <2>1. D = IF trail = 0 THEN head ELSE Cut(head, c, q, n)
    BY <1>0 DEF q
  <2>2. /\ Ledger(head, {}) /\ c \in Chunks /\ q \in Pages /\ <<c, q>> \in Taken(head) /\ Sound(head, c, q)
        /\ head.map[c][q].len = m /\ n \in 1 .. m /\ m \in Nat /\ (trail = 0 <=> n = m)
    BY <1>3, <1>4, <1>6, <1>7
  <2>3. Before(head, IF trail = 0 THEN head ELSE Cut(head, c, q, n), c, q, n)
    BY <2>2, BeforeFacts
  <2> QED BY <2>1, <2>3
<1>9. /\ Ledger(D, {}) /\ Taken(D) = Taken(head) \union W /\ W \cap Taken(head) = {} /\ D.npurg = arena.npurg
      /\ Alike(head, D, Taken(head) \ Y) /\ (trail # 0 => Sound(D, c, q + n))
  <2>1. W = IF n = head.map[c][q].len THEN {} ELSE {<<c, q + n>>}
    BY <1>4, <1>6 DEF W, q
  <2>2. Y = {<<c, q>>}
    BY DEF Y, q
  <2>3. n # head.map[c][q].len => <<c, q + n>> \in W
    BY <2>1
  <2> HIDE DEF W
  <2> QED BY <1>4, <1>6, <1>8, <2>1, <2>2, <2>3 DEF Before
<1>10. r \notin F /\ <<c, q>> \notin F /\ Y \cap F = {} /\ (lead # 0 => <<c, q>> # r) /\ X \union Y = V \union Y
       /\ V \subseteq X /\ V \cap Y = {}
  BY <1>2, <1>4, <1>6 DEF X, Y, V, q
<1>11. Alike(arena, D, F)
  <2>1. Alike(B, head, F)
    BY <1>6, <1>10 DEF X, Alike
  <2>2. Alike(head, D, F)
    BY <1>6, <1>9, <1>10 DEF Alike
  <2>3. Alike(arena, head, F)
    BY <1>2, <2>1, AlikeTwice
  <2> QED BY <2>2, <2>3, AlikeTwice
<1>12. lead # 0 => Sound(D, c, p)
  <2> HAVE lead # 0
  <2>1. r \in Taken(head) \ Y
    BY <1>6, <1>10 DEF X, Y, q
  <2>2. D.map[c][p] = head.map[c][p] /\ (Marked(head, c, p) => Marked(D, c, p))
    BY <1>9, <2>1 DEF Alike
  <2> QED BY <1>6, <2>2 DEF Sound
<1>13. /\ lead # 0 => i \in JobType /\ JobMarked(D, i)
       /\ trail # 0 => j \in JobType /\ JobMarked(D, j)
       /\ i.cleaned = FALSE /\ j.cleaned = FALSE /\ i.c = c /\ i.p = p /\ j.c = c /\ j.p = q + n
       /\ (lead # 0 /\ trail # 0 => <<i.c, i.p>> # <<j.c, j.p>>)
  <2>1. /\ i.cleaned = FALSE /\ j.cleaned = FALSE /\ i.c = c /\ i.p = p /\ j.c = c /\ j.p = q + n
        /\ i.dirty = FALSE /\ j.dirty = FALSE /\ i \in JobType
    BY <1>3, <1>4 DEF Job, JobType, q
  <2>2. trail # 0 => j \in JobType
    <3> HAVE trail # 0
    <3>1. <<c, q + n>> \in W
      BY <1>4 DEF W, q
    <3> HIDE DEF W
    <3>2. <<c, q + n>> \in Taken(D)
      BY <1>9, <3>1
    <3>3. q + n \in Pages
      BY <3>2 DEF Taken, Spots
    <3> QED BY <1>3, <1>4, <3>3, JobFacts DEF q
  <2> HIDE DEF i, j
  <2>3. p # q + n
    BY <1>3, <1>4 DEF q
  <2>4. lead # 0 => JobMarked(D, i)
    BY <1>12, <2>1 DEF JobMarked, FreesDirty, Sound
  <2>5. trail # 0 => JobMarked(D, j)
    BY <1>9, <2>1 DEF JobMarked, FreesDirty, Sound
  <2> QED BY <2>1, <2>2, <2>3, <2>4, <2>5
<1> HIDE DEF i, j
<1>14. Ready(D, todo) /\ Held(todo) = V \union W
  <2>1. todo = (IF lead = 0 THEN << >> ELSE <<i>>) \o (IF trail = 0 THEN << >> ELSE <<j>>)
    BY <1>0
  <2>2. V = (IF lead = 0 THEN {} ELSE {<<i.c, i.p>>}) /\ W = (IF trail = 0 THEN {} ELSE {<<j.c, j.p>>})
    BY <1>4, <1>13 DEF V, W, q
  <2>3. TrimJobs(D, lead, trail, i, j)
    BY <1>13 DEF TrimJobs
  <2> HIDE DEF V, W
  <2>4. TrimParts(lead, trail, i, j, todo, V, W)
    BY <2>1, <2>2 DEF TrimParts
  <2> QED BY ONLY <2>3, <2>4, TrimFacts
<1>15. one \subseteq ObjectType /\ LargeRuns(one) = Y /\ \A x \in one : x.reg = None
  <2>1. o \in ObjectType /\ o.c = c /\ o.p = q /\ o.reg = None
    BY <1>3, <1>7, ObjectFacts DEF q
  <2> HIDE DEF o
  <2> QED BY <2>1 DEF LargeRuns, Y, q
<1> HIDE DEF o, one
<1>16. Parted(D, V \union W, Y, L, H, E)
  <2>1. Taken(D) = F \union V \union Y \union W /\ V \cap F = {} /\ Y \cap F = {} /\ V \cap Y = {}
        /\ W \cap (F \union V \union Y) = {} /\ F = L \union H \union E
        /\ L \cap H = {} /\ L \cap E = {} /\ H \cap E = {}
    <3>1. F = L \union H \union E /\ L \cap H = {} /\ L \cap E = {} /\ H \cap E = {}
      BY <1>1 DEF Parted, N, F
    <3>2. X \cap F = {}
      BY <1>10 DEF X
    <3> QED BY <1>6, <1>9, <1>10, <3>1, <3>2
  <2> QED BY <2>1 DEF Parted
<1>17. Parted(D, Held(todo), LargeRuns(one), LargeRuns(live), DOMAIN hdr', Elsewhere(t))
  BY <1>14, <1>15, <1>16 DEF L, H, E
<1>18. Alike(arena, D, Elsewhere(t)) /\ BinRunsMarked(D, DOMAIN hdr')
  <2>1. E \subseteq F /\ H \subseteq F
    BY <1>1 DEF Parted, F
  <2>2. Alike(arena, D, E) /\ Alike(arena, D, H)
    BY <1>11, <2>1 DEF Alike
  <2> QED BY <2>2, BinMarkedBy, BinMarkedKept DEF E, H
<1>19. BinStays(t, one, live)
  <2>1. Placed(hdr, live, one, PendingElse(t))
    BY <1>1, <1>15 DEF Placed, N
  <2> QED BY <2>1, BinAsBefore
<1>20. Continue(t, D, Work(todo, one), live)
  BY DEF one, o
<1> QED BY <1>1, <1>9, <1>14, <1>15, <1>17, <1>18, <1>19, <1>20, WorkKeeps

\* What is asked for.
LEMMA NeedFacts ==
    ASSUME NEW w \in Wants
    PROVE  /\ Need(w) \in Nat \ {0} /\ Need(w) <= NPages /\ NPages \in Nat
           /\ w.kind = "small" => w.n = RunPages /\ Need(w) = RunPages
           /\ w.kind = "aligned" => w.n \in Nat \ {0} /\ Need(w) = w.n + Align - 1
<1>0. NPages \in Nat /\ RunPages \in 1 .. NPages /\ Align \in Nat \ {0}
  BY ArenaAssumption
<1>1. CASE w = [kind |-> "small", n |-> RunPages]
  BY <1>0, <1>1 DEF Need
<1>2. CASE w \in [kind : {"large"}, n : Sizes]
  <2>1. w.kind = "large" /\ w.n \in 1 .. NPages
    BY <1>2, ArenaAssumption
  <2> QED BY <1>0, <2>1 DEF Need
<1>3. CASE w \in [kind : {"aligned"}, n : AlignedSizes]
  <2>1. w.kind = "aligned" /\ w.n \in 1 .. NPages /\ w.n + Align - 1 \in 1 .. NPages
    BY <1>3, ArenaAssumption
  <2> QED BY <1>0, <2>1 DEF Need
<1> QED BY <1>1, <1>2, <1>3 DEF Wants, Requests

\* The pages before the aligned part of a run, and those after it.
LEMMA LeadFacts ==
    ASSUME NEW p \in Nat, NEW lead, lead = (Align - ((p + Bias) % Align)) % Align
    PROVE  lead \in Nat /\ Align - 1 - lead \in Nat /\ Align \in Nat \ {0}
<1>1. Align \in Nat \ {0} /\ Bias \in Nat
  BY ArenaAssumption
<1> DEFINE k == (p + Bias) % Align
<1>2. k \in 0 .. Align - 1
  <2>1. p + Bias \in Int
    BY <1>1
  <2> QED BY <1>1, <2>1
<1> HIDE DEF k
<1>3. (Align - k) % Align \in 0 .. Align - 1
  BY <1>1, <1>2
<1>4. lead \in 0 .. Align - 1
  BY <1>3 DEF k
<1> QED BY <1>1, <1>4

\* A request is met.
LEMMA GivenKeeps ==
    ASSUME IInv, NEW t \in Threads, th[t].pc \in {"idle", "wantRun", "chunk"}, NEW w \in Wants,
           NEW A, Supplies(A), NEW r, Fits(A, r, Need(w)), Given(t, w, A, r), bin' = bin
    PROVE  IInv'
<1> DEFINE c == r[1]
           p == r[2]
           kind == IF w.kind = "small" THEN "small" ELSE "large"
           B == RunSplit(A, c, p, Need(w), kind)
           lead == (Align - ((p + Bias) % Align)) % Align
           trail == Align - 1 - lead
           head == IF lead = 0 THEN B ELSE Cut(B, c, p, lead)
           D == IF trail = 0 THEN head ELSE Cut(head, c, p + lead, w.n)
           todo == (IF lead = 0 THEN << >> ELSE <<Job(c, p, FALSE, FALSE)>>)
                   \o (IF trail = 0 THEN << >> ELSE <<Job(c, p + lead + w.n, FALSE, FALSE)>>)
<1>1. Unladen(t)
  BY UnladenFacts
<1>2. Need(w) \in Nat \ {0}
  BY NeedFacts
<1>3. kind \in {"large", "small"}
  OBVIOUS
<1> HIDE DEF kind
<1>4. Splitting(t, B, r, Need(w))
  BY <1>1, <1>2, <1>3, SplittingFacts
<1>5. r = <<c, p>> /\ p \in Nat
  BY <1>4 DEF Splitting, Spots, Pages
<1>6. \/ /\ w.kind = "large"
         /\ arena' = B /\ live' = live \union {Object(c, p, None)} /\ Goto(t, Idle) /\ hdr' = hdr
      \/ /\ w.kind = "small"
         /\ arena' = B /\ hdr' = With(hdr, r, [free |-> Regs, nextind |-> 0])
         /\ Goto(t, [pc |-> "haveRun", run |-> r]) /\ live' = live
      \/ /\ w.kind = "aligned"
         /\ Continue(t, D, Work(todo, {Object(c, p + lead, None)}), live) /\ hdr' = hdr
  BY DEF Given, kind
<1> HIDE DEF B
<1>7. CASE w.kind = "large"
  <2>1. /\ arena' = B /\ live' = live \union {Object(r[1], r[2], None)} /\ th' = [th EXCEPT ![t] = Idle]
        /\ hdr' = hdr
    BY <1>6, <1>7 DEF Goto
  <2> QED BY <1>1, <1>4, <2>1, LargeGiven
<1>8. CASE w.kind = "small"
  <2>1. /\ arena' = B /\ hdr' = With(hdr, r, [free |-> Regs, nextind |-> 0])
        /\ th' = [th EXCEPT ![t] = [pc |-> "haveRun", run |-> r]] /\ live' = live
    BY <1>6, <1>8 DEF Goto
  <2>2. Splitting(t, B, r, RunPages)
    BY <1>4, <1>8, NeedFacts
  <2> QED BY <1>1, <2>1, <2>2, SmallGiven
<1>9. CASE w.kind = "aligned"
  <2>1. Continue(t, D, Work(todo, {Object(c, p + lead, None)}), live) /\ hdr' = hdr
    BY <1>6, <1>9
  <2>2. lead \in Nat /\ trail \in Nat /\ Align \in Nat \ {0}
    BY <1>5, LeadFacts
  <2>3. w.n \in Nat \ {0} /\ Need(w) = w.n + Align - 1
    BY <1>9, NeedFacts
  <2>4. Need(w) = lead + w.n + trail
    BY <2>2, <2>3
  <2> DEFINE n == w.n
  <2>5. n \in Nat \ {0} /\ Splitting(t, B, r, lead + n + trail) /\ Aligning(B, c, p, n, lead, trail, head, D, todo)
    BY <1>4, <2>3, <2>4 DEF Aligning
  <2> HIDE DEF c, p, lead, trail, head, D, todo, n
  <2> QED BY <1>1, <1>5, <2>1, <2>2, <2>5, AlignedGiven
<1> QED BY <1>6, <1>7, <1>8, <1>9

\* The arena as it is, and with one more chunk, meets requests.
LEMMA ArenaSupplies ==
    ASSUME IInv
    PROVE  Supplies(arena)
  BY DEF IInv, ArenaExact, Supplies, Alike

LEMMA ChunkSupplies ==
    ASSUME IInv, NEW A, NEW c \in Chunks, Provides(arena, A, c), NEW w \in Wants
    PROVE  Supplies(A) /\ Fits(A, <<c, 0>>, Need(w))
<1>1. Alike(arena, A, Taken(arena))
  BY DEF Provides, Still, Alike, Marked
<1>2. Need(w) <= NPages
  BY NeedFacts
<1> QED BY <1>1, <1>2 DEF Provides, Supplies, Fits

\* A section that asks the arena for a run.
LEMMA RunAllocKeeps ==
    ASSUME IInv, NEW t \in Threads, th[t].pc \in {"idle", "wantRun"}, NEW w \in Wants, RunAlloc(t, w)
    PROVE  IInv'
<1>1. bin' = bin
  BY DEF RunAlloc
<1>2. Ledger(arena, {}) /\ Typed(arena)
  BY DEF IInv, ArenaExact, Ledger
<1>3. CASE Fitting(arena, Need(w)) # {}
  <2>1. Given(t, w, arena, BestFit(arena, Need(w)))
    BY <1>3 DEF RunAlloc
  <2>2. Fits(arena, BestFit(arena, Need(w)), Need(w))
    BY <1>2, <1>3, BestFitFacts
  <2> QED BY <1>1, <2>1, <2>2, ArenaSupplies, GivenKeeps
<1>4. CASE Fitting(arena, Need(w)) = {} /\ arena.spare # None
  <2>1. Given(t, w, FromSpare(arena), <<arena.spare, 0>>)
    BY <1>4 DEF RunAlloc
  <2>2. arena.spare \in Chunks /\ Provides(arena, FromSpare(arena), arena.spare)
    BY <1>2, <1>4, TypedFacts, FromSpareFacts
  <2> QED BY <1>1, <2>1, <2>2, ChunkSupplies, GivenKeeps
<1>5. CASE Fitting(arena, Need(w)) = {} /\ arena.spare = None
  <2> DEFINE k == [pc |-> "chunk", want |-> w]
  <2>1. th' = [th EXCEPT ![t] = k] /\ arena' = arena /\ hdr' = hdr /\ live' = live
    BY <1>5 DEF RunAlloc, Goto
  <2>2. k \in Places /\ k.pc = "chunk"
    BY DEF Places
  <2> HIDE DEF k
  <2> QED BY <1>1, <2>1, <2>2, GoesElsewhere
<1> QED BY <1>3, <1>4, <1>5

\* arena_malloc_large and arena_palloc keep the invariant.
LEMMA MallocLargeKeeps ==
    ASSUME IInv, NEW t \in Threads, MallocLarge(t)
    PROVE  IInv'
  BY RunAllocKeeps DEF MallocLarge, At, Wants

\* So does arena_bin_nonfull_run_get, which has dropped bin->lock.
LEMMA BinRunAllocKeeps ==
    ASSUME IInv, NEW t \in Threads, BinRunAlloc(t)
    PROVE  IInv'
  BY RunAllocKeeps DEF BinRunAlloc, At, Wants

\* So does the section after chunk_alloc, with the new chunk, with a run that was freed
\* meanwhile, or with none.
LEMMA ChunkAllocatedKeeps ==
    ASSUME IInv, NEW t \in Threads, ChunkAllocated(t)
    PROVE  IInv'
<1> DEFINE w == th[t].want
           n == Need(w)
<1>1. bin' = bin /\ th[t].pc = "chunk"
  BY DEF ChunkAllocated, At
<1>2. Ledger(arena, {}) /\ th \in [Threads -> Places]
  BY DEF IInv, ArenaExact, StateTypes
<1>3. w \in Wants
  BY <1>1, <1>2 DEF Places, Idle, WorkType
<1>4. \/ \E c \in Chunks \ (Mapped(arena) \union InHand) : Given(t, w, NewChunk(arena, c), <<c, 0>>)
      \/ Fitting(arena, n) # {} /\ Given(t, w, arena, BestFit(arena, n))
      \/ /\ Goto(t, IF w.kind = "small" THEN [pc |-> "haveRun", run |-> None] ELSE Idle)
         /\ UNCHANGED <<arena, hdr, live>>
  BY DEF ChunkAllocated
<1> HIDE DEF w
<1>5. ASSUME NEW c \in Chunks \ (Mapped(arena) \union InHand), Given(t, w, NewChunk(arena, c), <<c, 0>>)
      PROVE  IInv'
  <2>1. arena.map[c] = << >>
    BY DEF Mapped
  <2>2. Provides(arena, NewChunk(arena, c), c)
    BY <1>2, <2>1, NewChunkFacts
  <2> QED BY <1>1, <1>3, <1>5, <2>2, ChunkSupplies, GivenKeeps
<1>6. CASE Fitting(arena, n) # {} /\ Given(t, w, arena, BestFit(arena, n))
  <2>1. Fits(arena, BestFit(arena, n), n)
    BY <1>2, <1>6, BestFitFacts
  <2> QED BY <1>1, <1>3, <1>6, <2>1, ArenaSupplies, GivenKeeps
<1>7. CASE /\ Goto(t, IF w.kind = "small" THEN [pc |-> "haveRun", run |-> None] ELSE Idle)
           /\ UNCHANGED <<arena, hdr, live>>
  <2> DEFINE k == IF w.kind = "small" THEN [pc |-> "haveRun", run |-> None] ELSE Idle
  <2>1. th' = [th EXCEPT ![t] = k] /\ arena' = arena /\ hdr' = hdr /\ live' = live
    BY <1>7 DEF Goto
  <2>2. k \in Places /\ k.pc \in {"idle", "wantRun", "chunk", "haveRun"} /\ (k.pc = "haveRun" => k.run = None)
    <3>1. CASE w.kind = "small"
      BY <3>1 DEF Places
    <3>2. CASE w.kind # "small"
      BY <3>2 DEF Places, Idle
    <3> QED BY <3>1, <3>2
  <2> HIDE DEF k
  <2> QED BY <1>1, <2>1, <2>2, GoesElsewhere
<1> QED BY <1>4, <1>5, <1>6, <1>7
-----------------------------------------------------------------------------
(* The theorems.                                                           *)

\* Nothing is in use at first.
LEMMA InitLedger ==
    ASSUME Init
    PROVE  Ledger(arena, {})
<1> DEFINE N == {}
<1>1. /\ arena = [map |-> [c \in Chunks |-> << >>], avail |-> {}, spare |-> None,
                  ndirty |-> 0, nactive |-> 0, npurg |-> 0,
                  info |-> [c \in Chunks |-> NoInfo],
                  unz |-> [c \in Chunks |-> {}], touched |-> [c \in Chunks |-> {}]]
      /\ DOMAIN << >> = N
  BY DEF Init
<1>2. /\ \A c \in Chunks : arena.map[c] = << >> /\ DOMAIN arena.map[c] = N /\ arena.info[c] = NoInfo
      /\ arena.avail = N /\ arena.spare = None /\ arena.ndirty = 0 /\ arena.nactive = 0
  BY <1>1
<1>3. Typed(arena)
  <2> DEFINE T == UNION {[D -> RunType] : D \in SUBSET Pages}
  <2>1. << >> \in T
    <3>1. << >> \in [N -> RunType] /\ N \in SUBSET Pages
      BY <1>1
    <3> QED BY <3>1
  <2> HIDE DEF T
  <2>2. NoInfo \in Info
    BY DEF NoInfo, Info
  <2>3. arena \in [map : [Chunks -> T],
              avail : SUBSET Spots, spare : Chunks \union {None},
              ndirty : Int, nactive : Int, npurg : Int, info : [Chunks -> Info],
              unz : [Chunks -> SUBSET Pages], touched : [Chunks -> SUBSET Pages]]
    BY <1>1, <2>1, <2>2
  <2> QED BY <1>2, <2>3 DEF Typed, T
<1>4. Outs(arena) = N /\ Taken(arena) = N /\ \A c \in Chunks : AvailIn(arena, c) = N
  BY <1>2 DEF Outs, Taken, AvailIn, FreeAt, Spots
<1> HIDE DEF N
<1>5. Counts(arena) /\ Totals(arena)
  <2>1. SumFunctionOnSet(Dirts(arena), N) = 0 /\ SumFunctionOnSet(Lens(arena), N) = 0
    BY SumEmpty DEF N
  <2>2. ASSUME NEW c \in Chunks
        PROVE  Counted(arena, c)
    <3>1. SumFunctionOnSet(DirtyIn(arena.map[c]), N) = 0
      BY SumEmpty DEF N
    <3>2. Cardinality(N) = 0
      BY FS_EmptySet DEF N
    <3>3. Adjacent(arena.map[c], N) = N
      BY DEF Adjacent, N
    <3> QED BY <1>2, <1>4, <3>1, <3>2, <3>3 DEF Counted, NoInfo
  <2> QED BY <1>2, <1>4, <2>1, <2>2 DEF Counts, Totals
<1>6. Stock(arena, {}) /\ Merged(arena) /\ Clean(arena)
  BY <1>2, <1>4 DEF Stock, Merged, Clean, N
<1> QED BY <1>3, <1>5, <1>6 DEF Ledger

\* Nobody has anything at first.
LEMMA InitIInv ==
    ASSUME Init
    PROVE  IInv
<1> DEFINE N == {}
<1>1. hdr = << >> /\ DOMAIN hdr = N /\ live = N /\ bin = [cur |-> None, runs |-> N]
  BY DEF Init
<1>2. \A t \in Threads : th[t] = Idle
  BY DEF Init
<1>3. Ledger(arena, {}) /\ arena.npurg = 0 /\ Word \in Nat \ {0} /\ IsFiniteSet(Threads)
  BY InitLedger, ArenaAssumption DEF Init
<1>4. Taken(arena) = N
  <2>1. \A c \in Chunks : DOMAIN arena.map[c] = {}
    BY DEF Init
  <2> QED BY <2>1 DEF Taken, Spots
<1>5. LargeRuns(N) = N
  BY DEF LargeRuns
<1>6. StateTypes
  <2>1. th \in [Threads -> Places]
    BY DEF Init, Places
  <2>2. hdr \in [N -> Headers] /\ N \subseteq Spots
    BY <1>1
  <2> QED BY <1>1, <2>1, <2>2 DEF StateTypes
<1> HIDE DEF N
<1>7. \A t \in Threads : ~Working(t) /\ HeldBy(t) = N /\ Pending(t) = N /\ ~Carrying(t)
  BY <1>2 DEF Working, HeldBy, Pending, Carrying, At, Idle, N
<1>8. \A t \in Threads : Owners[t] = N
  BY <1>5, <1>7 DEF Owners, N
<1>9. RunsOwned
  BY <1>1, <1>4, <1>5, <1>7, <1>8 DEF RunsOwned, N
<1>10. RunsMarked
  BY <1>1, <1>7 DEF RunsMarked, N
<1>11. RegionsOwned
  <2>1. Regions = N
    BY <1>1, <1>7 DEF Regions, N
  <2>2. Used(hdr) = N
    BY <1>1 DEF Used, N
  <2> QED BY <1>7, <2>1, <2>2 DEF RegionsOwned, N
<1>12. BinExact
  BY <1>1, <1>7 DEF BinExact, BinRunsFound, N
<1>13. ClaimsBalance
  <2> DEFINE f == [t \in Threads |-> IF Working(t) THEN th[t].claim ELSE 0]
  <2>1. DOMAIN f = Threads /\ \A t \in Threads : f[t] = 0
    BY <1>7
  <2> HIDE DEF f
  <2>2. SumFunctionOnSet(f, Threads) = 0
    BY <1>3, <2>1, SumZero
  <2>3. SumFunction(f) = 0
    BY <2>1, <2>2 DEF SumFunction
  <2>4. 0 % Word = 0
    BY <1>3
  <2>5. arena.npurg = SumFunction(f) % Word
    BY <1>3, <2>3, <2>4
  <2> QED BY <2>5 DEF ClaimsBalance, f
<1>14. ArenaExact
  BY <1>3 DEF ArenaExact
<1> QED BY <1>6, <1>9, <1>10, <1>11, <1>12, <1>13, <1>14 DEF IInv

\* Every step keeps the invariant.
LEMMA NextKeeps ==
    ASSUME IInv, [Next]_vars
    PROVE  IInv'
<1>1. CASE UNCHANGED vars
  <2>1. arena' = arena /\ bin' = bin /\ hdr' = hdr /\ live' = live /\ th' = th
    BY <1>1 DEF vars
  <2>2. \A t \in Threads : /\ Working(t)' = Working(t) /\ HeldBy(t)' = HeldBy(t) /\ Pending(t)' = Pending(t)
                           /\ Carrying(t)' = Carrying(t)
    BY <2>1 DEF Working, HeldBy, Pending, Carrying, At
  <2>3. Owners' = Owners /\ Regions' = Regions
    BY <2>1 DEF Owners, Regions, Working, HeldBy, Pending, At
  <2>4. StateTypes' /\ ArenaExact'
    BY <2>1 DEF IInv, StateTypes, ArenaExact
  <2>5. RunsOwned' /\ RunsMarked' /\ RegionsOwned'
    BY <2>1, <2>2, <2>3 DEF IInv, RunsOwned, RunsMarked, RegionsOwned
  <2>6. BinExact'
    <3>1. BinRunsFound' = BinRunsFound
      BY <2>1 DEF BinRunsFound, InTransit, NFree, At
    <3> QED BY <2>1, <2>2, <3>1 DEF IInv, BinExact
  <2>7. ClaimsBalance'
    <3>1. ClaimsBalance' = ClaimsBalance
      BY <2>1 DEF ClaimsBalance, Working
    <3> QED BY <3>1 DEF IInv
  <2> QED BY <2>4, <2>5, <2>6, <2>7 DEF IInv
<1>2. CASE Next
  <2>1. PICK t \in Threads : Step(t)
    BY <1>2 DEF Next
  <2>2. CASE MallocLarge(t)
    BY <2>2, MallocLargeKeeps
  <2>3. CASE BinRunAlloc(t)
    BY <2>3, BinRunAllocKeeps
  <2>4. CASE ChunkAllocated(t)
    BY <2>4, ChunkAllocatedKeeps
  <2>5. CASE MallocSmall(t)
    BY <2>5, MallocSmallKeeps
  <2>6. CASE MallocHard(t)
    BY <2>6, MallocHardKeeps
  <2>7. CASE DallocSmall(t)
    BY <2>7, DallocSmallKeeps
  <2>8. CASE DallocBinRun(t)
    BY <2>8, DallocBinRunKeeps
  <2>9. CASE DallocLarge(t)
    BY <2>9, DallocLargeKeeps
  <2>10. CASE RallocShrink(t)
    BY <2>10, RallocShrinkKeeps
  <2>11. CASE RallocGrow(t)
    BY <2>11, RallocGrowKeeps
  <2>12. CASE ChunkDealloc(t)
    BY <2>12, ChunkDeallocKeeps
  <2>13. CASE PagesPurged(t)
    BY <2>13, PagesPurgedKeeps
  <2> QED BY <2>1, <2>2, <2>3, <2>4, <2>5, <2>6, <2>7, <2>8, <2>9, <2>10, <2>11, <2>12, <2>13 DEF Step
<1> QED BY <1>1, <1>2

\* The inductive invariant: under every interleaving of the sections, for any number of threads,
\* chunks and pages, the page map is exact, every run and region has one holder, and what each
\* thread has in hand between two sections is still what it left.
THEOREM ArenaInvariant == Spec => []IInv
<1>1. Init => IInv
  BY InitIInv
<1>2. IInv /\ [Next]_vars => IInv'
  BY NextKeeps
<1> QED BY <1>1, <1>2, PTL DEF Spec

\* The counters of pages are at most the pages there are.
LEMMA TypesFollow ==
    ASSUME IInv
    PROVE  TypeOK
<1>1. StateTypes /\ Ledger(arena, {}) /\ Typed(arena) /\ arena.npurg \in 0 .. Word - 1
  BY DEF IInv, ArenaExact, Ledger
<1>2. ASSUME NEW c \in Chunks
      PROVE  /\ DOMAIN arena.map[c] \subseteq Pages
             /\ Range(arena.map[c]) \subseteq [kind : {"free", "large", "small"}, len : 1 .. NPages, dirty : BOOLEAN]
  <2>1. DOMAIN arena.map[c] \subseteq Pages
    BY <1>1, TypedFacts
  <2>2. \A p \in DOMAIN arena.map[c] : arena.map[c][p] \in RunType
    BY <1>1, TypedFacts, TilingTypes
  <2> QED BY <2>1, <2>2 DEF Range, RunType
<1>3. /\ arena.avail \subseteq Chunks \X Pages /\ arena.spare \in Chunks \union {None}
  BY <1>1, TypedFacts DEF Spots
<1>4. arena.ndirty \in 0 .. NChunks * NPages /\ arena.nactive \in 0 .. NChunks * NPages
  BY <1>1, CountersBounded
<1>5. /\ DOMAIN hdr \subseteq Chunks \X Pages
      /\ \A r \in DOMAIN hdr : hdr[r].free \subseteq Regs /\ hdr[r].nextind \in 0 .. NRegs
      /\ bin.cur \in DOMAIN hdr \union {None} /\ bin.runs \subseteq DOMAIN hdr
  <2>1. \A r \in DOMAIN hdr : hdr[r] \in Headers
    BY <1>1 DEF StateTypes
  <2>2. DOMAIN hdr \subseteq Chunks \X Pages
    BY <1>1 DEF StateTypes, Spots
  <2>3. bin.cur \in DOMAIN hdr \union {None} /\ bin.runs \subseteq DOMAIN hdr
    BY <1>1 DEF StateTypes
  <2> QED BY <2>1, <2>2, <2>3 DEF Headers
<1>6. ASSUME NEW t \in Threads
      PROVE  th[t].pc \in {"idle", "chunk", "wantRun", "haveRun", "freeRun", "unmap", "madvise"}
  BY <1>1 DEF StateTypes, Places, Idle, WorkType
<1> QED BY <1>1, <1>2, <1>3, <1>4, <1>5, <1>6 DEF TypeOK

\* The variables of the arena have their types; no thread stops while it holds arena->lock.
THEOREM ArenaTypes == Spec => []TypeOK
<1>1. IInv => TypeOK
  BY TypesFollow
<1> QED BY <1>1, ArenaInvariant, PTL

\* The boundary tags, the tree of available runs, ndirty, nactive and each chunk's counters are
\* exact after every section of arena.c, and no two free neighbours that are alike are left
\* uncoalesced.
THEOREM ArenaPageMap == Spec => []PageMapExact
<1>1. IInv => PageMapExact
  BY PageMapFollows DEF IInv, ArenaExact
<1> QED BY <1>1, ArenaInvariant, PTL

\* A page of a clean free run that was written since it came from the system is marked unzeroed,
\* so that arena_malloc_large and calloc clear it.
THEOREM ArenaCleanPages == Spec => []CleanPagesKnown
<1>1. IInv => CleanPagesKnown
  BY CleanFollows DEF IInv, ArenaExact
<1> QED BY <1>1, ArenaInvariant, PTL

\* arena->npurgatory is the sum of what the purging threads claim, modulo the word, although
\* arena_purge drops the lock in each turn.
THEOREM ArenaClaims == Spec => []ClaimsBalance
<1>1. IInv => ClaimsBalance
  BY DEF IInv
<1> QED BY <1>1, ArenaInvariant, PTL

\* A run of the bin with free regions is runcur or in the tree, and not both, unless a thread
\* has it in hand, unused, between arena_bin_malloc_hard or arena_dalloc_bin_locked and the
\* section that comes after.
THEOREM ArenaBinRuns == Spec => []BinRunsFound
<1>1. IInv => BinRunsFound
  BY DEF IInv, BinExact
<1> QED BY <1>1, ArenaInvariant, PTL

\* RunsOwned and RegionsOwned say what NothingLostOrShared does.
LEMMA OwnershipFollows ==
    ASSUME IInv
    PROVE  NothingLostOrShared
<1> DEFINE held == UNION Range(Owners)
           allocated == UNION {{c} \X (DOMAIN arena.map[c] \ FreeRuns(c)) : c \in Mapped(arena)}
           L == LargeRuns(live)
           H == DOMAIN hdr
<1>1. RunsOwned /\ RegionsOwned /\ StateTypes /\ Typed(arena)
  BY DEF IInv, ArenaExact, Ledger
<1>2. held = UNION {Owners[t] : t \in Threads}
  <2>1. DOMAIN Owners = Threads
    BY DEF Owners
  <2> QED BY <2>1 DEF Range
<1>3. allocated = Taken(arena)
  <2>1. allocated \subseteq Spots
    BY <1>1, TypedFacts DEF Mapped, Spots
  <2>2. \A c \in Chunks, p \in Pages : <<c, p>> \in allocated <=> <<c, p>> \in Taken(arena)
    <3> TAKE c \in Chunks, p \in Pages
    <3>1. <<c, p>> \in Taken(arena) <=> p \in DOMAIN arena.map[c] /\ arena.map[c][p].kind # "free"
      BY SpotFacts
    <3>2. DOMAIN << >> = {}
      OBVIOUS
    <3>3. <<c, p>> \in allocated <=> c \in Mapped(arena) /\ p \in DOMAIN arena.map[c] \ FreeRuns(c)
      OBVIOUS
    <3>4. p \in DOMAIN arena.map[c] => c \in Mapped(arena)
      BY <3>2 DEF Mapped
    <3> QED BY <3>1, <3>3, <3>4 DEF FreeRuns
  <2>3. Taken(arena) \subseteq Spots
    BY DEF Taken
  <2> HIDE DEF allocated
  <2> QED BY <2>1, <2>2, <2>3, SpotSets
<1> HIDE DEF held, allocated
<1>4. allocated = L \union H \union held /\ L \cap H = {} /\ (L \union H) \cap held = {}
  BY <1>1, <1>2, <1>3 DEF RunsOwned
<1>5. \A s, t \in Threads : s # t => Owners[s] \cap Owners[t] = {}
  BY <1>1 DEF RunsOwned
<1>6. ASSUME NEW r \in DOMAIN hdr
      PROVE  hdr[r].free = Regs \ {o.reg : o \in {x \in Regions : <<x.c, x.p>> = r}}
  <2>1. r \in Spots /\ hdr[r].free \subseteq Regs /\ r = <<r[1], r[2]>> /\ r[1] \in Chunks /\ r[2] \in Pages
    BY <1>1 DEF StateTypes, Headers, Spots
  <2>2. Regions = Used(hdr)
    BY <1>1 DEF RegionsOwned
  <2>3. ASSUME NEW g \in Regs
        PROVE  g \notin hdr[r].free <=> \E o \in Regions : <<o.c, o.p>> = r /\ o.reg = g
    <3>1. ASSUME g \notin hdr[r].free
          PROVE  \E o \in Regions : <<o.c, o.p>> = r /\ o.reg = g
      <4> DEFINE o == Object(r[1], r[2], g)
      <4>1. o \in ObjectType /\ o.c = r[1] /\ o.p = r[2] /\ o.reg = g /\ g # None
        BY <2>1, ObjectFacts
      <4> HIDE DEF o
      <4>2. <<o.c, o.p>> = r
        BY <2>1, <4>1
      <4>3. o \in Used(hdr)
        BY <3>1, <4>1, <4>2, UsedFacts
      <4> QED BY <2>2, <4>1, <4>2, <4>3
    <3>2. ASSUME NEW o \in Regions, <<o.c, o.p>> = r, o.reg = g
          PROVE  g \notin hdr[r].free
      BY <2>2, <3>2, UsedFacts
    <3> QED BY <3>1, <3>2
  <2> QED BY <2>1, <2>3
<1>7. \A o \in Regions : <<o.c, o.p>> \in DOMAIN hdr
  BY <1>1, UsedFacts DEF RegionsOwned
<1> QED BY <1>4, <1>5, <1>6, <1>7 DEF NothingLostOrShared, held, allocated, L, H

\* No run and no region is lost or given twice, although arena_purge, arena_dalloc_bin_run and
\* arena_bin_malloc_hard drop their lock with runs in hand.
THEOREM ArenaOwnership == Spec => []NothingLostOrShared
<1>1. IInv => NothingLostOrShared
  BY OwnershipFollows
<1> QED BY <1>1, ArenaInvariant, PTL
=============================================================================
