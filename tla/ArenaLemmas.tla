---------------------------- MODULE ArenaLemmas -----------------------------
(***************************************************************************)
(* What the operators of Arena do to the page map, to the tree of          *)
(* available runs and to the counters, for any chunks, pages and sizes,    *)
(* and what the turns of a section under arena->lock keep.                 *)
(***************************************************************************)
EXTENDS Arena, LoopsAndSums, SequenceTheorems
-----------------------------------------------------------------------------
(* Tilings.                                                                *)

RunType == [kind : {"free", "large", "small"}, len : 1 .. NPages, dirty : BOOLEAN]

\* The boundary tags of a chunk divide it.
IsTiling(m) ==
    /\ DOMAIN m \subseteq Pages /\ 0 \in DOMAIN m /\ m \in [DOMAIN m -> RunType]
    /\ \A p \in DOMAIN m : p + m[p].len = NPages \/ p + m[p].len \in DOMAIN m
    /\ \A p, q \in DOMAIN m : p < q => p + m[p].len <= q
-----------------------------------------------------------------------------
(* Page maps.                                                              *)

\* The tags of a chunk are runs that lie in it.
LEMMA TilingTypes ==
    ASSUME NEW m, IsTiling(m)
    PROVE  /\ NPages \in Nat \ {0}
           /\ \A p \in DOMAIN m : /\ p \in Nat /\ p < NPages /\ m[p] \in RunType
                                 /\ m[p].len \in Nat \ {0} /\ m[p].len \in 1 .. NPages
                                 /\ p + m[p].len <= NPages
<1>1. NPages \in Nat \ {0}
  BY ArenaAssumption
<1>2. ASSUME NEW p \in DOMAIN m
      PROVE  p \in Nat /\ p < NPages /\ m[p] \in RunType
  BY <1>1 DEF IsTiling, Pages
<1>3. ASSUME NEW p \in DOMAIN m
      PROVE  m[p].len \in Nat \ {0} /\ m[p].len \in 1 .. NPages
  BY <1>1, <1>2 DEF RunType
<1>4. ASSUME NEW p \in DOMAIN m
      PROVE  p + m[p].len <= NPages
  <2>1. p + m[p].len = NPages \/ p + m[p].len \in DOMAIN m
    BY DEF IsTiling
  <2>2. CASE p + m[p].len \in DOMAIN m
    <3>1. p + m[p].len < NPages
      BY <1>2, <2>2
    <3> QED BY <1>1, <1>2, <1>3, <3>1
  <2> QED BY <1>1, <1>2, <1>3, <2>1, <2>2
<1> QED BY <1>1, <1>2, <1>3, <1>4

\* Runs do not overlap: one run ends, and one lies, at each place.
LEMMA TilingFacts ==
    ASSUME NEW m, IsTiling(m), NEW p \in DOMAIN m, NEW q \in DOMAIN m
    PROVE  /\ q + m[q].len = p + m[p].len => q = p
           /\ q \in Extent(p, m[p].len) => q = p
           /\ \A i \in Extent(p, m[p].len) : i \in Extent(q, m[q].len) => q = p
<1>1. /\ p \in Nat /\ m[p].len \in Nat \ {0}
      /\ q \in Nat /\ m[q].len \in Nat \ {0}
  BY TilingTypes
<1>2. (p < q => p + m[p].len <= q) /\ (q < p => q + m[q].len <= p)
  BY DEF IsTiling
<1> DEFINE k == m[p].len
           l == m[q].len
<1>3. /\ k \in Nat \ {0} /\ l \in Nat \ {0}
      /\ (p < q => p + k <= q) /\ (q < p => q + l <= p)
  BY <1>1, <1>2
<1> HIDE DEF k, l
<1>4. (q + l = p + k => q = p) /\ (q \in p .. p + k - 1 => q = p)
  BY <1>1, <1>3
<1>5. ASSUME NEW i \in p .. p + k - 1, i \in q .. q + l - 1
      PROVE  q = p
  BY <1>1, <1>3, <1>5
<1> QED BY <1>4, <1>5 DEF Extent, k, l

\* Every page is in one run.
LEMMA TilingCovers ==
    ASSUME NEW m, IsTiling(m), NEW i \in Pages
    PROVE  \E p \in DOMAIN m : i \in Extent(p, m[p].len)
<1> DEFINE S == {n \in Nat : \E p \in DOMAIN m : p <= i /\ n = i - p}
<1>1. i \in S
  BY DEF IsTiling, Pages
<1>2. PICK n \in S : \A k \in S : n <= k
  BY <1>1, LeastOf
<1>3. PICK p \in DOMAIN m : p <= i /\ n = i - p
  BY <1>2
<1>4. \A q \in DOMAIN m : q \in Nat /\ m[q].len \in Nat \ {0} /\ q < NPages
  BY TilingTypes
<1>5. \A q \in DOMAIN m : q <= i => q <= p
  <2> TAKE q \in DOMAIN m
  <2> HAVE q <= i
  <2>1. i - q \in S
    BY <1>4 DEF Pages
  <2> QED BY <1>2, <1>3, <1>4, <2>1 DEF Pages
<1>6. p + m[p].len > i
  <2>1. p + m[p].len = NPages \/ p + m[p].len \in DOMAIN m
    BY DEF IsTiling
  <2>2. NPages \in Nat /\ i \in Nat /\ i < NPages
    BY ArenaAssumption DEF Pages
  <2>3. CASE p + m[p].len \in DOMAIN m
    <3>1. ~ (p + m[p].len <= i)
      BY <1>4, <1>5, <2>3
    <3> QED BY <1>4, <2>2, <2>3, <3>1
  <2> QED BY <1>4, <2>1, <2>2, <2>3
<1> QED BY <1>3, <1>4, <1>6 DEF Extent, Pages

\* A run is relabelled.
LEMMA TileSame ==
    ASSUME NEW m, IsTiling(m), NEW w, DOMAIN w = DOMAIN m, w \in [DOMAIN w -> RunType],
           \A p \in DOMAIN m : w[p].len = m[p].len
    PROVE  IsTiling(w)
  BY DEF IsTiling

\* A run is cut in two.
LEMMA TileSplit ==
    ASSUME NEW m, IsTiling(m), NEW p \in DOMAIN m, NEW n \in 1 .. m[p].len - 1,
           NEW w, DOMAIN w = DOMAIN m \union {p + n}, w \in [DOMAIN w -> RunType],
           w[p].len = n, w[p + n].len = m[p].len - n,
           \A q \in DOMAIN m \ {p} : w[q].len = m[q].len
    PROVE  IsTiling(w)
<1>1. \A q \in DOMAIN m : q \in Nat /\ m[q].len \in Nat \ {0} /\ q < NPages /\ q + m[q].len <= NPages
  BY TilingTypes
<1>2. p + n \in Nat /\ p + n < p + m[p].len /\ p < p + n /\ n \in Nat
  BY <1>1
<1>3. \A q \in DOMAIN m : (p < q => p + m[p].len <= q) /\ (q < p => q + m[q].len <= p)
  BY DEF IsTiling
<1>4. \A q \in DOMAIN m : q # p => q # p + n
  BY <1>1, <1>2, <1>3
<1>5. DOMAIN w \subseteq Pages /\ 0 \in DOMAIN w
  <2>1. NPages \in Nat /\ m[p].len \in Nat /\ p + m[p].len <= NPages
    BY TilingTypes
  <2>2. p + n \in 0 .. NPages - 1
    BY <1>1, <1>2, <2>1
  <2> QED BY <2>2 DEF IsTiling, Pages
<1>6. ASSUME NEW q \in DOMAIN w
      PROVE  q + w[q].len = NPages \/ q + w[q].len \in DOMAIN w
  <2>1. CASE q = p
    BY <2>1
  <2>2. CASE q = p + n
    <3>1. q + w[q].len = p + m[p].len
      BY <1>1, <1>2, <2>2
    <3> QED BY <3>1 DEF IsTiling
  <2>3. CASE q \in DOMAIN m \ {p}
    BY <2>3 DEF IsTiling
  <2> QED BY <2>1, <2>2, <2>3
<1>7. ASSUME NEW q \in DOMAIN w, NEW r \in DOMAIN w, q < r
      PROVE  q + w[q].len <= r
  <2>1. CASE q = p + n
    <3>1. r \in DOMAIN m /\ p < r
      BY <1>1, <1>2, <1>7, <2>1
    <3>2. p + m[p].len <= r
      BY <1>3, <3>1
    <3>3. q + w[q].len = p + m[p].len
      BY <1>1, <1>2, <2>1
    <3> QED BY <3>2, <3>3
  <2>2. CASE q = p
    <3>1. CASE r = p + n
      BY <1>2, <2>2, <3>1
    <3>2. CASE r # p + n
      BY <1>1, <1>2, <1>3, <1>7, <2>2, <3>2
    <3> QED BY <3>1, <3>2
  <2>3. CASE q \in DOMAIN m \ {p} /\ r = p + n
    <3>1. q + m[q].len <= p
      BY <1>1, <1>2, <1>3, <1>7, <2>3
    <3> QED BY <1>1, <1>2, <2>3, <3>1
  <2>4. CASE q \in DOMAIN m \ {p} /\ r \in DOMAIN m
    BY <1>7, <2>4 DEF IsTiling
  <2> QED BY <2>1, <2>2, <2>3, <2>4
<1> QED BY <1>5, <1>6, <1>7 DEF IsTiling

\* A run is cut where no run begins.
LEMMA SplitPoint ==
    ASSUME NEW m, IsTiling(m), NEW p \in DOMAIN m, NEW n \in 1 .. m[p].len - 1
    PROVE  p + n \notin DOMAIN m /\ p + n \in Pages
<1>1. p \in Nat /\ p + m[p].len <= NPages /\ m[p].len \in Nat
  BY TilingTypes
<1>2. p + n \in Extent(p, m[p].len) /\ p + n # p
  BY <1>1 DEF Extent
<1> QED BY <1>1, <1>2, TilingFacts, ArenaAssumption, SMTT(30) DEF Pages

\* Two runs become one.
LEMMA TileJoin ==
    ASSUME NEW m, IsTiling(m), NEW p \in DOMAIN m, NEW q \in DOMAIN m, q = p + m[p].len,
           NEW w, DOMAIN w = DOMAIN m \ {q}, w \in [DOMAIN w -> RunType],
           w[p].len = m[p].len + m[q].len,
           \A r \in DOMAIN w \ {p} : w[r].len = m[r].len
    PROVE  IsTiling(w)
<1>1. \A r \in DOMAIN m : r \in Nat /\ m[r].len \in Nat \ {0} /\ r < NPages /\ r + m[r].len <= NPages
  BY TilingTypes
<1>2. \A r, s \in DOMAIN m : r < s => r + m[r].len <= s
  BY DEF IsTiling
<1>3. p \in DOMAIN w /\ p < q
  BY <1>1
<1>4. DOMAIN w \subseteq Pages /\ 0 \in DOMAIN w
  BY <1>1, <1>3 DEF IsTiling
<1>5. ASSUME NEW r \in DOMAIN w
      PROVE  r + w[r].len = NPages \/ r + w[r].len \in DOMAIN w
  <2>1. CASE r = p
    <3>1. r + w[r].len = q + m[q].len
      BY <1>1, <2>1
    <3>2. q + m[q].len # q
      BY <1>1
    <3> QED BY <3>1, <3>2 DEF IsTiling
  <2>2. CASE r # p
    <3>1. r + m[r].len = NPages \/ r + m[r].len \in DOMAIN m
      BY DEF IsTiling
    <3>2. r + m[r].len # q
      BY <2>2, TilingFacts
    <3> QED BY <2>2, <3>1, <3>2
  <2> QED BY <2>1, <2>2
<1>6. ASSUME NEW r \in DOMAIN w, NEW s \in DOMAIN w, r < s
      PROVE  r + w[r].len <= s
  <2>1. CASE r = p
    <3>1. q <= s /\ s # q
      BY <1>2, <1>6, <2>1
    <3>2. q < s
      BY <1>1, <3>1
    <3> QED BY <1>1, <1>2, <2>1, <3>2
  <2>2. CASE r # p
    BY <1>2, <1>6, <2>2
  <2> QED BY <2>1, <2>2
<1> QED BY <1>4, <1>5, <1>6 DEF IsTiling
-----------------------------------------------------------------------------
(* The arena's records.                                                    *)

Spots == Chunks \X Pages
Info == [ndirty : Int, navail : Int, nadjac : Int]

Typed(A) ==
    /\ A \in [map : [Chunks -> UNION {[D -> RunType] : D \in SUBSET Pages}],
              avail : SUBSET Spots, spare : Chunks \union {None},
              ndirty : Int, nactive : Int, npurg : Int, info : [Chunks -> Info],
              unz : [Chunks -> SUBSET Pages], touched : [Chunks -> SUBSET Pages]]
    /\ \A c \in Chunks : A.map[c] = << >> \/ IsTiling(A.map[c])
    /\ A.spare # None => Unused(A, A.spare)

\* The free runs, those of the spare chunk excepted; the allocated ones.
Outs(A) == {r \in Spots : FreeAt(A, r[1], r[2]) /\ r[1] # A.spare}
Taken(A) == {r \in Spots : r[2] \in DOMAIN A.map[r[1]] /\ A.map[r[1]][r[2]].kind # "free"}

\* X are free runs that are not in the tree at the moment.
Stock(A, X) == X \subseteq Outs(A) /\ A.avail = Outs(A) \ X

AvailIn(A, c) == {p \in Pages : <<c, p>> \in A.avail}
Adjacent(m, V) == {p \in V : \E q \in V : q + m[q].len = p}
DirtyIn(m) == [p \in Pages |-> IF p \in DOMAIN m THEN DirtyPages(m[p]) ELSE 0]
Counted(A, c) ==
    /\ A.info[c].ndirty = SumFunctionOnSet(DirtyIn(A.map[c]), AvailIn(A, c))
    /\ A.info[c].navail = Cardinality(AvailIn(A, c))
    /\ A.info[c].nadjac = Cardinality(Adjacent(A.map[c], AvailIn(A, c)))

Dirts(A) == [r \in Spots |-> DirtyIn(A.map[r[1]])[r[2]]]
Lens(A) == [r \in Spots |-> IF r[2] \in DOMAIN A.map[r[1]] THEN A.map[r[1]][r[2]].len ELSE 0]
Counts(A) ==
    /\ \A c \in Chunks : Counted(A, c)
    /\ A.ndirty = SumFunctionOnSet(Dirts(A), A.avail)
Totals(A) == A.nactive = SumFunctionOnSet(Lens(A), Taken(A))

\* Neighbours in the tree differ in dirtiness.
Merged(A) ==
    \A c \in Chunks : \A p, q \in AvailIn(A, c) :
        q + A.map[c][q].len = p => A.map[c][p].dirty # A.map[c][q].dirty

\* The pages of a run that were written bear the mark.
Marked(A, c, p) == A.touched[c] \cap Extent(p, A.map[c][p].len) \subseteq A.unz[c]
Clean(A) ==
    \A c \in Chunks : \A p \in DOMAIN A.map[c] :
        A.map[c][p].kind = "free" /\ ~A.map[c][p].dirty => Marked(A, c, p)

Ledger(A, X) == Typed(A) /\ Stock(A, X) /\ Counts(A) /\ Totals(A) /\ Merged(A) /\ Clean(A)
-----------------------------------------------------------------------------
(* The counters.                                                           *)

\* There are finitely many places for a run.
LEMMA FiniteSpots ==
    /\ IsFiniteSet(Pages) /\ Cardinality(Pages) = NPages
    /\ IsFiniteSet(Chunks) /\ Cardinality(Chunks) = NChunks
    /\ IsFiniteSet(Spots)
<1>1. IsFiniteSet(Pages) /\ Cardinality(Pages) = NPages
  <2>1. NPages \in Nat \ {0} /\ NPages - 1 \in Int /\ 0 \in Int
    BY ArenaAssumption
  <2>2. /\ IsFiniteSet(0 .. NPages - 1)
        /\ Cardinality(0 .. NPages - 1) = IF 0 > NPages - 1 THEN 0 ELSE NPages - 1 - 0 + 1
    BY <2>1, FS_Interval
  <2> QED BY <2>1, <2>2 DEF Pages
<1>2. IsFiniteSet(Chunks) /\ Cardinality(Chunks) = NChunks
  <2>1. NChunks \in Nat \ {0} /\ NChunks \in Int /\ 1 \in Int
    BY ArenaAssumption
  <2>2. IsFiniteSet(1 .. NChunks) /\ Cardinality(1 .. NChunks) = IF 1 > NChunks THEN 0 ELSE NChunks - 1 + 1
    BY <2>1, FS_Interval
  <2> QED BY <2>1, <2>2 DEF Chunks
<1>3. IsFiniteSet(Spots)
  BY <1>1, <1>2, FS_Product DEF Spots
<1> QED BY <1>1, <1>2, <1>3

\* The free neighbours of p in the set V.
Near(m, V, p) == {q \in V : q + m[q].len = p \/ q = p + m[p].len}

\* A run that joins V adds as many neighbouring pairs as it has neighbours.
LEMMA NearCounted ==
    ASSUME NEW m, IsTiling(m), NEW V \in SUBSET DOMAIN m, NEW p \in DOMAIN m, p \notin V
    PROVE  /\ Cardinality(Adjacent(m, V)) \in Nat
           /\ Cardinality(Near(m, V, p)) \in Nat
           /\ Cardinality(Adjacent(m, V \union {p})) = Cardinality(Adjacent(m, V)) + Cardinality(Near(m, V, p))
<1> DEFINE s == p + m[p].len
           J == Adjacent(m, V)
           K == Adjacent(m, V \union {p})
           before == {q \in V : q + m[q].len = p}
<1>0. IsFiniteSet(J) /\ IsFiniteSet(before) /\ J \subseteq V
  <2>1. V \subseteq Pages
    BY DEF IsTiling
  <2> QED BY <2>1, FiniteSpots, FS_Subset DEF Adjacent
<1>1. Cardinality(J) \in Nat
  BY <1>0, FS_CardinalityType
<1>2. \A q \in DOMAIN m : q + m[q].len = s => q = p
  BY TilingFacts
<1>3. s \notin J
  BY <1>2 DEF Adjacent
<1>4. \A q, r \in before : q = r
  BY TilingFacts
<1>5. \A q \in DOMAIN m : q + m[q].len # q /\ q \in Nat /\ m[q].len \in Nat \ {0}
  BY TilingTypes
<1>6. p \notin J /\ p # s
  BY <1>0, <1>5
<1>7. K = J \union {x \in {p} : before # {}} \union {x \in {s} : s \in V}
  <2>1. K \subseteq J \union {x \in {p} : before # {}} \union {x \in {s} : s \in V}
    <3> SUFFICES ASSUME NEW x \in K
                 PROVE  x \in J \/ (x = p /\ before # {}) \/ (x = s /\ s \in V)
      OBVIOUS
    <3>1. PICK q \in V \union {p} : q + m[q].len = x
      BY DEF Adjacent
    <3>2. x \in V \union {p}
      BY DEF Adjacent
    <3>3. CASE q = p
      BY <1>6, <3>1, <3>2, <3>3
    <3>4. CASE q \in V /\ x = p
      BY <3>1, <3>4
    <3>5. CASE q \in V /\ x \in V
      BY <3>1, <3>5 DEF Adjacent
    <3> QED BY <3>2, <3>3, <3>4, <3>5
  <2>2. J \subseteq K
    BY DEF Adjacent
  <2>3. before # {} => p \in K
    BY DEF Adjacent
  <2>4. s \in V => s \in K
    BY DEF Adjacent
  <2> QED BY <2>1, <2>2, <2>3, <2>4
<1>8. Near(m, V, p) = before \union {x \in {s} : s \in V}
  BY DEF Near
<1>9. s \notin before
  <2>1. s \in V => s + m[s].len # p
    <3>1. ASSUME s \in V
          PROVE  s \in Nat /\ m[s].len \in Nat /\ p < s
      BY <1>5, <3>1
    <3> QED BY <1>5, <3>1
  <2> QED BY <2>1
<1> HIDE DEF J, K, before, s
<1>10. CASE before = {}
  <2>1. CASE s \in V
    <3>1. K = J \union {s} /\ Near(m, V, p) = {s}
      BY <1>7, <1>8, <1>10, <2>1
    <3>2. Cardinality(K) = Cardinality(J) + 1 /\ Cardinality({s}) = 1
      BY <1>0, <1>3, <3>1, FS_AddElement, FS_Singleton
    <3> QED BY <1>1, <3>1, <3>2 DEF J, K
  <2>2. CASE s \notin V
    <3>1. K = J /\ Near(m, V, p) = {}
      BY <1>7, <1>8, <1>10, <2>2
    <3> QED BY <1>1, <3>1, FS_EmptySet DEF J, K
  <2> QED BY <2>1, <2>2
<1>11. CASE before # {}
  <2>0. PICK b : before = {b}
    BY <1>4, <1>11
  <2>1. IsFiniteSet(J \union {p}) /\ Cardinality(J \union {p}) = Cardinality(J) + 1
    BY <1>0, <1>6, FS_AddElement
  <2>2. IsFiniteSet({b}) /\ Cardinality({b}) = 1
    BY FS_Singleton
  <2>3. CASE s \in V
    <3>1. K = (J \union {p}) \union {s} /\ Near(m, V, p) = {b} \union {s}
      BY <1>7, <1>8, <1>11, <2>0, <2>3
    <3>2. s \notin J \union {p} /\ s \notin {b}
      BY <1>3, <1>6, <1>9, <2>0
    <3>3. Cardinality(K) = Cardinality(J) + 1 + 1 /\ Cardinality({b} \union {s}) = 1 + 1
      BY <2>1, <2>2, <3>1, <3>2, FS_AddElement
    <3>4. Cardinality(Near(m, V, p)) = 2 /\ Cardinality(K) = Cardinality(J) + 2
      BY <1>1, <3>1, <3>3
    <3> QED BY <1>1, <3>4 DEF J, K
  <2>4. CASE s \notin V
    <3>1. K = J \union {p} /\ Near(m, V, p) = {b}
      BY <1>7, <1>8, <1>11, <2>0, <2>4
    <3>2. Cardinality(Near(m, V, p)) = 1 /\ Cardinality(K) = Cardinality(J) + 1
      BY <2>1, <2>2, <3>1
    <3> QED BY <1>1, <3>2 DEF J, K
  <2> QED BY <2>3, <2>4
<1> QED BY <1>10, <1>11
-----------------------------------------------------------------------------
(* Insertion into the tree and removal from it.                            *)

\* What the types say of one arena.
LEMMA TypedFacts ==
    ASSUME NEW A, Typed(A)
    PROVE  /\ A.spare \in Chunks \union {None} /\ A.avail \subseteq Spots
           /\ A.ndirty \in Int /\ A.nactive \in Int /\ A.npurg \in Int
           /\ A.info \in [Chunks -> Info] /\ DOMAIN A.map = Chunks
           /\ A.unz \in [Chunks -> SUBSET Pages] /\ A.touched \in [Chunks -> SUBSET Pages]
           /\ \A c \in Chunks : A.map[c] = << >> \/ IsTiling(A.map[c])
           /\ \A c \in Chunks : DOMAIN A.map[c] \subseteq Pages
           /\ \A c \in Chunks : \A p \in DOMAIN A.map[c] : IsTiling(A.map[c])
<1>1. \A c \in Chunks : \A p \in DOMAIN A.map[c] : A.map[c] # << >>
  OBVIOUS
<1>2. \A c \in Chunks : A.map[c] = << >> => DOMAIN A.map[c] \subseteq Pages
  OBVIOUS
<1>3. \A c \in Chunks : IsTiling(A.map[c]) => DOMAIN A.map[c] \subseteq Pages
  BY DEF IsTiling
<1> QED BY <1>1, <1>2, <1>3 DEF Typed

\* The available runs of a chunk are free runs.
LEMMA AvailInFacts ==
    ASSUME NEW A, Typed(A), A.avail \subseteq Outs(A), NEW c \in Chunks
    PROVE  /\ AvailIn(A, c) \subseteq DOMAIN A.map[c] /\ AvailIn(A, c) \subseteq Pages
           /\ \A p \in AvailIn(A, c) : A.map[c][p].kind = "free"
           /\ IsFiniteSet(AvailIn(A, c)) /\ IsFiniteSet(A.avail)
<1>1. AvailIn(A, c) \subseteq DOMAIN A.map[c] /\ AvailIn(A, c) \subseteq Pages
  BY DEF AvailIn, Outs, FreeAt
<1>2. \A p \in AvailIn(A, c) : A.map[c][p].kind = "free"
  BY DEF AvailIn, Outs, FreeAt
<1>3. IsFiniteSet(AvailIn(A, c)) /\ IsFiniteSet(A.avail)
  BY <1>1, FiniteSpots, FS_Subset, TypedFacts
<1> QED BY <1>1, <1>2, <1>3

\* Dirty pages and lengths are numbers.
LEMMA DirtyTypes ==
    ASSUME NEW A, Typed(A)
    PROVE  /\ \A c \in Chunks : \A p \in Pages : DirtyIn(A.map[c])[p] \in Nat
           /\ \A r \in Spots : /\ Dirts(A)[r] \in Nat /\ Lens(A)[r] \in Nat
                               /\ Dirts(A)[r] <= Lens(A)[r] /\ Dirts(A)[r] = DirtyIn(A.map[r[1]])[r[2]]
<1>1. ASSUME NEW c \in Chunks, NEW p \in DOMAIN A.map[c]
      PROVE  /\ A.map[c][p].len \in Nat /\ DirtyPages(A.map[c][p]) \in Nat
             /\ DirtyPages(A.map[c][p]) <= A.map[c][p].len
  BY TypedFacts, TilingTypes DEF DirtyPages
<1>2. ASSUME NEW c \in Chunks, NEW p \in Pages
      PROVE  DirtyIn(A.map[c])[p] \in Nat
  BY <1>1 DEF DirtyIn
<1>3. ASSUME NEW r \in Spots
      PROVE  /\ Dirts(A)[r] \in Nat /\ Lens(A)[r] \in Nat
             /\ Dirts(A)[r] <= Lens(A)[r] /\ Dirts(A)[r] = DirtyIn(A.map[r[1]])[r[2]]
  <2>1. r[1] \in Chunks /\ r[2] \in Pages
    BY DEF Spots
  <2>2. Dirts(A)[r] = DirtyIn(A.map[r[1]])[r[2]]
    BY DEF Dirts
  <2>3. Lens(A)[r] = IF r[2] \in DOMAIN A.map[r[1]] THEN A.map[r[1]][r[2]].len ELSE 0
    BY DEF Lens
  <2>4. DirtyIn(A.map[r[1]])[r[2]] = IF r[2] \in DOMAIN A.map[r[1]] THEN DirtyPages(A.map[r[1]][r[2]]) ELSE 0
    BY <2>1 DEF DirtyIn
  <2>5. CASE r[2] \in DOMAIN A.map[r[1]]
    BY <1>1, <2>1, <2>2, <2>3, <2>4, <2>5
  <2>6. CASE r[2] \notin DOMAIN A.map[r[1]]
    BY <2>2, <2>3, <2>4, <2>6
  <2> QED BY <2>5, <2>6
<1> QED BY <1>2, <1>3

Rest(A, B) ==
    /\ B.map = A.map /\ B.spare = A.spare /\ B.nactive = A.nactive /\ B.npurg = A.npurg
    /\ B.unz = A.unz /\ B.touched = A.touched

\* The run at <<c, p>>, with n neighbours in the tree, comes into it or leaves it.
Changed(A, B, c, p, n, sign) ==
    /\ Typed(B) /\ Rest(A, B)
    /\ B.avail = IF sign = 1 THEN A.avail \union {<<c, p>>} ELSE A.avail \ {<<c, p>>}
    /\ B.ndirty = A.ndirty + sign * DirtyPages(A.map[c][p])
    /\ B.info = [A.info EXCEPT
           ![c] = [ndirty |-> A.info[c].ndirty + sign * DirtyPages(A.map[c][p]),
                   navail |-> A.info[c].navail + sign,
                   nadjac |-> A.info[c].nadjac + sign * n]]

\* What arena_avail_insert and arena_avail_remove leave alone.
LEMMA ChangeFields ==
    ASSUME NEW A, Typed(A), NEW c \in Chunks, NEW p \in DOMAIN A.map[c], NEW pred, NEW succ,
           NEW sign \in {1, -1}, NAdjac(A, c, p, pred, succ) \in Nat,
           NEW B, B = AvailChange(A, c, p, pred, succ, sign)
    PROVE  Changed(A, B, c, p, NAdjac(A, c, p, pred, succ), sign)
<1> DEFINE d == DirtyPages(A.map[c][p])
           n == NAdjac(A, c, p, pred, succ)
<1>1. d \in Nat
  BY TypedFacts, TilingTypes DEF DirtyPages
<1>2. B = [A EXCEPT !.ndirty = @ + sign * d,
                    !.info[c] = [ndirty |-> @.ndirty + sign * d, navail |-> @.navail + sign,
                                 nadjac |-> @.nadjac + sign * n],
                    !.avail = IF sign = 1 THEN @ \union {<<c, p>>} ELSE @ \ {<<c, p>>}]
  BY DEF AvailChange
<1>3. <<c, p>> \in Spots
  BY TypedFacts DEF Spots
<1> HIDE DEF d, n
<1>4. A \in [map : [Chunks -> UNION {[D -> RunType] : D \in SUBSET Pages}],
              avail : SUBSET Spots, spare : Chunks \union {None},
              ndirty : Int, nactive : Int, npurg : Int, info : [Chunks -> Info],
              unz : [Chunks -> SUBSET Pages], touched : [Chunks -> SUBSET Pages]]
  BY DEF Typed
<1>5. /\ B.map = A.map /\ B.spare = A.spare /\ B.nactive = A.nactive /\ B.npurg = A.npurg
      /\ B.unz = A.unz /\ B.touched = A.touched
      /\ B.ndirty = A.ndirty + sign * d
      /\ B.avail = IF sign = 1 THEN A.avail \union {<<c, p>>} ELSE A.avail \ {<<c, p>>}
      /\ B.info = [A.info EXCEPT
                  ![c] = [ndirty |-> A.info[c].ndirty + sign * d, navail |-> A.info[c].navail + sign,
                          nadjac |-> A.info[c].nadjac + sign * n]]
  BY <1>2, <1>4
<1>6. sign * d \in Int /\ sign * n \in Int
  BY <1>1 DEF n
<1>7. /\ A.info[c].ndirty \in Int /\ A.info[c].navail \in Int /\ A.info[c].nadjac \in Int
  BY <1>4 DEF Info
<1>8. [ndirty |-> A.info[c].ndirty + sign * d, navail |-> A.info[c].navail + sign,
       nadjac |-> A.info[c].nadjac + sign * n] \in Info
  BY <1>6, <1>7 DEF Info
<1>9. B.info \in [Chunks -> Info] /\ B.avail \in SUBSET Spots /\ B.ndirty \in Int
  BY <1>3, <1>4, <1>5, <1>6, <1>8
<1>10. B \in [map : [Chunks -> UNION {[D -> RunType] : D \in SUBSET Pages}],
              avail : SUBSET Spots, spare : Chunks \union {None},
              ndirty : Int, nactive : Int, npurg : Int, info : [Chunks -> Info],
              unz : [Chunks -> SUBSET Pages], touched : [Chunks -> SUBSET Pages]]
  BY <1>2, <1>4, <1>9
<1>11. Typed(B)
  BY <1>5, <1>10 DEF Typed, Unused
<1> QED BY <1>5, <1>11 DEF Rest, Changed, d, n

\* What depends on the page map only.
LEMMA RestKept ==
    ASSUME NEW A, NEW B, Rest(A, B)
    PROVE  /\ Outs(B) = Outs(A) /\ Taken(B) = Taken(A) /\ Lens(B) = Lens(A) /\ Dirts(B) = Dirts(A)
           /\ (Totals(A) => Totals(B)) /\ (Clean(A) => Clean(B))
<1>1. Outs(B) = Outs(A) /\ Taken(B) = Taken(A)
  BY DEF Rest, Outs, Taken, FreeAt
<1>2. Lens(B) = Lens(A) /\ Dirts(B) = Dirts(A)
  BY DEF Rest, Lens, Dirts
<1> QED BY <1>1, <1>2 DEF Totals, Rest, Clean, Marked

\* arena_avail_insert of a run that is counted right keeps the counters exact.
LEMMA Inserted ==
    ASSUME NEW A, NEW X, Ledger(A, X), NEW c \in Chunks, NEW p, <<c, p>> \in X,
           NEW pred, NEW succ, Fragments(A, c, p, pred, succ) = Near(A.map[c], AvailIn(A, c), p),
           \A q \in Near(A.map[c], AvailIn(A, c), p) : A.map[c][q].dirty # A.map[c][p].dirty,
           NEW B, B = AvailInsert(A, c, p, pred, succ)
    PROVE  Ledger(B, X \ {<<c, p>>}) /\ Rest(A, B)
<1> USE DEF Ledger
<1> DEFINE V == AvailIn(A, c)
           m == A.map[c]
           n == NAdjac(A, c, p, pred, succ)
<1>1. p \in DOMAIN m /\ p \in Pages /\ p \notin V /\ <<c, p>> \in Spots /\ <<c, p>> \notin A.avail
  BY DEF Stock, Outs, Spots, FreeAt, AvailIn
<1>2. IsTiling(m) /\ V \in SUBSET DOMAIN m /\ IsFiniteSet(V) /\ V \subseteq Pages /\ IsFiniteSet(A.avail)
  BY <1>1, TypedFacts, AvailInFacts DEF Stock
<1>3. n = Cardinality(Near(m, V, p))
  BY DEF NAdjac
<1>4. /\ n \in Nat /\ Cardinality(Adjacent(m, V)) \in Nat
      /\ Cardinality(Adjacent(m, V \union {p})) = Cardinality(Adjacent(m, V)) + n
  <2> HIDE DEF V, m, n
  <2> QED BY <1>1, <1>2, <1>3, NearCounted
<1>5. /\ Typed(B) /\ Rest(A, B) /\ B.avail = A.avail \union {<<c, p>>}
      /\ B.ndirty = A.ndirty + DirtyPages(m[p])
      /\ B.info = [A.info EXCEPT ![c] = [ndirty |-> A.info[c].ndirty + DirtyPages(m[p]),
                                         navail |-> A.info[c].navail + 1,
                                         nadjac |-> A.info[c].nadjac + n]]
  <2>1. B = AvailChange(A, c, p, pred, succ, 1)
    BY DEF AvailInsert
  <2>2. DirtyPages(m[p]) \in Nat
    BY <1>1, <1>2, TilingTypes DEF DirtyPages
  <2>3. Changed(A, B, c, p, n, 1)
    <3>1. n \in Nat /\ 1 \in {1, -1} /\ p \in DOMAIN A.map[c]
      BY <1>1, <1>4
    <3> QED BY <2>1, <3>1, ChangeFields
  <2>4. 1 * DirtyPages(m[p]) = DirtyPages(m[p]) /\ 1 * n = n
    BY <1>4, <2>2
  <2> QED BY <2>3, <2>4 DEF Changed
<1>6. Stock(B, X \ {<<c, p>>})
  BY <1>5, RestKept DEF Stock
<1>7. ASSUME NEW e \in Chunks
      PROVE  Counted(B, e)
  <2>1. B.map = A.map
    BY <1>5 DEF Rest
  <2>2. Counted(A, e)
    BY DEF Counts
  <2>3. CASE e # c
    <3>1. AvailIn(B, e) = AvailIn(A, e) /\ B.info[e] = A.info[e]
      BY <1>5, <2>3, TypedFacts DEF AvailIn
    <3> QED BY <2>1, <2>2, <3>1 DEF Counted
  <2>4. CASE e = c
    <3>1. AvailIn(B, e) = V \union {p}
      BY <1>1, <1>5, <2>4 DEF AvailIn
    <3>2. /\ B.info[e].ndirty = A.info[e].ndirty + DirtyPages(m[p])
          /\ B.info[e].navail = A.info[e].navail + 1
          /\ B.info[e].nadjac = A.info[e].nadjac + n
      BY <1>5, <2>4, TypedFacts
    <3>3. IntOn(DirtyIn(m), V \union {p})
      BY <1>1, <1>2, DirtyTypes DEF IntOn
    <3>4. /\ SumFunctionOnSet(DirtyIn(m), V) \in Int
          /\ SumFunctionOnSet(DirtyIn(m), V \union {p}) = DirtyIn(m)[p] + SumFunctionOnSet(DirtyIn(m), V)
      BY <1>1, <1>2, <3>3, SumWith
    <3>5. DirtyIn(m)[p] = DirtyPages(m[p]) /\ DirtyIn(m)[p] \in Nat
      BY <1>1, DirtyTypes DEF DirtyIn
    <3>6. Cardinality(V \union {p}) = Cardinality(V) + 1
      BY <1>1, <1>2, FS_AddElement
    <3>7. /\ A.info[e].ndirty = SumFunctionOnSet(DirtyIn(m), V)
          /\ A.info[e].navail = Cardinality(V)
          /\ A.info[e].nadjac = Cardinality(Adjacent(m, V))
      BY <2>2, <2>4 DEF Counted
    <3>8. /\ B.info[e].ndirty = SumFunctionOnSet(DirtyIn(m), V \union {p})
          /\ B.info[e].navail = Cardinality(V \union {p})
          /\ B.info[e].nadjac = Cardinality(Adjacent(m, V \union {p}))
      <4> HIDE DEF V, m, n
      <4> QED BY <1>4, <3>2, <3>4, <3>5, <3>6, <3>7
    <3> QED BY <2>1, <2>4, <3>1, <3>8 DEF Counted
  <2> QED BY <2>3, <2>4
<1>8. B.ndirty = SumFunctionOnSet(Dirts(B), B.avail)
  <2>1. Dirts(B) = Dirts(A)
    BY <1>5, RestKept
  <2>2. IntOn(Dirts(A), A.avail \union {<<c, p>>})
    <3>1. A.avail \union {<<c, p>>} \subseteq Spots
      BY <1>1, TypedFacts
    <3> QED BY <3>1, DirtyTypes DEF IntOn
  <2>3. /\ SumFunctionOnSet(Dirts(A), A.avail) \in Int
        /\ SumFunctionOnSet(Dirts(A), A.avail \union {<<c, p>>})
              = Dirts(A)[<<c, p>>] + SumFunctionOnSet(Dirts(A), A.avail)
    BY <1>1, <1>2, <2>2, SumWith
  <2>4. Dirts(A)[<<c, p>>] = DirtyPages(m[p]) /\ Dirts(A)[<<c, p>>] \in Nat
    BY <1>1, DirtyTypes DEF Dirts, DirtyIn
  <2>5. A.ndirty = SumFunctionOnSet(Dirts(A), A.avail)
    BY DEF Counts
  <2> QED BY <1>5, <2>1, <2>3, <2>4, <2>5
<1>9. Merged(B)
  <2> SUFFICES ASSUME NEW e \in Chunks, NEW q \in AvailIn(B, e), NEW r \in AvailIn(B, e),
                      r + A.map[e][r].len = q
               PROVE  A.map[e][q].dirty # A.map[e][r].dirty
    BY <1>5 DEF Merged, Rest
  <2>1. AvailIn(B, e) = IF e = c THEN V \union {p} ELSE AvailIn(A, e)
    BY <1>1, <1>5 DEF AvailIn
  <2>2. CASE q \in AvailIn(A, e) /\ r \in AvailIn(A, e)
    BY <2>2 DEF Merged
  <2>3. CASE e = c /\ q = p /\ r \in V
    BY <2>3 DEF Near
  <2>4. CASE e = c /\ r = p /\ q \in V
    BY <2>4 DEF Near
  <2>5. CASE e = c /\ q = p /\ r = p
    BY <1>1, <1>2, <2>5, TilingTypes
  <2> QED BY <2>1, <2>2, <2>3, <2>4, <2>5
<1>10. Totals(B) /\ Clean(B)
  BY <1>5, RestKept
<1> QED BY <1>5, <1>6, <1>7, <1>8, <1>9, <1>10 DEF Counts

\* So does arena_avail_remove.
LEMMA Removed ==
    ASSUME NEW A, NEW X, Ledger(A, X), NEW c \in Chunks, NEW p, <<c, p>> \in A.avail,
           NEW pred, NEW succ, Fragments(A, c, p, pred, succ) = Near(A.map[c], AvailIn(A, c), p),
           NEW B, B = AvailRemove(A, c, p, pred, succ)
    PROVE  Ledger(B, X \union {<<c, p>>}) /\ Rest(A, B)
<1> USE DEF Ledger
<1> DEFINE V == AvailIn(A, c)
           W == V \ {p}
           m == A.map[c]
           n == NAdjac(A, c, p, pred, succ)
<1>1. p \in DOMAIN m /\ p \in Pages /\ p \in V /\ <<c, p>> \in Spots /\ <<c, p>> \in Outs(A)
  BY DEF Stock, Outs, Spots, FreeAt, AvailIn
<1>2. IsTiling(m) /\ V \in SUBSET DOMAIN m /\ IsFiniteSet(V) /\ V \subseteq Pages /\ IsFiniteSet(A.avail)
  BY <1>1, TypedFacts, AvailInFacts DEF Stock
<1>3. n = Cardinality(Near(m, W, p))
  <2>1. p + m[p].len # p
    BY <1>1, <1>2, TilingTypes
  <2>2. Near(m, V, p) = Near(m, W, p)
    BY <2>1 DEF Near
  <2> QED BY <2>2 DEF NAdjac
<1>4. /\ n \in Nat /\ Cardinality(Adjacent(m, W)) \in Nat
      /\ Cardinality(Adjacent(m, V)) = Cardinality(Adjacent(m, W)) + n
  <2>1. V = W \union {p} /\ p \notin W /\ W \in SUBSET DOMAIN m
    BY <1>1, <1>2
  <2> HIDE DEF V, W, m, n
  <2> QED BY <1>1, <1>2, <1>3, <2>1, NearCounted
<1>5. /\ Typed(B) /\ Rest(A, B) /\ B.avail = A.avail \ {<<c, p>>}
      /\ B.ndirty = A.ndirty - DirtyPages(m[p])
      /\ B.info = [A.info EXCEPT ![c] = [ndirty |-> A.info[c].ndirty - DirtyPages(m[p]),
                                         navail |-> A.info[c].navail - 1,
                                         nadjac |-> A.info[c].nadjac - n]]
  <2>1. B = AvailChange(A, c, p, pred, succ, -1)
    BY DEF AvailRemove
  <2>2. DirtyPages(m[p]) \in Nat
    BY <1>1, <1>2, TilingTypes DEF DirtyPages
  <2>3. Changed(A, B, c, p, n, -1)
    <3>1. n \in Nat /\ -1 \in {1, -1} /\ p \in DOMAIN A.map[c]
      BY <1>1, <1>4
    <3> QED BY <2>1, <3>1, ChangeFields
  <2>4. /\ A.info[c].ndirty + (-1) * DirtyPages(m[p]) = A.info[c].ndirty - DirtyPages(m[p])
        /\ A.ndirty + (-1) * DirtyPages(m[p]) = A.ndirty - DirtyPages(m[p])
        /\ A.info[c].nadjac + (-1) * n = A.info[c].nadjac - n
        /\ A.info[c].navail + (-1) = A.info[c].navail - 1
    <3>1. /\ A.info[c].ndirty \in Int /\ A.info[c].nadjac \in Int /\ A.info[c].navail \in Int
          /\ A.ndirty \in Int
      BY TypedFacts DEF Info
    <3> QED BY <1>4, <2>2, <3>1
  <2> QED BY <2>3, <2>4 DEF Changed
<1>6. Stock(B, X \union {<<c, p>>})
  BY <1>1, <1>5, RestKept DEF Stock
<1>7. ASSUME NEW e \in Chunks
      PROVE  Counted(B, e)
  <2>1. B.map = A.map
    BY <1>5 DEF Rest
  <2>2. Counted(A, e)
    BY DEF Counts
  <2>3. CASE e # c
    <3>1. AvailIn(B, e) = AvailIn(A, e) /\ B.info[e] = A.info[e]
      BY <1>5, <2>3, TypedFacts DEF AvailIn
    <3> QED BY <2>1, <2>2, <3>1 DEF Counted
  <2>4. CASE e = c
    <3>1. AvailIn(B, e) = W
      BY <1>1, <1>5, <2>4 DEF AvailIn
    <3>2. /\ B.info[e].ndirty = A.info[e].ndirty - DirtyPages(m[p])
          /\ B.info[e].navail = A.info[e].navail - 1
          /\ B.info[e].nadjac = A.info[e].nadjac - n
      BY <1>5, <2>4, TypedFacts
    <3>3. IntOn(DirtyIn(m), V)
      BY <1>1, <1>2, DirtyTypes DEF IntOn
    <3>4. /\ SumFunctionOnSet(DirtyIn(m), W) \in Int
          /\ SumFunctionOnSet(DirtyIn(m), V) = DirtyIn(m)[p] + SumFunctionOnSet(DirtyIn(m), W)
      BY <1>1, <1>2, <3>3, SumWithout
    <3>5. DirtyIn(m)[p] = DirtyPages(m[p]) /\ DirtyIn(m)[p] \in Nat
      BY <1>1, DirtyTypes DEF DirtyIn
    <3>6. Cardinality(V) \in Nat /\ Cardinality(W) = Cardinality(V) - 1
      BY <1>1, <1>2, OneLess
    <3>7. /\ A.info[e].ndirty = SumFunctionOnSet(DirtyIn(m), V)
          /\ A.info[e].navail = Cardinality(V)
          /\ A.info[e].nadjac = Cardinality(Adjacent(m, V))
      BY <2>2, <2>4 DEF Counted
    <3>8. /\ B.info[e].ndirty = SumFunctionOnSet(DirtyIn(m), W)
          /\ B.info[e].navail = Cardinality(W)
          /\ B.info[e].nadjac = Cardinality(Adjacent(m, W))
      <4> HIDE DEF V, W, m, n
      <4> QED BY <1>4, <3>2, <3>4, <3>5, <3>6, <3>7
    <3> QED BY <2>1, <2>4, <3>1, <3>8 DEF Counted
  <2> QED BY <2>3, <2>4
<1>8. B.ndirty = SumFunctionOnSet(Dirts(B), B.avail)
  <2>1. Dirts(B) = Dirts(A)
    BY <1>5, RestKept
  <2>2. IntOn(Dirts(A), A.avail)
    <3>1. A.avail \subseteq Spots
      BY TypedFacts
    <3> QED BY <3>1, DirtyTypes DEF IntOn
  <2>3. /\ SumFunctionOnSet(Dirts(A), A.avail \ {<<c, p>>}) \in Int
        /\ SumFunctionOnSet(Dirts(A), A.avail)
              = Dirts(A)[<<c, p>>] + SumFunctionOnSet(Dirts(A), A.avail \ {<<c, p>>})
    BY <1>1, <1>2, <2>2, SumWithout
  <2>4. Dirts(A)[<<c, p>>] = DirtyPages(m[p]) /\ Dirts(A)[<<c, p>>] \in Nat
    BY <1>1, DirtyTypes DEF Dirts, DirtyIn
  <2>5. A.ndirty = SumFunctionOnSet(Dirts(A), A.avail)
    BY DEF Counts
  <2> QED BY <1>5, <2>1, <2>3, <2>4, <2>5
<1>9. Merged(B)
  <2>1. \A e \in Chunks : AvailIn(B, e) \subseteq AvailIn(A, e)
    BY <1>5 DEF AvailIn
  <2> QED BY <1>5, <2>1 DEF Merged, Rest
<1>10. Totals(B) /\ Clean(B)
  BY <1>5, RestKept
<1> QED BY <1>5, <1>6, <1>7, <1>8, <1>9, <1>10 DEF Counts

\* What the two flags of arena_avail_insert and arena_avail_remove say.
LEMMA FragmentsNear ==
    ASSUME NEW A, Typed(A), NEW X, Stock(A, X), NEW c \in Chunks, c # A.spare, NEW p \in DOMAIN A.map[c]
    PROVE  \A pred, succ \in BOOLEAN :
             /\ \A q \in FreeBefore(A, c, p) : (pred = TRUE) <=> <<c, q>> \notin X
             /\ FreeAt(A, c, p + A.map[c][p].len) =>
                   ((succ = TRUE) <=> <<c, p + A.map[c][p].len>> \notin X)
             => Fragments(A, c, p, pred, succ) = Near(A.map[c], AvailIn(A, c), p)
<1> TAKE pred, succ \in BOOLEAN
<1> HAVE /\ \A q \in FreeBefore(A, c, p) : (pred = TRUE) <=> <<c, q>> \notin X
         /\ FreeAt(A, c, p + A.map[c][p].len) =>
               ((succ = TRUE) <=> <<c, p + A.map[c][p].len>> \notin X)
<1> DEFINE s == p + A.map[c][p].len
           V == AvailIn(A, c)
<1>1. \A q \in Pages : q \in V <=> FreeAt(A, c, q) /\ <<c, q>> \notin X
  BY DEF AvailIn, Stock, Outs, Spots
<1>2. V \subseteq Pages /\ \A q : FreeAt(A, c, q) => q \in Pages
  BY TypedFacts DEF AvailIn, FreeAt
<1>3. \A q : q \in V <=> FreeAt(A, c, q) /\ <<c, q>> \notin X
  BY <1>1, <1>2
<1>4. (IF pred THEN FreeBefore(A, c, p) ELSE {}) = {q \in V : q + A.map[c][q].len = p}
  BY <1>3 DEF FreeBefore, FreeAt
<1>5. {q \in {s} : succ /\ FreeAt(A, c, q)} = {q \in V : q = s}
  BY <1>3
<1> QED BY <1>4, <1>5 DEF Fragments, Near
\* Both neighbours of a run are looked at.
LEMMA FragmentsAll ==
    ASSUME NEW A, Typed(A), Stock(A, {}), NEW c \in Chunks, c # A.spare, NEW p \in DOMAIN A.map[c]
    PROVE  Fragments(A, c, p, TRUE, TRUE) = Near(A.map[c], AvailIn(A, c), p)
<1> DEFINE X == {}
<1>1. Stock(A, X) /\ \A x : x \notin X
  OBVIOUS
<1> HIDE DEF X
<1> QED BY <1>1, FragmentsNear
-----------------------------------------------------------------------------
(* What changes the page map and leaves the tree alone.                    *)

\* The counters depend on nothing but the entries of the available runs.
LEMMA EntriesKept ==
    ASSUME NEW A, Typed(A), NEW X, Stock(A, X), Counts(A), Merged(A), NEW B, Typed(B),
           B.avail = A.avail, B.info = A.info, B.ndirty = A.ndirty,
           \A r \in A.avail : r[2] \in DOMAIN B.map[r[1]] /\ B.map[r[1]][r[2]] = A.map[r[1]][r[2]]
    PROVE  Counts(B) /\ Merged(B)
<1>1. ASSUME NEW c \in Chunks
      PROVE  /\ AvailIn(B, c) = AvailIn(A, c)
             /\ \A p \in AvailIn(A, c) : /\ p \in DOMAIN B.map[c] /\ p \in DOMAIN A.map[c]
                                         /\ B.map[c][p] = A.map[c][p]
  <2>1. ASSUME NEW p \in AvailIn(A, c)
        PROVE  p \in DOMAIN B.map[c] /\ B.map[c][p] = A.map[c][p]
    <3>1. <<c, p>> \in A.avail
      BY DEF AvailIn
    <3>2. <<c, p>>[2] \in DOMAIN B.map[<<c, p>>[1]] /\ B.map[<<c, p>>[1]][<<c, p>>[2]] = A.map[<<c, p>>[1]][<<c, p>>[2]]
      BY <3>1
    <3> QED BY <3>2
  <2> QED BY <2>1, AvailInFacts DEF AvailIn, Stock
<1>2. ASSUME NEW c \in Chunks
      PROVE  Counted(B, c)
  <2> DEFINE V == AvailIn(A, c)
  <2>1. Adjacent(B.map[c], V) = Adjacent(A.map[c], V)
    BY <1>1 DEF Adjacent
  <2>2. \A p \in V : DirtyIn(A.map[c])[p] = DirtyIn(B.map[c])[p]
    BY <1>1, AvailInFacts DEF DirtyIn, Stock
  <2>3. IntOn(DirtyIn(A.map[c]), V) /\ IsFiniteSet(V)
    BY DirtyTypes, AvailInFacts DEF IntOn, Stock
  <2>4. SumFunctionOnSet(DirtyIn(A.map[c]), V) = SumFunctionOnSet(DirtyIn(B.map[c]), V)
    BY <2>2, <2>3, SumSame
  <2> QED BY <1>1, <2>1, <2>4 DEF Counts, Counted
<1>3. B.ndirty = SumFunctionOnSet(Dirts(B), B.avail)
  <2>1. A.avail \subseteq Spots
    BY TypedFacts
  <2>2. \A r \in A.avail : Dirts(A)[r] = Dirts(B)[r]
    BY <2>1, TypedFacts DEF Dirts, DirtyIn, Spots, Stock, Outs, FreeAt
  <2>3. IntOn(Dirts(A), A.avail) /\ IsFiniteSet(A.avail)
    BY <2>1, DirtyTypes, FiniteSpots, FS_Subset DEF IntOn
  <2>4. SumFunctionOnSet(Dirts(A), A.avail) = SumFunctionOnSet(Dirts(B), A.avail)
    BY <2>2, <2>3, SumSame
  <2> QED BY <2>4 DEF Counts
<1>4. Merged(B)
  BY <1>1 DEF Merged
<1> QED BY <1>2, <1>3, <1>4 DEF Counts

\* The allocated runs are finitely many.
LEMMA TakenFinite ==
    ASSUME NEW A, Typed(A)
    PROVE  /\ IsFiniteSet(Taken(A)) /\ Taken(A) \subseteq Spots /\ IntOn(Lens(A), Spots)
           /\ \A S \in SUBSET Spots : IntOn(Lens(A), S) /\ IsFiniteSet(S)
  BY DirtyTypes, FiniteSpots, FS_Subset DEF Taken, IntOn

\* A run is allocated, or freed.
LEMMA TakenMore ==
    ASSUME NEW A, Typed(A), NEW B, Typed(B), NEW r \in Spots, r \notin Taken(A),
           Taken(B) = Taken(A) \union {r}, \A s \in Taken(A) : Lens(B)[s] = Lens(A)[s],
           B.nactive = A.nactive + Lens(B)[r]
    PROVE  Totals(A) <=> Totals(B)
<1>1. SumFunctionOnSet(Lens(A), Taken(A)) \in Int
      /\ SumFunctionOnSet(Lens(A), Taken(A)) = SumFunctionOnSet(Lens(B), Taken(A))
  BY TakenFinite, SumSame
<1>2. SumFunctionOnSet(Lens(B), Taken(B)) = Lens(B)[r] + SumFunctionOnSet(Lens(B), Taken(A))
  <2>1. IntOn(Lens(B), Taken(A) \union {r}) /\ IsFiniteSet(Taken(A))
    BY TakenFinite
  <2> QED BY <2>1, SumWith
<1>3. Lens(B)[r] \in Int /\ A.nactive \in Int
  BY DirtyTypes, TypedFacts
<1> QED BY <1>1, <1>2, <1>3 DEF Totals

\* An allocated run is cut in two, or two become one.
LEMMA TakenCut ==
    ASSUME NEW A, Typed(A), NEW B, Typed(B), NEW p \in Taken(A), NEW r \in Spots, r \notin Taken(A),
           Taken(B) = Taken(A) \union {r}, \A s \in Taken(A) \ {p} : Lens(B)[s] = Lens(A)[s],
           Lens(A)[p] = Lens(B)[p] + Lens(B)[r], B.nactive = A.nactive
    PROVE  Totals(A) <=> Totals(B)
<1>1. /\ SumFunctionOnSet(Lens(A), Taken(A)) \in Int
      /\ SumFunctionOnSet(Lens(B), Taken(A)) = SumFunctionOnSet(Lens(A), Taken(A)) + Lens(B)[p] - Lens(A)[p]
  <2>1. IntOn(Lens(A), Taken(A)) /\ IntOn(Lens(B), Taken(A)) /\ IsFiniteSet(Taken(A))
    BY TakenFinite
  <2> QED BY <2>1, SumChange
<1>2. SumFunctionOnSet(Lens(B), Taken(B)) = Lens(B)[r] + SumFunctionOnSet(Lens(B), Taken(A))
  <2>1. IntOn(Lens(B), Taken(A) \union {r}) /\ IsFiniteSet(Taken(A))
    BY TakenFinite
  <2> QED BY <2>1, SumWith
<1>3. Lens(B)[r] \in Int /\ Lens(B)[p] \in Int /\ Lens(A)[p] \in Int
  BY DirtyTypes, TakenFinite
<1> QED BY <1>1, <1>2, <1>3 DEF Totals

\* The page map of a chunk changes, and the number of pages allocated.
Charted(A, k, c, w) == [A EXCEPT !.nactive = k, !.map[c] = w]
Remap(A, B, c, w) == B.nactive \in Int /\ B = Charted(A, B.nactive, c, w)

Recharted(A, B, c, w) ==
    /\ B.map[c] = w /\ \A e \in Chunks \ {c} : B.map[e] = A.map[e]
    /\ B.avail = A.avail /\ B.spare = A.spare /\ B.ndirty = A.ndirty /\ B.npurg = A.npurg
    /\ B.info = A.info /\ B.unz = A.unz /\ B.touched = A.touched

\* One chunk gets another page map; its available runs keep their entries.
LEMMA Remapped ==
    ASSUME NEW A, Typed(A), NEW c \in Chunks, c # A.spare, NEW w, IsTiling(w), NEW B, Remap(A, B, c, w)
    PROVE  Typed(B) /\ Recharted(A, B, c, w)
<1> DEFINE ArenaType == [map : [Chunks -> UNION {[D -> RunType] : D \in SUBSET Pages}],
              avail : SUBSET Spots, spare : Chunks \union {None},
              ndirty : Int, nactive : Int, npurg : Int, info : [Chunks -> Info],
              unz : [Chunks -> SUBSET Pages], touched : [Chunks -> SUBSET Pages]]
<1>1. A \in ArenaType
  BY DEF Typed
<1>2. w \in UNION {[D -> RunType] : D \in SUBSET Pages}
  BY DEF IsTiling
<1>3. B.nactive \in Int /\ B = [A EXCEPT !.nactive = B.nactive, !.map[c] = w]
  BY DEF Remap, Charted
<1>4. /\ B.map = [A.map EXCEPT ![c] = w]
      /\ B.avail = A.avail /\ B.spare = A.spare /\ B.ndirty = A.ndirty /\ B.npurg = A.npurg
      /\ B.info = A.info /\ B.unz = A.unz /\ B.touched = A.touched
  BY <1>1, <1>3
<1>5. B.map[c] = w /\ \A e \in Chunks \ {c} : B.map[e] = A.map[e]
  BY <1>1, <1>4
<1>6. B \in ArenaType
  <2> DEFINE T == UNION {[D -> RunType] : D \in SUBSET Pages}
  <2>1. w \in T /\ A.map \in [Chunks -> T]
    BY <1>1, <1>2
  <2>2. [A.map EXCEPT ![c] = w] \in [Chunks -> T]
    <3> HIDE DEF T
    <3> QED BY <2>1
  <2>3. B = [A EXCEPT !.nactive = B.nactive, !.map = [A.map EXCEPT ![c] = w]]
    BY <1>1, <1>3
  <2> DEFINE N == B.nactive
             M == [A.map EXCEPT ![c] = w]
  <2>4. N \in Int /\ M \in [Chunks -> T] /\ B = [A EXCEPT !.nactive = N, !.map = M]
    BY <1>3, <2>2, <2>3
  <2> HIDE DEF T, N, M
  <2> QED BY <1>1, <2>4 DEF T
<1>7. Typed(B)
  BY <1>4, <1>5, <1>6 DEF Typed, Unused
<1> QED BY <1>4, <1>5, <1>7 DEF Recharted

LEMMA RemapBy ==
    ASSUME NEW A, Typed(A), NEW c \in Chunks, NEW k \in Int, NEW w, NEW B,
           B = Charted(A, k, c, w)
    PROVE  Remap(A, B, c, w) /\ B.nactive = k
<1>1. A \in [map : [Chunks -> UNION {[D -> RunType] : D \in SUBSET Pages}],
              avail : SUBSET Spots, spare : Chunks \union {None},
              ndirty : Int, nactive : Int, npurg : Int, info : [Chunks -> Info],
              unz : [Chunks -> SUBSET Pages], touched : [Chunks -> SUBSET Pages]]
  BY DEF Typed
<1>2. B.nactive = k
  BY <1>1 DEF Charted
<1> QED BY <1>2 DEF Remap

LEMMA RemapOnly ==
    ASSUME NEW A, Typed(A), NEW c \in Chunks, NEW w, NEW B, B = [A EXCEPT !.map[c] = w]
    PROVE  Remap(A, B, c, w) /\ B.nactive = A.nactive
<1>1. A \in [map : [Chunks -> UNION {[D -> RunType] : D \in SUBSET Pages}],
              avail : SUBSET Spots, spare : Chunks \union {None},
              ndirty : Int, nactive : Int, npurg : Int, info : [Chunks -> Info],
              unz : [Chunks -> SUBSET Pages], touched : [Chunks -> SUBSET Pages]]
  BY DEF Typed
<1>2. B.nactive = A.nactive /\ A.nactive \in Int
  BY <1>1
<1>3. B = [A EXCEPT !.nactive = A.nactive, !.map[c] = w]
  BY <1>1
<1> QED BY <1>2, <1>3 DEF Remap, Charted

\* Membership in the sets of runs.
LEMMA SpotFacts ==
    ASSUME NEW A, NEW e \in Chunks, NEW q \in Pages
    PROVE  /\ <<e, q>> \in Spots
           /\ <<e, q>> \in Outs(A) <=> q \in DOMAIN A.map[e] /\ A.map[e][q].kind = "free" /\ e # A.spare
           /\ <<e, q>> \in Taken(A) <=> q \in DOMAIN A.map[e] /\ A.map[e][q].kind # "free"
           /\ Lens(A)[<<e, q>>] = IF q \in DOMAIN A.map[e] THEN A.map[e][q].len ELSE 0
  BY DEF Spots, Outs, Taken, Lens, FreeAt

LEMMA SpotSets ==
    ASSUME NEW S \in SUBSET Spots, NEW T \in SUBSET Spots,
           \A e \in Chunks, q \in Pages : <<e, q>> \in S <=> <<e, q>> \in T
    PROVE  S = T
  BY DEF Spots

\* Only the pages U of chunk c have other entries.
Only(A, B, c, U) ==
    \A e \in Chunks, q \in Pages : ~ (e = c /\ q \in U) =>
        /\ q \in DOMAIN B.map[e] <=> q \in DOMAIN A.map[e]
        /\ q \in DOMAIN A.map[e] => B.map[e][q] = A.map[e][q]

\* Only the runs of one chunk at the given pages change.
LEMMA OnlyFacts ==
    ASSUME NEW A, NEW B, NEW c \in Chunks, NEW U \in SUBSET Pages, Only(A, B, c, U), A.spare = B.spare
    PROVE  \A e \in Chunks, q \in Pages : ~ (e = c /\ q \in U) =>
               /\ <<e, q>> \in Outs(B) <=> <<e, q>> \in Outs(A)
               /\ <<e, q>> \in Taken(B) <=> <<e, q>> \in Taken(A)
               /\ Lens(B)[<<e, q>>] = Lens(A)[<<e, q>>]
<1> TAKE e \in Chunks, q \in Pages
<1> HAVE ~ (e = c /\ q \in U)
<1>1. /\ q \in DOMAIN B.map[e] <=> q \in DOMAIN A.map[e]
      /\ q \in DOMAIN A.map[e] => B.map[e][q] = A.map[e][q]
  BY DEF Only
<1> QED BY <1>1, SpotFacts

Moves(A, B, c, w, U) ==
    /\ Only(A, B, c, U) /\ B.map[c] = w /\ B.avail = A.avail /\ B.spare = A.spare
    /\ B.npurg = A.npurg /\ B.unz = A.unz /\ B.touched = A.touched

\* A chunk gets another page map: the ledger goes with it.
LEMMA Moved ==
    ASSUME NEW A, NEW X, Ledger(A, X), NEW c \in Chunks, c # A.spare, NEW w, IsTiling(w),
           NEW B, Remap(A, B, c, w), NEW U \in SUBSET Pages,
           \A q \in Pages \ U : /\ q \in DOMAIN w <=> q \in DOMAIN A.map[c]
                                /\ q \in DOMAIN w => w[q] = A.map[c][q],
           \A q \in U : <<c, q>> \notin A.avail,
           \A q \in U : q \in DOMAIN w /\ w[q].kind = "free" /\ ~w[q].dirty =>
                            A.touched[c] \cap Extent(q, w[q].len) \subseteq A.unz[c],
           NEW Y \in SUBSET Spots,
           \A e \in Chunks, q \in Pages :
               <<e, q>> \in Y <=> IF e = c /\ q \in U THEN q \in DOMAIN w /\ w[q].kind = "free"
                                 ELSE <<e, q>> \in X
    PROVE  (Totals(B) => Ledger(B, Y)) /\ Typed(B) /\ Moves(A, B, c, w, U)
<1>0. Typed(A) /\ Stock(A, X) /\ Counts(A) /\ Merged(A) /\ Clean(A)
  BY DEF Ledger
<1>1. /\ Typed(B) /\ B.map[c] = w
      /\ \A e \in Chunks \ {c} : B.map[e] = A.map[e]
      /\ B.avail = A.avail /\ B.spare = A.spare /\ B.ndirty = A.ndirty /\ B.npurg = A.npurg
      /\ B.info = A.info /\ B.unz = A.unz /\ B.touched = A.touched
  BY <1>0, Remapped DEF Recharted
<1> USE <1>0
<1>2. Only(A, B, c, U)
  BY <1>1 DEF Only
<1>3. Outs(A) \subseteq Spots /\ Outs(B) \subseteq Spots /\ X \subseteq Outs(A)
  BY DEF Outs, Stock
<1>4. Stock(B, Y)
  <2>1. \A e \in Chunks, q \in Pages : <<e, q>> \in Y => <<e, q>> \in Outs(B)
    <3> TAKE e \in Chunks, q \in Pages
    <3>1. CASE e = c /\ q \in U
      BY <1>1, <3>1, SpotFacts
    <3>2. CASE ~ (e = c /\ q \in U)
      BY <1>1, <1>2, <1>3, <3>2, OnlyFacts
    <3> QED BY <3>1, <3>2
  <2>2. \A e \in Chunks, q \in Pages : <<e, q>> \in A.avail <=> <<e, q>> \in Outs(B) \ Y
    <3> TAKE e \in Chunks, q \in Pages
    <3>1. CASE e = c /\ q \in U
      BY <1>1, <3>1, SpotFacts
    <3>2. CASE ~ (e = c /\ q \in U)
      <4>1. <<e, q>> \in Outs(B) <=> <<e, q>> \in Outs(A)
        BY <1>1, <1>2, <3>2, OnlyFacts
      <4>2. <<e, q>> \in Y <=> <<e, q>> \in X
        BY <3>2
      <4> QED BY <4>1, <4>2 DEF Stock
    <3> QED BY <3>1, <3>2
  <2>3. A.avail = Outs(B) \ Y
    <3> DEFINE Z == Outs(B) \ Y
    <3>1. A.avail \in SUBSET Spots /\ Z \in SUBSET Spots
      BY <1>3, TypedFacts
    <3>2. \A e \in Chunks, q \in Pages : <<e, q>> \in A.avail <=> <<e, q>> \in Z
      BY <2>2
    <3> HIDE DEF Z
    <3>3. A.avail = Z
      BY <3>1, <3>2, SpotSets
    <3> QED BY <3>3 DEF Z
  <2>4. Y \subseteq Outs(B)
    BY <2>1 DEF Spots
  <2> QED BY <1>1, <2>3, <2>4 DEF Stock
<1>5. Counts(B) /\ Merged(B)
  <2>1. ASSUME NEW r \in A.avail
        PROVE  r[2] \in DOMAIN B.map[r[1]] /\ B.map[r[1]][r[2]] = A.map[r[1]][r[2]]
    <3>1. PICK e \in Chunks, q \in Pages : r = <<e, q>>
      BY TypedFacts DEF Spots
    <3>2. <<e, q>> \in Outs(A) /\ ~ (e = c /\ q \in U)
      BY <3>1 DEF Stock
    <3>3. q \in DOMAIN B.map[e] /\ B.map[e][q] = A.map[e][q]
      BY <1>2, <3>2, SpotFacts DEF Only
    <3> QED BY <3>1, <3>3
  <2> QED BY <1>1, <2>1, EntriesKept
<1>6. Clean(B)
  <2> SUFFICES ASSUME NEW e \in Chunks, NEW q \in DOMAIN B.map[e],
                      B.map[e][q].kind = "free", ~B.map[e][q].dirty
               PROVE  A.touched[e] \cap Extent(q, B.map[e][q].len) \subseteq A.unz[e]
    BY <1>1 DEF Clean, Marked
  <2>1. q \in Pages
    BY <1>1, TypedFacts
  <2>2. CASE e = c /\ q \in U
    BY <1>1, <2>2
  <2>3. CASE ~ (e = c /\ q \in U)
    BY <1>2, <2>1, <2>3 DEF Only, Clean, Marked
  <2> QED BY <2>2, <2>3
<1> QED BY <1>1, <1>2, <1>4, <1>5, <1>6 DEF Moves, Ledger

TakesWhole(A, B, c, w, p, X) ==
    Ledger(B, X \ {<<c, p>>}) /\ Moves(A, B, c, w, {p}) /\ Taken(B) = Taken(A) \union {<<c, p>>}

\* All of a free run is allocated.
LEMMA TakeWhole ==
    ASSUME NEW A, NEW X, Ledger(A, X), NEW c \in Chunks, c # A.spare, NEW p, <<c, p>> \in X,
           NEW kind \in {"large", "small"}, NEW w, w \in [DOMAIN w -> RunType], DOMAIN w = DOMAIN A.map[c],
           w[p] = Run(kind, A.map[c][p].len, A.map[c][p].dirty),
           \A q \in DOMAIN A.map[c] \ {p} : w[q] = A.map[c][q],
           NEW B, Remap(A, B, c, w), B.nactive = A.nactive + A.map[c][p].len
    PROVE  TakesWhole(A, B, c, w, p, X)
<1>0. Typed(A) /\ Stock(A, X) /\ Totals(A)
  BY DEF Ledger
<1>1. p \in DOMAIN A.map[c] /\ p \in Pages /\ A.map[c][p].kind = "free" /\ IsTiling(A.map[c])
      /\ <<c, p>> \notin A.avail /\ X \subseteq Spots
  BY <1>0, TypedFacts DEF Stock, Outs, FreeAt, Spots
<1>2. w[p].kind # "free" /\ w[p].len = A.map[c][p].len
  BY DEF Run
<1>3. IsTiling(w)
  <2>1. \A q \in DOMAIN A.map[c] : w[q].len = A.map[c][q].len
    BY <1>2
  <2> QED BY <1>1, <2>1, TileSame
<1>4. (Totals(B) => Ledger(B, X \ {<<c, p>>})) /\ Typed(B) /\ Moves(A, B, c, w, {p})
  <2> DEFINE Y == X \ {<<c, p>>}
             U == {p}
  <2>1. U \in SUBSET Pages /\ Y \in SUBSET Spots
    BY <1>1
  <2>2. \A q \in Pages \ U : /\ q \in DOMAIN w <=> q \in DOMAIN A.map[c]
                             /\ q \in DOMAIN w => w[q] = A.map[c][q]
    OBVIOUS
  <2>3. /\ \A q \in U : <<c, q>> \notin A.avail
        /\ \A q \in U : q \in DOMAIN w /\ w[q].kind = "free" /\ ~w[q].dirty =>
                            A.touched[c] \cap Extent(q, w[q].len) \subseteq A.unz[c]
    BY <1>1, <1>2
  <2>4. \A e \in Chunks, q \in Pages :
               <<e, q>> \in Y <=> IF e = c /\ q \in U THEN q \in DOMAIN w /\ w[q].kind = "free"
                                 ELSE <<e, q>> \in X
    BY <1>2
  <2> HIDE DEF Y, U
  <2>5. (Totals(B) => Ledger(B, Y)) /\ Typed(B) /\ Moves(A, B, c, w, U)
    BY <1>3, <2>1, <2>2, <2>3, <2>4, Moved
  <2> QED BY <2>5 DEF Y, U
<1>5. /\ Taken(B) = Taken(A) \union {<<c, p>>} /\ <<c, p>> \notin Taken(A) /\ <<c, p>> \in Spots
      /\ \A s \in Taken(A) : Lens(B)[s] = Lens(A)[s]
      /\ Lens(B)[<<c, p>>] = A.map[c][p].len
  <2>1. B.map[c] = w /\ A.spare = B.spare /\ Only(A, B, c, {p}) /\ {p} \in SUBSET Pages
    BY <1>1, <1>4 DEF Moves
  <2>2. \A e \in Chunks, q \in Pages : ~ (e = c /\ q \in {p}) =>
            (<<e, q>> \in Taken(B) <=> <<e, q>> \in Taken(A)) /\ Lens(B)[<<e, q>>] = Lens(A)[<<e, q>>]
    BY <2>1, OnlyFacts
  <2>3. <<c, p>> \notin Taken(A) /\ <<c, p>> \in Taken(B) /\ <<c, p>> \in Spots /\ Lens(B)[<<c, p>>] = A.map[c][p].len
    BY <1>1, <1>2, <2>1, SpotFacts
  <2>4. Taken(A) \subseteq Spots /\ Taken(B) \subseteq Spots
    BY DEF Taken
  <2> QED BY <2>2, <2>3, <2>4 DEF Spots
<1>6. Totals(B)
  BY <1>0, <1>4, <1>5, TakenMore
<1> QED BY <1>4, <1>5, <1>6 DEF TakesWhole

TakesPart(A, B, c, w, p, n, X) ==
    /\ Ledger(B, (X \ {<<c, p>>}) \union {<<c, p + n>>}) /\ Moves(A, B, c, w, {p, p + n})
    /\ Taken(B) = Taken(A) \union {<<c, p>>}

\* The first n pages of a free run are allocated.
LEMMA TakePart ==
    ASSUME NEW A, NEW X, Ledger(A, X), NEW c \in Chunks, c # A.spare, NEW p, <<c, p>> \in X,
           NEW n \in 1 .. A.map[c][p].len - 1, NEW kind \in {"large", "small"},
           NEW w, w \in [DOMAIN w -> RunType], DOMAIN w = DOMAIN A.map[c] \union {p + n},
           w[p] = Run(kind, n, A.map[c][p].dirty),
           w[p + n] = Run("free", A.map[c][p].len - n, A.map[c][p].dirty),
           \A q \in DOMAIN A.map[c] \ {p} : w[q] = A.map[c][q],
           NEW B, Remap(A, B, c, w), B.nactive = A.nactive + n
    PROVE  TakesPart(A, B, c, w, p, n, X)
<1>0. Typed(A) /\ Stock(A, X) /\ Totals(A) /\ Clean(A)
  BY DEF Ledger
<1>1. p \in DOMAIN A.map[c] /\ p \in Pages /\ A.map[c][p].kind = "free" /\ IsTiling(A.map[c])
      /\ <<c, p>> \notin A.avail /\ X \subseteq Spots
  BY <1>0, TypedFacts DEF Stock, Outs, FreeAt, Spots
<1>2. /\ w[p].kind # "free" /\ w[p].len = n
      /\ w[p + n].kind = "free" /\ w[p + n].len = A.map[c][p].len - n /\ w[p + n].dirty = A.map[c][p].dirty
  BY DEF Run
<1>3. p + n \notin DOMAIN A.map[c] /\ p + n \in Pages /\ p + n # p
  BY <1>1, SplitPoint
<1>4. IsTiling(w)
  <2>1. \A q \in DOMAIN A.map[c] \ {p} : w[q].len = A.map[c][q].len
    OBVIOUS
  <2> QED BY <1>1, <1>2, <2>1, TileSplit
<1>5. ~w[p + n].dirty => A.touched[c] \cap Extent(p + n, w[p + n].len) \subseteq A.unz[c]
  <2>1. p \in Nat /\ A.map[c][p].len \in Nat
    BY <1>1, TilingTypes
  <2>2. Extent(p + n, w[p + n].len) \subseteq Extent(p, A.map[c][p].len)
    BY <1>2, <2>1 DEF Extent
  <2> QED BY <1>0, <1>1, <1>2, <2>2 DEF Clean, Marked
<1>6. (Totals(B) => Ledger(B, (X \ {<<c, p>>}) \union {<<c, p + n>>})) /\ Typed(B) /\ Moves(A, B, c, w, {p, p + n})
  <2> DEFINE Y == (X \ {<<c, p>>}) \union {<<c, p + n>>}
             U == {p, p + n}
  <2>1. U \in SUBSET Pages /\ Y \in SUBSET Spots
    BY <1>1, <1>3 DEF Spots
  <2>2. \A q \in Pages \ U : /\ q \in DOMAIN w <=> q \in DOMAIN A.map[c]
                             /\ q \in DOMAIN w => w[q] = A.map[c][q]
    OBVIOUS
  <2>3. \A q \in U : <<c, q>> \notin A.avail
    BY <1>0, <1>1, <1>3 DEF Stock, Outs, FreeAt
  <2>4. \A q \in U : q \in DOMAIN w /\ w[q].kind = "free" /\ ~w[q].dirty =>
                            A.touched[c] \cap Extent(q, w[q].len) \subseteq A.unz[c]
    BY <1>2, <1>5
  <2>5. \A e \in Chunks, q \in Pages :
               <<e, q>> \in Y <=> IF e = c /\ q \in U THEN q \in DOMAIN w /\ w[q].kind = "free"
                                 ELSE <<e, q>> \in X
    BY <1>2, <1>3
  <2> HIDE DEF Y, U
  <2>6. (Totals(B) => Ledger(B, Y)) /\ Typed(B) /\ Moves(A, B, c, w, U)
    BY <1>4, <2>1, <2>2, <2>3, <2>4, <2>5, Moved
  <2> QED BY <2>6 DEF Y, U
<1>7. /\ Taken(B) = Taken(A) \union {<<c, p>>} /\ <<c, p>> \notin Taken(A) /\ <<c, p>> \in Spots
      /\ \A s \in Taken(A) : Lens(B)[s] = Lens(A)[s]
      /\ Lens(B)[<<c, p>>] = n
  <2>1. B.map[c] = w /\ A.spare = B.spare /\ Only(A, B, c, {p, p + n}) /\ {p, p + n} \in SUBSET Pages
    BY <1>1, <1>3, <1>6 DEF Moves
  <2>2. \A e \in Chunks, q \in Pages : ~ (e = c /\ q \in {p, p + n}) =>
            (<<e, q>> \in Taken(B) <=> <<e, q>> \in Taken(A)) /\ Lens(B)[<<e, q>>] = Lens(A)[<<e, q>>]
    BY <2>1, OnlyFacts
  <2>3. <<c, p>> \notin Taken(A) /\ <<c, p>> \in Taken(B) /\ <<c, p>> \in Spots /\ Lens(B)[<<c, p>>] = n
        /\ <<c, p + n>> \notin Taken(A) /\ <<c, p + n>> \notin Taken(B)
    BY <1>1, <1>2, <1>3, <2>1, SpotFacts
  <2>4. Taken(A) \subseteq Spots /\ Taken(B) \subseteq Spots
    BY DEF Taken
  <2> QED BY <2>2, <2>3, <2>4 DEF Spots
<1>8. Totals(B)
  BY <1>0, <1>6, <1>7, TakenMore
<1> QED BY <1>6, <1>7, <1>8 DEF TakesPart

Gives(A, B, c, w, p, X) ==
    Ledger(B, X \union {<<c, p>>}) /\ Moves(A, B, c, w, {p}) /\ Taken(B) = Taken(A) \ {<<c, p>>}

\* An allocated run is freed.
LEMMA GiveRun ==
    ASSUME NEW A, NEW X, Ledger(A, X), NEW c \in Chunks, c # A.spare, NEW p, <<c, p>> \in Taken(A),
           NEW dirty \in BOOLEAN, dirty \/ Marked(A, c, p),
           NEW w, w \in [DOMAIN w -> RunType], DOMAIN w = DOMAIN A.map[c],
           w[p] = Run("free", A.map[c][p].len, dirty),
           \A q \in DOMAIN A.map[c] \ {p} : w[q] = A.map[c][q],
           NEW B, Remap(A, B, c, w), B.nactive = A.nactive - A.map[c][p].len
    PROVE  Gives(A, B, c, w, p, X)
<1>0. Typed(A) /\ Stock(A, X) /\ Totals(A)
  BY DEF Ledger
<1>1. p \in DOMAIN A.map[c] /\ p \in Pages /\ A.map[c][p].kind # "free" /\ IsTiling(A.map[c])
      /\ <<c, p>> \notin A.avail /\ X \subseteq Spots
  BY <1>0, TypedFacts DEF Stock, Outs, FreeAt, Spots, Taken
<1>2. w[p].kind = "free" /\ w[p].len = A.map[c][p].len /\ w[p].dirty = dirty
  BY DEF Run
<1>3. IsTiling(w)
  <2>1. \A q \in DOMAIN A.map[c] : w[q].len = A.map[c][q].len
    BY <1>2
  <2> QED BY <1>1, <2>1, TileSame
<1>4. (Totals(B) => Ledger(B, X \union {<<c, p>>})) /\ Typed(B) /\ Moves(A, B, c, w, {p})
  <2> DEFINE Y == X \union {<<c, p>>}
             U == {p}
  <2>1. U \in SUBSET Pages /\ Y \in SUBSET Spots
    BY <1>1 DEF Spots
  <2>2. \A q \in Pages \ U : /\ q \in DOMAIN w <=> q \in DOMAIN A.map[c]
                             /\ q \in DOMAIN w => w[q] = A.map[c][q]
    OBVIOUS
  <2>3. /\ \A q \in U : <<c, q>> \notin A.avail
        /\ \A q \in U : q \in DOMAIN w /\ w[q].kind = "free" /\ ~w[q].dirty =>
                            A.touched[c] \cap Extent(q, w[q].len) \subseteq A.unz[c]
    BY <1>1, <1>2 DEF Marked
  <2>4. \A e \in Chunks, q \in Pages :
               <<e, q>> \in Y <=> IF e = c /\ q \in U THEN q \in DOMAIN w /\ w[q].kind = "free"
                                 ELSE <<e, q>> \in X
    BY <1>1, <1>2
  <2> HIDE DEF Y, U
  <2>5. (Totals(B) => Ledger(B, Y)) /\ Typed(B) /\ Moves(A, B, c, w, U)
    BY <1>3, <2>1, <2>2, <2>3, <2>4, Moved
  <2> QED BY <2>5 DEF Y, U
<1>5. /\ Taken(B) = Taken(A) \ {<<c, p>>} /\ <<c, p>> \notin Taken(B) /\ <<c, p>> \in Spots
      /\ \A s \in Taken(B) : Lens(A)[s] = Lens(B)[s]
      /\ Lens(A)[<<c, p>>] = A.map[c][p].len
  <2>1. B.map[c] = w /\ A.spare = B.spare /\ Only(A, B, c, {p}) /\ {p} \in SUBSET Pages
    BY <1>1, <1>4 DEF Moves
  <2>2. \A e \in Chunks, q \in Pages : ~ (e = c /\ q \in {p}) =>
            (<<e, q>> \in Taken(B) <=> <<e, q>> \in Taken(A)) /\ Lens(B)[<<e, q>>] = Lens(A)[<<e, q>>]
    BY <2>1, OnlyFacts
  <2>3. <<c, p>> \notin Taken(B) /\ <<c, p>> \in Spots /\ Lens(A)[<<c, p>>] = A.map[c][p].len
    BY <1>1, <1>2, <2>1, SpotFacts
  <2>4. Taken(A) \subseteq Spots /\ Taken(B) \subseteq Spots
    BY DEF Taken
  <2> QED BY <2>2, <2>3, <2>4 DEF Spots
<1>6. Totals(B)
  <2>1. Taken(A) = Taken(B) \union {<<c, p>>}
    BY <1>5
  <2>2. A.nactive = B.nactive + Lens(A)[<<c, p>>]
    <3>1. A.map[c][p].len \in Nat /\ A.nactive \in Int
      BY <1>0, <1>1, TypedFacts, TilingTypes
    <3> QED BY <1>5, <3>1
  <2> QED BY <1>0, <1>4, <1>5, <2>1, <2>2, TakenMore
<1> QED BY <1>4, <1>5, <1>6 DEF Gives

Joins(A, B, c, w, p, q, X) ==
    Ledger(B, X \ {<<c, q>>}) /\ Moves(A, B, c, w, {p, q}) /\ Taken(B) = Taken(A)

\* Two neighbours that are free, and not in the tree, become one run.
LEMMA JoinRuns ==
    ASSUME NEW A, NEW X, Ledger(A, X), NEW c \in Chunks, c # A.spare, NEW p, <<c, p>> \in X,
           NEW q, <<c, q>> \in X, q = p + A.map[c][p].len, A.map[c][q].dirty = A.map[c][p].dirty,
           NEW w, w \in [DOMAIN w -> RunType], DOMAIN w = DOMAIN A.map[c] \ {q},
           w[p] = Run("free", A.map[c][p].len + A.map[c][q].len, A.map[c][p].dirty),
           \A r \in DOMAIN w \ {p} : w[r] = A.map[c][r],
           NEW B, Remap(A, B, c, w), B.nactive = A.nactive
    PROVE  Joins(A, B, c, w, p, q, X)
<1>0. Typed(A) /\ Stock(A, X) /\ Totals(A) /\ Clean(A)
  BY DEF Ledger
<1>1. /\ p \in DOMAIN A.map[c] /\ p \in Pages /\ A.map[c][p].kind = "free" /\ <<c, p>> \notin A.avail
      /\ q \in DOMAIN A.map[c] /\ q \in Pages /\ A.map[c][q].kind = "free" /\ <<c, q>> \notin A.avail
      /\ IsTiling(A.map[c]) /\ X \subseteq Spots
  BY <1>0, TypedFacts DEF Stock, Outs, FreeAt, Spots
<1>2. /\ w[p].kind = "free" /\ w[p].len = A.map[c][p].len + A.map[c][q].len
      /\ w[p].dirty = A.map[c][p].dirty
  BY DEF Run
<1>3. /\ p \in Nat /\ A.map[c][p].len \in Nat \ {0} /\ A.map[c][q].len \in Nat \ {0} /\ p # q
  BY <1>1, TilingTypes, SMTT(30)
<1>4. IsTiling(w)
  <2>1. \A r \in DOMAIN w \ {p} : w[r].len = A.map[c][r].len
    OBVIOUS
  <2> QED BY <1>1, <1>2, <2>1, TileJoin, ZenonT(40)
<1>5. ~w[p].dirty => A.touched[c] \cap Extent(p, w[p].len) \subseteq A.unz[c]
  <2>1. Extent(p, w[p].len) \subseteq Extent(p, A.map[c][p].len) \union Extent(q, A.map[c][q].len)
    <3> DEFINE k == A.map[c][p].len
               l == A.map[c][q].len
    <3>1. k \in Nat /\ l \in Nat /\ p \in Nat /\ q = p + k /\ w[p].len = k + l
      BY <1>2, <1>3
    <3> HIDE DEF k, l
    <3>2. Extent(p, k + l) \subseteq Extent(p, k) \union Extent(p + k, l)
      BY <3>1, SMTT(30) DEF Extent
    <3> QED BY <3>1, <3>2 DEF k, l
  <2> QED BY <1>0, <1>1, <1>2, <2>1 DEF Clean, Marked
<1>6. (Totals(B) => Ledger(B, X \ {<<c, q>>})) /\ Typed(B) /\ Moves(A, B, c, w, {p, q})
  <2> DEFINE Y == X \ {<<c, q>>}
             U == {p, q}
  <2>1. U \in SUBSET Pages /\ Y \in SUBSET Spots
    BY <1>1
  <2>2. \A r \in Pages \ U : /\ r \in DOMAIN w <=> r \in DOMAIN A.map[c]
                             /\ r \in DOMAIN w => w[r] = A.map[c][r]
    OBVIOUS
  <2>3. /\ \A r \in U : <<c, r>> \notin A.avail
        /\ \A r \in U : r \in DOMAIN w /\ w[r].kind = "free" /\ ~w[r].dirty =>
                            A.touched[c] \cap Extent(r, w[r].len) \subseteq A.unz[c]
    BY <1>1, <1>5
  <2>4. \A e \in Chunks, r \in Pages :
               <<e, r>> \in Y <=> IF e = c /\ r \in U THEN r \in DOMAIN w /\ w[r].kind = "free"
                                 ELSE <<e, r>> \in X
    BY <1>1, <1>2, <1>3
  <2> HIDE DEF Y, U
  <2>5. (Totals(B) => Ledger(B, Y)) /\ Typed(B) /\ Moves(A, B, c, w, U)
    BY <1>4, <2>1, <2>2, <2>3, <2>4, Moved
  <2> QED BY <2>5 DEF Y, U
<1>7. Taken(B) = Taken(A) /\ \A s \in Taken(A) : Lens(A)[s] = Lens(B)[s]
  <2>1. B.map[c] = w /\ A.spare = B.spare /\ Only(A, B, c, {p, q}) /\ {p, q} \in SUBSET Pages
    BY <1>1, <1>6 DEF Moves
  <2>2. ASSUME NEW e \in Chunks, NEW r \in Pages, ~ (e = c /\ r \in {p, q})
        PROVE  (<<e, r>> \in Taken(B) <=> <<e, r>> \in Taken(A)) /\ Lens(B)[<<e, r>>] = Lens(A)[<<e, r>>]
    BY <2>1, <2>2, OnlyFacts
  <2>3. /\ <<c, p>> \notin Taken(B) /\ <<c, p>> \notin Taken(A)
        /\ <<c, q>> \notin Taken(B) /\ <<c, q>> \notin Taken(A)
    BY <1>1, <1>2, <2>1, SpotFacts
  <2>4. Taken(A) \in SUBSET Spots /\ Taken(B) \in SUBSET Spots
    BY DEF Taken
  <2>5. \A e \in Chunks, r \in Pages : <<e, r>> \in Taken(B) <=> <<e, r>> \in Taken(A)
    BY <2>2, <2>3
  <2>6. Taken(B) = Taken(A)
    BY <2>4, <2>5, SpotSets
  <2>7. \A e \in Chunks, r \in Pages : <<e, r>> \in Taken(A) => Lens(A)[<<e, r>>] = Lens(B)[<<e, r>>]
    BY <2>2, <2>3
  <2> QED BY <2>4, <2>6, <2>7 DEF Spots
<1>8. Totals(B)
  <2>1. IntOn(Lens(A), Taken(A)) /\ IsFiniteSet(Taken(A))
    BY <1>0, TakenFinite
  <2>2. SumFunctionOnSet(Lens(A), Taken(A)) = SumFunctionOnSet(Lens(B), Taken(A))
    BY <1>7, <2>1, SumSame
  <2> QED BY <1>0, <1>7, <2>2 DEF Totals
<1> QED BY <1>6, <1>7, <1>8 DEF Joins

Cuts(A, B, c, w, p, n, X) ==
    /\ Ledger(B, X) /\ Moves(A, B, c, w, {p, p + n})
    /\ Taken(B) = Taken(A) \union {<<c, p + n>>} /\ <<c, p + n>> \notin Taken(A)

\* An allocated run is cut in two.
LEMMA CutRun ==
    ASSUME NEW A, NEW X, Ledger(A, X), NEW c \in Chunks, c # A.spare, NEW p, <<c, p>> \in Taken(A),
           NEW n \in 1 .. A.map[c][p].len - 1,
           NEW w, w \in [DOMAIN w -> RunType], DOMAIN w = DOMAIN A.map[c] \union {p + n},
           w[p] = Run("large", n, A.map[c][p].dirty),
           w[p + n] = Run("large", A.map[c][p].len - n, A.map[c][p].dirty),
           \A q \in DOMAIN A.map[c] \ {p} : w[q] = A.map[c][q],
           NEW B, Remap(A, B, c, w), B.nactive = A.nactive
    PROVE  Cuts(A, B, c, w, p, n, X)
<1>0. Typed(A) /\ Stock(A, X) /\ Totals(A)
  BY DEF Ledger
<1>1. p \in DOMAIN A.map[c] /\ p \in Pages /\ A.map[c][p].kind # "free" /\ IsTiling(A.map[c])
      /\ <<c, p>> \notin A.avail /\ X \subseteq Spots /\ <<c, p>> \notin X
  BY <1>0, TypedFacts DEF Stock, Outs, FreeAt, Spots, Taken
<1>2. /\ w[p].kind # "free" /\ w[p].len = n
      /\ w[p + n].kind # "free" /\ w[p + n].len = A.map[c][p].len - n
  BY DEF Run
<1>3. /\ p + n \notin DOMAIN A.map[c] /\ p + n \in Pages /\ p + n # p
      /\ <<c, p + n>> \notin A.avail /\ <<c, p + n>> \notin X
  <2>1. p + n \notin DOMAIN A.map[c] /\ p + n \in Pages /\ p + n # p
    BY <1>1, SplitPoint
  <2> QED BY <1>0, <2>1 DEF Stock, Outs, FreeAt
<1>4. IsTiling(w)
  <2>1. \A q \in DOMAIN A.map[c] \ {p} : w[q].len = A.map[c][q].len
    OBVIOUS
  <2> QED BY <1>1, <1>2, <2>1, TileSplit
<1>6. (Totals(B) => Ledger(B, X)) /\ Typed(B) /\ Moves(A, B, c, w, {p, p + n})
  <2> DEFINE U == {p, p + n}
  <2>1. U \in SUBSET Pages /\ X \in SUBSET Spots
    BY <1>1, <1>3
  <2>2. \A q \in Pages \ U : /\ q \in DOMAIN w <=> q \in DOMAIN A.map[c]
                             /\ q \in DOMAIN w => w[q] = A.map[c][q]
    OBVIOUS
  <2>3. \A q \in U : <<c, q>> \notin A.avail
    BY <1>1, <1>3
  <2>4. \A q \in U : q \in DOMAIN w /\ w[q].kind = "free" /\ ~w[q].dirty =>
                            A.touched[c] \cap Extent(q, w[q].len) \subseteq A.unz[c]
    BY <1>2
  <2>5. \A e \in Chunks, q \in Pages :
               <<e, q>> \in X <=> IF e = c /\ q \in U THEN q \in DOMAIN w /\ w[q].kind = "free"
                                 ELSE <<e, q>> \in X
    BY <1>1, <1>2, <1>3
  <2> HIDE DEF U
  <2>6. (Totals(B) => Ledger(B, X)) /\ Typed(B) /\ Moves(A, B, c, w, U)
    BY <1>4, <2>1, <2>2, <2>3, <2>4, <2>5, Moved
  <2> QED BY <2>6 DEF U
<1>7. /\ Taken(B) = Taken(A) \union {<<c, p + n>>} /\ <<c, p + n>> \notin Taken(A) /\ <<c, p + n>> \in Spots
      /\ \A s \in Taken(A) \ {<<c, p>>} : Lens(B)[s] = Lens(A)[s]
      /\ Lens(B)[<<c, p>>] = n /\ Lens(A)[<<c, p>>] = A.map[c][p].len
      /\ Lens(B)[<<c, p + n>>] = A.map[c][p].len - n
  <2>1. B.map[c] = w /\ A.spare = B.spare /\ Only(A, B, c, {p, p + n}) /\ {p, p + n} \in SUBSET Pages
    BY <1>1, <1>3, <1>6 DEF Moves
  <2>2. \A e \in Chunks, q \in Pages : ~ (e = c /\ q \in {p, p + n}) =>
            (<<e, q>> \in Taken(B) <=> <<e, q>> \in Taken(A)) /\ Lens(B)[<<e, q>>] = Lens(A)[<<e, q>>]
    <3> DEFINE U == {p, p + n}
    <3> HIDE DEF U
    <3>1. \A e \in Chunks, q \in Pages : ~ (e = c /\ q \in U) =>
            (<<e, q>> \in Taken(B) <=> <<e, q>> \in Taken(A)) /\ Lens(B)[<<e, q>>] = Lens(A)[<<e, q>>]
      <4>1. A.spare = B.spare /\ Only(A, B, c, U) /\ U \in SUBSET Pages
        BY <2>1 DEF U
      <4> QED BY <4>1, OnlyFacts
    <3> QED BY <3>1 DEF U
  <2>3. /\ <<c, p>> \in Taken(B) /\ <<c, p + n>> \in Taken(B)
        /\ <<c, p + n>> \in Spots /\ <<c, p + n>> \notin Taken(A)
        /\ Lens(B)[<<c, p>>] = n /\ Lens(A)[<<c, p>>] = A.map[c][p].len
        /\ Lens(B)[<<c, p + n>>] = A.map[c][p].len - n
    BY <1>1, <1>2, <1>3, <2>1, SpotFacts
  <2>4. Taken(A) \subseteq Spots /\ Taken(B) \subseteq Spots
    BY DEF Taken
  <2> QED BY <2>2, <2>3, <2>4 DEF Spots
<1>8. Totals(B)
  <2>1. Lens(A)[<<c, p>>] = Lens(B)[<<c, p>>] + Lens(B)[<<c, p + n>>]
    <3>1. A.map[c][p].len \in Nat /\ n \in Nat
      BY <1>1, TilingTypes
    <3> QED BY <1>7, <3>1
  <2> QED BY <1>0, <1>6, <1>7, <2>1, TakenCut
<1> QED BY <1>6, <1>7, <1>8 DEF Cuts

Grows(A, B, c, w, p, q, X) ==
    Ledger(B, X) /\ Moves(A, B, c, w, {p, q}) /\ Taken(B) = Taken(A) \ {<<c, q>>}

\* An allocated run takes in the one after it.
LEMMA GrowRun ==
    ASSUME NEW A, NEW X, Ledger(A, X), NEW c \in Chunks, c # A.spare, NEW p, <<c, p>> \in Taken(A),
           NEW q, <<c, q>> \in Taken(A), q = p + A.map[c][p].len, NEW dirty \in BOOLEAN,
           NEW w, w \in [DOMAIN w -> RunType], DOMAIN w = DOMAIN A.map[c] \ {q},
           w[p] = Run("large", A.map[c][p].len + A.map[c][q].len, dirty),
           \A r \in DOMAIN w \ {p} : w[r] = A.map[c][r],
           NEW B, Remap(A, B, c, w), B.nactive = A.nactive
    PROVE  Grows(A, B, c, w, p, q, X)
<1>0. Typed(A) /\ Stock(A, X) /\ Totals(A) /\ Clean(A)
  BY DEF Ledger
<1>1. /\ p \in DOMAIN A.map[c] /\ p \in Pages /\ A.map[c][p].kind # "free"
      /\ <<c, p>> \notin A.avail /\ <<c, p>> \notin X
      /\ q \in DOMAIN A.map[c] /\ q \in Pages /\ A.map[c][q].kind # "free"
      /\ <<c, q>> \notin A.avail /\ <<c, q>> \notin X
      /\ IsTiling(A.map[c]) /\ X \subseteq Spots
  BY <1>0, TypedFacts DEF Stock, Outs, FreeAt, Spots, Taken
<1>2. w[p].kind # "free" /\ w[p].len = A.map[c][p].len + A.map[c][q].len
  BY DEF Run
<1>3. /\ p \in Nat /\ A.map[c][p].len \in Nat \ {0} /\ A.map[c][q].len \in Nat \ {0} /\ p # q
  BY <1>1, TilingTypes
<1>4. IsTiling(w)
  <2>1. \A r \in DOMAIN w \ {p} : w[r].len = A.map[c][r].len
    OBVIOUS
  <2> QED BY <1>1, <1>2, <2>1, TileJoin, ZenonT(40)
<1>6. (Totals(B) => Ledger(B, X)) /\ Typed(B) /\ Moves(A, B, c, w, {p, q})
  <2> DEFINE U == {p, q}
  <2>1. U \in SUBSET Pages /\ X \in SUBSET Spots
    BY <1>1
  <2>2. \A r \in Pages \ U : /\ r \in DOMAIN w <=> r \in DOMAIN A.map[c]
                             /\ r \in DOMAIN w => w[r] = A.map[c][r]
    OBVIOUS
  <2>3. /\ \A r \in U : <<c, r>> \notin A.avail
        /\ \A r \in U : r \in DOMAIN w /\ w[r].kind = "free" /\ ~w[r].dirty =>
                            A.touched[c] \cap Extent(r, w[r].len) \subseteq A.unz[c]
    BY <1>1, <1>2
  <2>4. \A e \in Chunks, r \in Pages :
               <<e, r>> \in X <=> IF e = c /\ r \in U THEN r \in DOMAIN w /\ w[r].kind = "free"
                                 ELSE <<e, r>> \in X
    BY <1>1, <1>2, <1>3
  <2> HIDE DEF U
  <2>5. (Totals(B) => Ledger(B, X)) /\ Typed(B) /\ Moves(A, B, c, w, U)
    BY <1>4, <2>1, <2>2, <2>3, <2>4, Moved
  <2> QED BY <2>5 DEF U
<1>7. /\ Taken(B) = Taken(A) \ {<<c, q>>} /\ <<c, p>> \in Taken(B) /\ <<c, q>> \in Spots
      /\ \A s \in Taken(B) \ {<<c, p>>} : Lens(A)[s] = Lens(B)[s]
      /\ Lens(B)[<<c, p>>] = A.map[c][p].len + A.map[c][q].len
      /\ Lens(A)[<<c, p>>] = A.map[c][p].len /\ Lens(A)[<<c, q>>] = A.map[c][q].len
  <2>1. B.map[c] = w /\ A.spare = B.spare /\ Only(A, B, c, {p, q}) /\ {p, q} \in SUBSET Pages
    BY <1>1, <1>6 DEF Moves
  <2>2. \A e \in Chunks, r \in Pages : ~ (e = c /\ r \in {p, q}) =>
            (<<e, r>> \in Taken(B) <=> <<e, r>> \in Taken(A)) /\ Lens(B)[<<e, r>>] = Lens(A)[<<e, r>>]
    BY <2>1, OnlyFacts, SMTT(30)
  <2>3. /\ <<c, p>> \in Taken(B) /\ <<c, q>> \notin Taken(B) /\ <<c, q>> \in Spots
        /\ Lens(B)[<<c, p>>] = A.map[c][p].len + A.map[c][q].len
        /\ Lens(A)[<<c, p>>] = A.map[c][p].len /\ Lens(A)[<<c, q>>] = A.map[c][q].len
    <3>1. p \in DOMAIN w /\ q \notin DOMAIN w
      BY <1>1, <1>3
    <3>2. <<c, p>> \in Taken(B) /\ <<c, q>> \notin Taken(B) /\ <<c, q>> \in Spots
      BY <1>1, <1>2, <2>1, <3>1, SpotFacts
    <3>3. /\ Lens(B)[<<c, p>>] = w[p].len
          /\ Lens(A)[<<c, p>>] = A.map[c][p].len /\ Lens(A)[<<c, q>>] = A.map[c][q].len
      BY <1>1, <2>1, <3>1, SpotFacts
    <3> QED BY <1>2, <3>2, <3>3
  <2>4. Taken(A) \subseteq Spots /\ Taken(B) \subseteq Spots
    BY DEF Taken
  <2> QED BY <2>2, <2>3, <2>4, SMTT(30) DEF Spots
<1>8. Totals(B)
  <2>1. Taken(A) = Taken(B) \union {<<c, q>>} /\ <<c, q>> \notin Taken(B)
    BY <1>7
  <2>2. Lens(B)[<<c, p>>] = Lens(A)[<<c, p>>] + Lens(A)[<<c, q>>]
    BY <1>7
  <2> QED BY <1>0, <1>6, <1>7, <2>1, <2>2, TakenCut
<1> QED BY <1>6, <1>7, <1>8 DEF Grows
-----------------------------------------------------------------------------
(* arena_run_split.                                                        *)

\* No run of the spare chunk is allocated.
LEMMA NotSpare ==
    ASSUME NEW A, Typed(A), NEW c \in Chunks, NEW p, <<c, p>> \in Taken(A)
    PROVE  c # A.spare
<1> SUFFICES ASSUME c = A.spare PROVE FALSE
  OBVIOUS
<1>1. p \in DOMAIN A.map[c] /\ A.map[c][p].kind # "free" /\ IsTiling(A.map[c])
  BY TypedFacts DEF Taken
<1>2. A.spare # None
  BY ArenaAssumption
<1>3. 0 \in DOMAIN A.map[c] /\ A.map[c][0].kind = "free" /\ A.map[c][0].len = NPages
  BY <1>2 DEF Typed, Unused
<1>4. p \in Nat /\ p < NPages /\ NPages \in Nat
  BY <1>1, TilingTypes
<1>5. p \in Extent(0, A.map[c][0].len)
  BY <1>3, <1>4 DEF Extent
<1> QED BY <1>1, <1>3, <1>5, TilingFacts

\* Of the runs F nothing has changed.
Still(A, B, F) == \A r \in F : B.map[r[1]][r[2]] = A.map[r[1]][r[2]]
Same(A, B) == B.npurg = A.npurg /\ B.unz = A.unz /\ B.touched = A.touched

\* The other runs keep their entries.
LEMMA MovesStill ==
    ASSUME NEW A, NEW B, NEW c \in Chunks, NEW w, NEW U, Moves(A, B, c, w, U),
           NEW F \in SUBSET Taken(A), \A q \in U : <<c, q>> \notin F
    PROVE  Still(A, B, F) /\ Same(A, B)
<1>1. ASSUME NEW r \in F
      PROVE  B.map[r[1]][r[2]] = A.map[r[1]][r[2]]
  <2>1. PICK e \in Chunks, q \in Pages : r = <<e, q>>
    BY DEF Taken, Spots
  <2>2. q \in DOMAIN A.map[e]
    BY <2>1, SpotFacts
  <2> QED BY <2>1, <2>2 DEF Moves, Only
<1> QED BY <1>1 DEF Still, Same, Moves

Splits(A, B, c, p, n, kind) ==
    /\ Ledger(B, {}) /\ Taken(B) = Taken(A) \union {<<c, p>>} /\ <<c, p>> \notin Taken(A)
    /\ B.map[c][p] = Run(kind, n, A.map[c][p].dirty)
    /\ Still(A, B, Taken(A)) /\ Same(A, B) /\ B.spare = A.spare

\* arena_run_split_large and arena_run_split_small make the first n pages of a free run an
\* allocated one, and keep the ledger.
LEMMA RunSplitFacts ==
    ASSUME NEW A, Ledger(A, {}), NEW c \in Chunks, NEW p, <<c, p>> \in A.avail,
           NEW n \in 1 .. A.map[c][p].len, NEW kind \in {"large", "small"}
    PROVE  Splits(A, RunSplit(A, c, p, n, kind), c, p, n, kind)
<1> DEFINE free == A.map[c][p]
           m == A.map[c]
           R == AvailRemove(A, c, p, TRUE, TRUE)
           used == [R EXCEPT !.nactive = @ + n, !.map[c] = With(@, p, Run(kind, n, free.dirty))]
           u == With(m, p, Run(kind, n, free.dirty))
           S == [used EXCEPT !.map[c] = With(@, p + n, Run("free", free.len - n, free.dirty))]
           w == With(u, p + n, Run("free", free.len - n, free.dirty))
           T == AvailInsert(S, c, p + n, FALSE, TRUE)
<1>0. Typed(A) /\ Stock(A, {}) /\ Merged(A)
  BY DEF Ledger
<1>1. /\ p \in DOMAIN m /\ p \in Pages /\ free.kind = "free" /\ c # A.spare
      /\ IsTiling(m) /\ <<c, p>> \in Spots /\ <<c, p>> \notin Taken(A) /\ p \in AvailIn(A, c)
  BY <1>0, TypedFacts DEF Stock, Outs, FreeAt, Spots, Taken, AvailIn
<1>2. Ledger(R, {<<c, p>>}) /\ Rest(A, R)
  <2>1. Fragments(A, c, p, TRUE, TRUE) = Near(m, AvailIn(A, c), p)
    BY <1>0, <1>1, FragmentsAll
  <2>2. Ledger(R, {} \union {<<c, p>>}) /\ Rest(A, R)
    BY <1>1, <2>1, Removed
  <2>3. {} \union {<<c, p>>} = {<<c, p>>}
    OBVIOUS
  <2> QED BY <2>2, <2>3
<1>3. /\ Typed(R) /\ R.map = A.map /\ R.spare = A.spare /\ R.nactive \in Int /\ R.map[c] = m
      /\ Taken(R) = Taken(A)
  BY <1>2, RestKept, TypedFacts DEF Ledger, Rest
<1>4. /\ p \in Nat /\ free.len \in 1 .. NPages /\ NPages \in Nat /\ n \in Nat \ {0} /\ n <= free.len
      /\ free.dirty \in BOOLEAN /\ m \in [DOMAIN m -> RunType]
  BY <1>1, TilingTypes DEF IsTiling, RunType
<1>5. Run(kind, n, free.dirty) \in RunType
  BY <1>4 DEF Run, RunType
<1> HIDE DEF m
<1>6. /\ DOMAIN u = DOMAIN m /\ u[p] = Run(kind, n, free.dirty) /\ u \in [DOMAIN u -> RunType]
      /\ \A q \in DOMAIN m \ {p} : u[q] = m[q]
  BY <1>1, <1>4, <1>5 DEF With
<1>a. RunSplit(A, c, p, n, kind) = IF free.len - n = 0 THEN used ELSE T
  BY DEF RunSplit
<1>b. /\ n = free.len => free.len - n = 0
      /\ n # free.len => free.len - n # 0
  BY <1>4
<1>c. used = [R EXCEPT !.nactive = R.nactive + n, !.map[c] = u]
  BY <1>3 DEF Typed
<1>d. S = [R EXCEPT !.nactive = R.nactive + n, !.map[c] = w]
  BY <1>3 DEF Typed
<1>e. R.nactive + n \in Int
  <2> HIDE DEF R
  <2> QED BY <1>3, <1>4
<1> HIDE DEF used, S, T
<1>f. Remap(R, used, c, u) /\ used.nactive = R.nactive + n /\ Remap(R, S, c, w) /\ S.nactive = R.nactive + n
  <2> DEFINE k == R.nactive + n
  <2>1. k \in Int /\ used = Charted(R, k, c, u) /\ S = Charted(R, k, c, w)
    BY <1>c, <1>d, <1>e DEF Charted
  <2> HIDE DEF R, u, w, k
  <2>2. Remap(R, used, c, u) /\ used.nactive = k
    BY <1>3, <2>1, RemapBy
  <2>3. Remap(R, S, c, w) /\ S.nactive = k
    BY <1>3, <2>1, RemapBy
  <2> QED BY <2>2, <2>3 DEF k
<1> DEFINE E == {<<c, p>>}
<1>g. Ledger(R, E) /\ <<c, p>> \in E /\ E \ {<<c, p>>} = {}
  BY <1>2
<1> HIDE DEF E
<1>7. CASE n = free.len
  <2> HIDE DEF R, u
  <2>3. /\ Ledger(used, E \ {<<c, p>>}) /\ Moves(R, used, c, u, {p})
        /\ Taken(used) = Taken(R) \union {<<c, p>>}
    <3>1. /\ c # R.spare /\ u \in [DOMAIN u -> RunType] /\ DOMAIN u = DOMAIN R.map[c]
          /\ u[p] = Run(kind, R.map[c][p].len, R.map[c][p].dirty)
          /\ \A q \in DOMAIN R.map[c] \ {p} : u[q] = R.map[c][q]
          /\ used.nactive = R.nactive + R.map[c][p].len
      BY <1>1, <1>3, <1>6, <1>7, <1>f DEF m
    <3>2. TakesWhole(R, used, c, u, p, E)
      BY <1>f, <1>g, <3>1, TakeWhole
    <3> QED BY <3>2 DEF TakesWhole
  <2>4. Still(R, used, Taken(R)) /\ Same(R, used)
    BY <1>1, <1>3, <2>3, MovesStill
  <2>5. Still(A, used, Taken(A)) /\ Same(A, used)
    BY <1>2, <1>3, <2>4 DEF Still, Same, Rest
  <2>6. Splits(A, used, c, p, n, kind)
    <3>1. used.map[c][p] = Run(kind, n, free.dirty)
      BY <1>6, <2>3 DEF Moves
    <3>2. used.spare = A.spare
      BY <1>2, <2>3 DEF Moves, Rest
    <3> QED BY <1>1, <1>3, <1>g, <2>3, <2>5, <3>1, <3>2 DEF Splits
  <2> QED BY <1>7, <1>a, <1>b, <2>6
<1>8. CASE n # free.len
  <2> DEFINE rem == Run("free", free.len - n, free.dirty)
  <2>1. /\ n \in 1 .. m[p].len - 1 /\ rem \in RunType /\ free.len - n # 0
        /\ rem.kind = "free" /\ rem.len = free.len - n /\ rem.dirty = free.dirty
    BY <1>4, <1>8 DEF Run, RunType, m
  <2>2. p + n \notin DOMAIN m /\ p + n \in Pages /\ p + n # p
    BY <1>1, <1>4, <2>1, SplitPoint
  <2>3. /\ DOMAIN w = DOMAIN m \union {p + n} /\ w[p] = Run(kind, n, free.dirty)
        /\ w[p + n] = rem /\ w \in [DOMAIN w -> RunType]
        /\ \A q \in DOMAIN m \ {p} : w[q] = m[q]
    <3> DEFINE v == Run(kind, n, free.dirty)
    <3>1. w = With(u, p + n, rem) /\ rem \in RunType /\ p + n # p /\ p + n \notin DOMAIN m
      BY <2>1, <2>2
    <3>2. /\ DOMAIN u = DOMAIN m /\ u[p] = v /\ u \in [DOMAIN u -> RunType] /\ p \in DOMAIN m
          /\ \A q \in DOMAIN m \ {p} : u[q] = m[q]
      BY <1>1, <1>6
    <3> HIDE DEF u, w, rem, v
    <3>3. DOMAIN w = DOMAIN m \union {p + n} /\ w[p + n] = rem /\ \A q \in DOMAIN m : w[q] = u[q]
      BY <3>1, <3>2 DEF With
    <3>4. w \in [DOMAIN w -> RunType]
      <4>1. w = [q \in DOMAIN w |-> w[q]]
        BY <3>1 DEF With
      <4> QED BY <3>1, <3>2, <3>3, <4>1
    <3> QED BY <3>2, <3>3, <3>4 DEF v
  <2> DEFINE X == {<<c, p + n>>}
  <2>a. <<c, p + n>> \in X /\ X \ {<<c, p + n>>} = {} /\ \A x \in X : x = <<c, p + n>>
    OBVIOUS
  <2>b. (E \ {<<c, p>>}) \union {<<c, p + n>>} = X
    BY <1>g
  <2> HIDE DEF R, w, u, X
  <2>6. /\ Ledger(S, X) /\ Moves(R, S, c, w, {p, p + n})
        /\ Taken(S) = Taken(R) \union {<<c, p>>}
    <3>1. /\ Ledger(S, (E \ {<<c, p>>}) \union {<<c, p + n>>}) /\ Moves(R, S, c, w, {p, p + n})
          /\ Taken(S) = Taken(R) \union {<<c, p>>}
      <4>1. /\ c # R.spare /\ n \in 1 .. R.map[c][p].len - 1
            /\ w \in [DOMAIN w -> RunType] /\ DOMAIN w = DOMAIN R.map[c] \union {p + n}
            /\ w[p] = Run(kind, n, R.map[c][p].dirty)
            /\ w[p + n] = Run("free", R.map[c][p].len - n, R.map[c][p].dirty)
            /\ \A q \in DOMAIN R.map[c] \ {p} : w[q] = R.map[c][q]
        BY <1>1, <1>3, <2>1, <2>3 DEF m
      <4>2. TakesPart(R, S, c, w, p, n, E)
        BY <1>f, <1>g, <4>1, TakePart
      <4> QED BY <4>2 DEF TakesPart
    <3> QED BY <2>b, <3>1
  <2>7. /\ Typed(S) /\ Stock(S, X) /\ S.map[c] = w /\ c # S.spare /\ S.avail = R.avail /\ IsTiling(w)
        /\ AvailIn(S, c) = AvailIn(R, c)
    <3>1. Typed(S) /\ Stock(S, X) /\ S.map[c] = w /\ c # S.spare /\ S.avail = R.avail
      BY <1>1, <1>3, <2>6 DEF Ledger, Moves
    <3>2. IsTiling(w)
      BY <2>3, <3>1, TypedFacts
    <3> QED BY <3>1, <3>2 DEF AvailIn
  <2>8. \A q \in DOMAIN w : q + w[q].len = p + n => q = p
    <3>1. p \in DOMAIN w /\ w[p].len = n
      BY <1>1, <2>3 DEF Run
    <3> QED BY <2>7, <3>1, TilingFacts
  <2>9. w[p].kind # "free"
    BY <2>3 DEF Run
  <2>10. Fragments(S, c, p + n, FALSE, TRUE) = Near(S.map[c], AvailIn(S, c), p + n)
    <3>1. FreeBefore(S, c, p + n) = {}
      BY <2>7, <2>8, <2>9 DEF FreeBefore, FreeAt
    <3>2. p + n + w[p + n].len # p + n
      BY <2>3, <2>7, TilingTypes
    <3>3. <<c, p + n + S.map[c][p + n].len>> \notin X
      BY <2>7, <2>a, <3>2
    <3>4. p + n \in DOMAIN S.map[c]
      BY <2>3, <2>7
    <3> QED BY <2>7, <3>1, <3>3, <3>4, FragmentsNear
  <2>11. ASSUME NEW q \in Near(S.map[c], AvailIn(S, c), p + n)
         PROVE  S.map[c][q].dirty # S.map[c][p + n].dirty
    <3>1. q \in AvailIn(R, c) /\ q \in DOMAIN w /\ w[q].kind = "free"
      BY <2>7, AvailInFacts DEF Near, Stock
    <3>2. q + w[q].len # p + n /\ q # p
      BY <2>8, <2>9, <3>1
    <3>3. q = p + n + w[p + n].len
      BY <2>7, <3>2 DEF Near
    <3>4. q = p + m[p].len
      <4>1. m[p].len \in Nat
        BY <1>4 DEF m
      <4> QED BY <1>4, <2>1, <2>3, <3>3, <4>1, SMTT(30) DEF m
    <3>5. q # p + n
      BY <2>7, <3>1, <3>3, TilingTypes
    <3>6. q \in AvailIn(A, c)
      BY <3>1, <3>2 DEF AvailIn, R, AvailRemove, AvailChange
    <3>7. A.map[c][q].dirty # A.map[c][p].dirty
      BY <1>0, <1>1, <3>4, <3>6 DEF Merged, m
    <3>8. w[q] = m[q]
      BY <2>3, <3>1, <3>2, <3>5
    <3> QED BY <2>1, <2>3, <2>7, <3>7, <3>8 DEF m
  <2>12. Ledger(T, {}) /\ Rest(S, T)
    <3>1. T = AvailInsert(S, c, p + n, FALSE, TRUE)
      BY DEF T
    <3>2. Ledger(T, X \ {<<c, p + n>>}) /\ Rest(S, T)
      BY <2>6, <2>10, <2>11, <2>a, <3>1, Inserted
    <3> QED BY <2>a, <3>2
  <2>13. Taken(T) = Taken(A) \union {<<c, p>>} /\ T.map[c][p] = Run(kind, n, free.dirty)
    BY <1>3, <2>3, <2>6, <2>7, <2>12, RestKept DEF Rest
  <2>14. Still(R, S, Taken(R)) /\ Same(R, S)
    <3>1. \A q \in {p, p + n} : <<c, q>> \notin Taken(R)
      BY <1>1, <1>3, <2>2, SpotFacts DEF Taken, m
    <3> QED BY <2>6, <3>1, MovesStill
  <2>15. Still(A, T, Taken(A)) /\ Same(A, T)
    BY <1>2, <1>3, <2>12, <2>14 DEF Still, Same, Rest
  <2>16. Splits(A, T, c, p, n, kind)
    <3>1. T.spare = A.spare
      BY <1>2, <2>6, <2>12 DEF Moves, Rest
    <3> QED BY <1>1, <2>12, <2>13, <2>15, <3>1 DEF Splits
  <2> QED BY <1>8, <1>a, <1>b, <2>16
<1> QED BY <1>7, <1>8
-----------------------------------------------------------------------------
(* arena_run_coalesce and the rest of arena_run_dalloc.                    *)

JoinedAs(m, w, p, q) ==
    /\ DOMAIN w = DOMAIN m \ {q} /\ w \in [DOMAIN w -> RunType]
    /\ w[p] = Run(m[p].kind, m[p].len + m[q].len, m[p].dirty)
    /\ \A r \in DOMAIN w \ {p} : w[r] = m[r]

\* Two neighbours become one.
LEMMA JoinedFacts ==
    ASSUME NEW m, IsTiling(m), NEW p \in DOMAIN m, NEW q \in DOMAIN m, q = p + m[p].len
    PROVE  JoinedAs(m, Joined(m, p, q), p, q)
<1> DEFINE n == m[p].len + m[q].len
           v == Restrict(m, DOMAIN m \ {q})
           w == Joined(m, p, q)
<1>1. /\ p \in Nat /\ q \in Nat /\ p # q
      /\ m[p] \in RunType /\ m[q] \in RunType /\ n \in 1 .. NPages
  <2>1. /\ p \in Nat /\ q \in Nat /\ NPages \in Nat
        /\ m[p].len \in Nat \ {0} /\ m[q].len \in Nat \ {0} /\ q + m[q].len <= NPages
        /\ m[p] \in RunType /\ m[q] \in RunType
    BY TilingTypes
  <2> QED BY <2>1
<1>2. DOMAIN v = DOMAIN m \ {q} /\ \A r \in DOMAIN v : v[r] = m[r]
  BY DEF Restrict
<1>3. w = [v EXCEPT ![p] = [v[p] EXCEPT !.len = @ + m[q].len]]
  BY DEF Joined
<1>4. v[p] = m[p] /\ p \in DOMAIN v
  BY <1>1, <1>2
<1>5. [m[p] EXCEPT !.len = @ + m[q].len] = Run(m[p].kind, n, m[p].dirty)
  BY <1>1 DEF RunType, Run
<1> HIDE DEF v, w
<1>6. w = [v EXCEPT ![p] = Run(m[p].kind, n, m[p].dirty)]
  BY <1>3, <1>4, <1>5
<1>7. Run(m[p].kind, n, m[p].dirty) \in RunType
  BY <1>1 DEF Run, RunType
<1>8. DOMAIN w = DOMAIN m \ {q} /\ w[p] = Run(m[p].kind, n, m[p].dirty)
      /\ \A r \in DOMAIN w \ {p} : w[r] = m[r]
  BY <1>2, <1>4, <1>6
<1>9. \A r \in DOMAIN m : m[r] \in RunType
  BY TilingTypes
<1>10. w \in [DOMAIN w -> RunType]
  <2>1. \A r \in DOMAIN w : w[r] \in RunType
    BY <1>7, <1>8, <1>9
  <2>2. w = [r \in DOMAIN w |-> w[r]]
    BY <1>6
  <2> QED BY <2>1, <2>2
<1> QED BY <1>8, <1>10 DEF JoinedAs, w

\* What freeing the run at <<c, p>> keeps, whatever becomes of its pages.
Calm(A, B) == Taken(B) = Taken(A) /\ Still(A, B, Taken(A)) /\ Same(A, B) /\ B.spare = A.spare

LEMMA CalmTwice ==
    ASSUME NEW A, NEW B, NEW C, Calm(A, B), Calm(B, C)
    PROVE  Calm(A, C)
  BY DEF Calm, Still, Same

LEMMA RestCalm ==
    ASSUME NEW A, NEW B, Rest(A, B)
    PROVE  Calm(A, B)
<1>1. Taken(B) = Taken(A)
  BY RestKept
<1> QED BY <1>1 DEF Calm, Rest, Still, Same

\* The run after the one at <<c, p>> is not to be joined to it.
Ahead(A, c, p) ==
    \A s \in AvailIn(A, c) : s = p + A.map[c][p].len => A.map[c][s].dirty # A.map[c][p].dirty

Forward(A, B, c, p, X) == Ledger(B, X) /\ Calm(A, B) /\ Ahead(B, c, p)

\* arena_run_coalesce, forward: the run swallows the free run after it.
LEMMA ForwardFacts ==
    ASSUME NEW A, NEW X, Ledger(A, X), NEW c \in Chunks, c # A.spare, NEW p, <<c, p>> \in X,
           \A x \in X : x = <<c, p>>
    PROVE  Forward(A, CoalesceForward(A, c, p), c, p, X)
<1> DEFINE m == A.map[c]
           q == p + m[p].len
           R == AvailRemove(A, c, q, FALSE, TRUE)
           w == Joined(m, p, q)
           J == [R EXCEPT !.map[c] = Joined(@, p, q)]
           B == CoalesceForward(A, c, p)
<1>0. Typed(A) /\ Stock(A, X) /\ Merged(A)
  BY DEF Ledger
<1>1. p \in DOMAIN m /\ IsTiling(m) /\ m[p].kind = "free" /\ p + m[p].len # p
  <2>1. p \in DOMAIN m /\ IsTiling(m) /\ m[p].kind = "free"
    BY <1>0, TypedFacts DEF Stock, Outs, FreeAt
  <2> QED BY <2>1, TilingTypes
<1>2. B = IF FreeAt(A, c, q) /\ m[q].dirty = m[p].dirty THEN J ELSE A
  BY DEF CoalesceForward
<1>3. CASE ~ (FreeAt(A, c, q) /\ m[q].dirty = m[p].dirty)
  <2>1. B = A
    BY <1>2, <1>3
  <2>2. Ahead(A, c, p)
    <3> SUFFICES ASSUME NEW s \in AvailIn(A, c), s = q
                 PROVE  m[s].dirty # m[p].dirty
      BY DEF Ahead
    <3>1. FreeAt(A, c, s)
      BY <1>0, AvailInFacts DEF FreeAt, Stock
    <3> QED BY <1>3, <3>1
  <2>3. Calm(A, A)
    BY DEF Calm, Still, Same
  <2> QED BY <2>1, <2>2, <2>3 DEF Forward
<1>4. CASE FreeAt(A, c, q) /\ m[q].dirty = m[p].dirty
  <2>1. q \in DOMAIN m /\ m[q].kind = "free" /\ q \in Pages /\ <<c, q>> \notin X
    BY <1>0, <1>1, <1>4, TypedFacts DEF FreeAt
  <2>2. <<c, q>> \in A.avail /\ q \in AvailIn(A, c)
    BY <1>0, <2>1, SpotFacts DEF Stock, AvailIn
  <2> HIDE DEF m
  <2>3. Fragments(A, c, q, FALSE, TRUE) = Near(A.map[c], AvailIn(A, c), q)
    <3>1. ASSUME NEW r \in FreeBefore(A, c, q)
          PROVE  r = p
      <4>1. r \in DOMAIN m /\ r + m[r].len = p + m[p].len
        BY DEF FreeBefore, m
      <4> QED BY <1>1, <4>1, TilingFacts
    <3>2. q + A.map[c][q].len # p
      <4>1. p \in Nat /\ m[p].len \in Nat \ {0} /\ m[q].len \in Nat \ {0} /\ q = p + m[p].len
        BY <1>1, <2>1, TilingTypes
      <4> HIDE DEF q
      <4> QED BY <4>1 DEF m
    <3>3. <<c, q + A.map[c][q].len>> \notin X
      BY <3>2
    <3>4. q \in DOMAIN A.map[c]
      BY <2>1 DEF m
    <3> HIDE DEF q
    <3> QED BY <1>0, <3>1, <3>3, <3>4, FragmentsNear
  <2>4. Ledger(R, X \union {<<c, q>>}) /\ Rest(A, R)
    BY <2>2, <2>3, Removed
  <2>5. R.map[c] = m /\ R.spare = A.spare /\ Typed(R)
    BY <2>4 DEF Rest, m, Ledger
  <2>6. JoinedAs(m, w, p, q)
    BY <1>1, <2>1, JoinedFacts
  <2>7. Remap(R, J, c, w) /\ J.nactive = R.nactive
    <3>1. J = [R EXCEPT !.map[c] = w]
      BY <2>5 DEF Typed
    <3> HIDE DEF J, R, w
    <3> QED BY <2>5, <3>1, RemapOnly
  <2> DEFINE Y == X \union {<<c, q>>}
  <2>8. /\ Ledger(R, Y) /\ <<c, p>> \in Y /\ <<c, q>> \in Y /\ Y \ {<<c, q>>} = X
        /\ \A y \in Y : y = <<c, p>> \/ y = <<c, q>>
    BY <2>1, <2>4
  <2>9. q = p + R.map[c][p].len /\ R.map[c][q].dirty = R.map[c][p].dirty
    BY <1>4, <2>5
  <2>10. /\ w \in [DOMAIN w -> RunType] /\ DOMAIN w = DOMAIN R.map[c] \ {q}
         /\ w[p] = Run("free", R.map[c][p].len + R.map[c][q].len, R.map[c][p].dirty)
         /\ \A r \in DOMAIN w \ {p} : w[r] = R.map[c][r]
    BY <1>1, <2>5, <2>6 DEF JoinedAs
  <2>q. q = p + m[p].len
    OBVIOUS
  <2> HIDE DEF R, J, w, Y, q
  <2>11. Joins(R, J, c, w, p, q, Y)
    BY <2>5, <2>7, <2>8, <2>9, <2>10, JoinRuns
  <2>12. Ledger(J, X) /\ Moves(R, J, c, w, {p, q}) /\ Taken(J) = Taken(R)
    BY <2>8, <2>11 DEF Joins
  <2>13. Calm(A, J)
    <3>1. Calm(A, R)
      BY <2>4, RestCalm
    <3>2. \A r \in {p, q} : <<c, r>> \notin Taken(R)
      BY <1>1, <2>1, <2>5 DEF Taken
    <3>3. Still(R, J, Taken(R)) /\ Same(R, J)
      BY <2>12, <3>2, MovesStill
    <3>4. Calm(R, J)
      BY <2>12, <3>3 DEF Calm, Moves
    <3> QED BY <3>1, <3>4, CalmTwice
  <2>14. Ahead(J, c, p)
    <3> SUFFICES ASSUME NEW s \in AvailIn(J, c), s = p + w[p].len
                 PROVE  w[s].dirty # w[p].dirty
      BY <2>12 DEF Ahead, Moves
    <3>1. w[p].len = m[p].len + m[q].len /\ w[p].dirty = m[p].dirty
      BY <2>5, <2>10 DEF Run
    <3>2. s \in AvailIn(A, c) /\ s # q /\ s # p
      <4>1. J.avail = A.avail \ {<<c, q>>}
        BY <2>12 DEF Moves, R, AvailRemove, AvailChange
      <4>2. <<c, p>> \notin A.avail
        BY <1>0 DEF Stock
      <4> QED BY <4>1, <4>2 DEF AvailIn
    <3>3. s = q + m[q].len
      <4>1. p \in Nat /\ m[p].len \in Nat /\ m[q].len \in Nat
        BY <1>1, <2>1, TilingTypes
      <4> QED BY <2>q, <3>1, <4>1
    <3>4. m[s].dirty # m[q].dirty
      BY <1>0, <2>2, <3>2, <3>3 DEF Merged, m
    <3>5. w[s] = m[s]
      <4>1. s \in DOMAIN m
        BY <1>0, <3>2, AvailInFacts DEF m, Stock
      <4> QED BY <2>5, <2>10, <3>2, <4>1
    <3> QED BY <1>4, <3>1, <3>4, <3>5
  <2> QED BY <1>2, <1>4, <2>12, <2>13, <2>14 DEF Forward
<1> QED BY <1>3, <1>4

Backward(A, B) == Ledger(B, {}) /\ Calm(A, B)

\* arena_run_coalesce, backward, and the insertion: no free neighbours alike are left.
LEMMA BackwardFacts ==
    ASSUME NEW A, NEW X, Ledger(A, X), NEW c \in Chunks, c # A.spare, NEW p, <<c, p>> \in X,
           \A x \in X : x = <<c, p>>, Ahead(A, c, p)
    PROVE  Backward(A, CoalesceBackward(A, c, p))
<1> DEFINE m == A.map[c]
           B == CoalesceBackward(A, c, p)
           I == AvailInsert(A, c, p, TRUE, TRUE)
           q == CHOOSE q \in Coalescible(A, c, p) : TRUE
           R == AvailRemove(A, c, q, TRUE, FALSE)
           w == Joined(m, q, p)
           J == [R EXCEPT !.map[c] = Joined(@, q, p)]
           T == AvailInsert(J, c, q, TRUE, TRUE)
<1>0. Typed(A) /\ Stock(A, X) /\ Merged(A)
  BY DEF Ledger
<1>1. p \in DOMAIN m /\ IsTiling(m) /\ m[p].kind = "free" /\ p + m[p].len # p
  <2>1. p \in DOMAIN m /\ IsTiling(m) /\ m[p].kind = "free"
    BY <1>0, TypedFacts DEF Stock, Outs, FreeAt
  <2> QED BY <2>1, TilingTypes
<1>2. B = IF Coalescible(A, c, p) = {} THEN I ELSE T
  BY DEF CoalesceBackward
<1>3. \A r \in FreeBefore(A, c, p) : r # p /\ r \in DOMAIN m /\ m[r].kind = "free" /\ r + m[r].len = p
  BY <1>1, TilingTypes DEF FreeBefore, FreeAt
<1>4. CASE Coalescible(A, c, p) = {}
  <2>1. Fragments(A, c, p, TRUE, TRUE) = Near(A.map[c], AvailIn(A, c), p)
    BY <1>0, <1>1, <1>3, FragmentsNear, ZenonT(40)
  <2>2. \A r \in Near(A.map[c], AvailIn(A, c), p) : A.map[c][r].dirty # A.map[c][p].dirty
    <3> TAKE r \in Near(A.map[c], AvailIn(A, c), p)
    <3>1. r \in AvailIn(A, c) /\ FreeAt(A, c, r)
      BY <1>0, AvailInFacts DEF Near, FreeAt, Stock
    <3>2. CASE r + m[r].len = p
      BY <1>4, <3>1, <3>2 DEF Coalescible, FreeBefore, FreeAt
    <3>3. CASE r = p + m[p].len
      BY <3>1, <3>3 DEF Ahead
    <3> QED BY <3>2, <3>3 DEF Near
  <2>3. Ledger(I, X \ {<<c, p>>}) /\ Rest(A, I)
    BY <2>1, <2>2, Inserted
  <2>4. X \ {<<c, p>>} = {}
    OBVIOUS
  <2> QED BY <1>2, <1>4, <2>3, <2>4, RestCalm DEF Backward
<1>5. CASE Coalescible(A, c, p) # {}
  <2>1. /\ q \in DOMAIN m /\ m[q].kind = "free" /\ p = q + m[q].len /\ m[q].dirty = m[p].dirty /\ q # p
        /\ q \in Pages /\ <<c, q>> \notin X
    <3>1. q \in Coalescible(A, c, p)
      BY <1>5
    <3> HIDE DEF q
    <3>2. q \in FreeBefore(A, c, p) /\ m[q].dirty = m[p].dirty
      BY <3>1 DEF Coalescible
    <3> QED BY <1>0, <1>3, <3>2, TypedFacts
  <2> HIDE DEF q
  <2>2. <<c, q>> \in A.avail /\ q \in AvailIn(A, c)
    BY <1>0, <2>1, SpotFacts DEF Stock, AvailIn
  <2> HIDE DEF m
  <2>3. Fragments(A, c, q, TRUE, FALSE) = Near(A.map[c], AvailIn(A, c), q)
    <3>1. ASSUME NEW r \in FreeBefore(A, c, q)
          PROVE  r # p
      <4>1. r \in DOMAIN m /\ r + m[r].len = q
        BY DEF FreeBefore, FreeAt, m
      <4>2. /\ q \in Nat /\ m[q].len \in Nat \ {0} /\ m[p].len \in Nat \ {0} /\ p = q + m[q].len
        BY <1>1, <2>1, TilingTypes
      <4>3. r = p => p + m[p].len = q
        BY <4>1
      <4> QED BY <4>2, <4>3
    <3>2. \A r \in FreeBefore(A, c, q) : <<c, r>> \notin X
      BY <3>1
    <3>3. <<c, q + A.map[c][q].len>> \in X
      BY <2>1 DEF m
    <3>4. q \in DOMAIN A.map[c]
      BY <2>1 DEF m
    <3> QED BY <1>0, <3>2, <3>3, <3>4, FragmentsNear
  <2>4. Ledger(R, X \union {<<c, q>>}) /\ Rest(A, R)
    BY <2>2, <2>3, Removed
  <2>5. R.map[c] = m /\ R.spare = A.spare /\ Typed(R)
    BY <2>4 DEF Rest, m, Ledger
  <2>6. JoinedAs(m, w, q, p)
    BY <1>1, <2>1, JoinedFacts
  <2>7. Remap(R, J, c, w) /\ J.nactive = R.nactive
    <3>1. J = [R EXCEPT !.map[c] = w]
      BY <2>5 DEF Typed
    <3> HIDE DEF J, R, w
    <3> QED BY <2>5, <3>1, RemapOnly
  <2> DEFINE Y == X \union {<<c, q>>}
             Z == {<<c, q>>}
  <2>8. /\ Ledger(R, Y) /\ <<c, p>> \in Y /\ <<c, q>> \in Y /\ Y \ {<<c, p>>} = Z
        /\ <<c, q>> \in Z /\ \A z \in Z : z = <<c, q>>
    BY <2>1, <2>4
  <2>s. Z \ {<<c, q>>} = {}
    OBVIOUS
  <2>9. p = q + R.map[c][q].len /\ R.map[c][p].dirty = R.map[c][q].dirty
    BY <2>1, <2>5
  <2>10. /\ w \in [DOMAIN w -> RunType] /\ DOMAIN w = DOMAIN R.map[c] \ {p}
         /\ w[q] = Run("free", R.map[c][q].len + R.map[c][p].len, R.map[c][q].dirty)
         /\ \A r \in DOMAIN w \ {q} : w[r] = R.map[c][r]
    BY <2>1, <2>5, <2>6 DEF JoinedAs
  <2> HIDE DEF R, J, w, Y, Z
  <2>11. Joins(R, J, c, w, q, p, Y)
    BY <2>5, <2>7, <2>8, <2>9, <2>10, JoinRuns
  <2>12. Ledger(J, Z) /\ Moves(R, J, c, w, {q, p}) /\ Taken(J) = Taken(R)
    BY <2>8, <2>11 DEF Joins
  <2>13. Calm(A, J)
    <3>1. Calm(A, R)
      BY <2>4, RestCalm
    <3>2. \A r \in {q, p} : <<c, r>> \notin Taken(R)
      BY <1>1, <2>1, <2>5 DEF Taken, m
    <3>3. Still(R, J, Taken(R)) /\ Same(R, J)
      BY <2>12, <3>2, MovesStill
    <3>4. Calm(R, J)
      BY <2>12, <3>3 DEF Calm, Moves
    <3> QED BY <3>1, <3>4, CalmTwice
  <2>14. /\ Typed(J) /\ Stock(J, Z) /\ J.map[c] = w /\ c # J.spare /\ IsTiling(w) /\ q \in DOMAIN w
         /\ w[q].len = m[q].len + m[p].len /\ w[q].dirty = m[q].dirty
         /\ \A r \in DOMAIN w \ {q} : w[r] = m[r]
    <3>1. Typed(J) /\ Stock(J, Z) /\ J.map[c] = w /\ c # J.spare
      BY <2>5, <2>12 DEF Ledger, Moves
    <3>2. q \in DOMAIN w
      BY <2>1, <2>5, <2>10
    <3>3. IsTiling(w)
      BY <3>1, <3>2, TypedFacts
    <3> QED BY <2>5, <2>10, <3>1, <3>2, <3>3 DEF Run
  <2>15. Fragments(J, c, q, TRUE, TRUE) = Near(J.map[c], AvailIn(J, c), q)
    <3>1. q + w[q].len # q
      BY <2>14, TilingTypes
    <3>2. \A r \in FreeBefore(J, c, q) : r # q
      BY <2>14, <3>1 DEF FreeBefore
    <3>3. /\ \A r \in FreeBefore(J, c, q) : <<c, r>> \notin Z
          /\ <<c, q + J.map[c][q].len>> \notin Z
      BY <2>8, <2>14, <3>1, <3>2
    <3> QED BY <2>14, <3>3, FragmentsNear
  <2>16. ASSUME NEW r \in Near(J.map[c], AvailIn(J, c), q)
         PROVE  J.map[c][r].dirty # J.map[c][q].dirty
    <3>1. r \in AvailIn(A, c) /\ r # q /\ r # p /\ r \in DOMAIN m /\ r \in DOMAIN w
      <4>1. J.avail = A.avail \ {<<c, q>>}
        BY <2>12 DEF Moves, R, AvailRemove, AvailChange
      <4>2. <<c, p>> \notin A.avail
        BY <1>0 DEF Stock
      <4>3. r \in AvailIn(J, c)
        BY DEF Near
      <4>4. r \in AvailIn(A, c) /\ r # q /\ r # p
        BY <4>1, <4>2, <4>3 DEF AvailIn
      <4> QED BY <1>0, <2>14, <4>3, <4>4, AvailInFacts DEF m, Stock
    <3>2. w[r] = m[r]
      BY <2>14, <3>1
    <3>3. CASE r + w[r].len = q
      <4>1. m[q].dirty # m[r].dirty
        BY <1>0, <2>2, <3>1, <3>2, <3>3 DEF Merged, m
      <4> QED BY <2>14, <3>2, <4>1
    <3>4. CASE r = q + w[q].len
      <4>1. r = p + m[p].len
        <5>1. q \in Nat /\ m[p].len \in Nat /\ m[q].len \in Nat
          BY <1>1, <2>1, TilingTypes
        <5> QED BY <2>1, <2>14, <3>4, <5>1
      <4>2. m[r].dirty # m[p].dirty
        BY <3>1, <4>1 DEF Ahead, m
      <4> QED BY <2>1, <2>14, <3>2, <4>2
    <3> QED BY <2>14, <3>3, <3>4 DEF Near
  <2>17. Ledger(T, Z \ {<<c, q>>}) /\ Rest(J, T)
    <3>1. T = AvailInsert(J, c, q, TRUE, TRUE)
      BY DEF T
    <3> HIDE DEF T
    <3> QED BY <2>8, <2>12, <2>15, <2>16, <3>1, Inserted
  <2> HIDE DEF T
  <2>18. Ledger(T, {}) /\ Calm(A, T)
    <3>1. Calm(J, T)
      BY <2>17, RestCalm
    <3> QED BY <2>13, <2>17, <2>s, <3>1, CalmTwice DEF Z
  <2> QED BY <1>2, <1>5, <2>18 DEF Backward
<1> QED BY <1>4, <1>5

Frees(A, B, c, p) ==
    /\ Ledger(B, {}) /\ Taken(B) = Taken(A) \ {<<c, p>>}
    /\ Still(A, B, Taken(B)) /\ Same(A, B) /\ B.spare = A.spare

\* A freed run is coalesced and inserted: the ledger holds without it.
LEMMA RunFreedFacts ==
    ASSUME NEW A, Ledger(A, {}), NEW c \in Chunks, NEW p, <<c, p>> \in Taken(A),
           NEW dirty \in BOOLEAN, dirty \/ Marked(A, c, p)
    PROVE  Frees(A, RunFreed(A, c, p, A.map[c][p], dirty), c, p)
<1> DEFINE m == A.map[c]
           w == With(m, p, Run("free", m[p].len, dirty))
           G == [A EXCEPT !.nactive = @ - m[p].len, !.map[c] = With(@, p, Run("free", m[p].len, dirty))]
           F == CoalesceForward(G, c, p)
           B == CoalesceBackward(F, c, p)
           E == {}
           X == E \union {<<c, p>>}
<1>1. RunFreed(A, c, p, A.map[c][p], dirty) = B
  BY DEF RunFreed
<1>2. Typed(A) /\ c # A.spare /\ IsTiling(m) /\ p \in DOMAIN m /\ A.nactive \in Int /\ m[p].len \in Nat
      /\ m[p].len \in 1 .. NPages
  <2>1. Typed(A)
    BY DEF Ledger
  <2>2. c # A.spare
    BY <2>1, NotSpare
  <2>3. p \in DOMAIN m /\ IsTiling(m)
    BY <2>1, TypedFacts DEF Taken
  <2> QED BY <2>1, <2>2, <2>3, TypedFacts, TilingTypes
<1>3. /\ w \in [DOMAIN w -> RunType] /\ DOMAIN w = DOMAIN m /\ w[p] = Run("free", m[p].len, dirty)
      /\ \A q \in DOMAIN m \ {p} : w[q] = m[q]
  <2> DEFINE v == Run("free", m[p].len, dirty)
  <2>1. v \in RunType
    BY <1>2 DEF Run, RunType
  <2>2. DOMAIN w = DOMAIN m /\ w[p] = v /\ \A q \in DOMAIN m \ {p} : w[q] = m[q]
    <3> HIDE DEF m
    <3> QED BY <1>2 DEF With
  <2>3. w = [q \in DOMAIN w |-> w[q]]
    BY DEF With
  <2>4. \A q \in DOMAIN w : w[q] \in RunType
    <3> HIDE DEF v, m, w
    <3> QED BY <1>2, <2>1, <2>2, TilingTypes
  <2> HIDE DEF w
  <2> QED BY <2>2, <2>3, <2>4
<1>4. Remap(A, G, c, w) /\ G.nactive = A.nactive - m[p].len
  <2> DEFINE k == A.nactive - m[p].len
  <2>1. k \in Int
    <3> HIDE DEF m
    <3> QED BY <1>2
  <2>2. G = Charted(A, k, c, w)
    BY <1>2 DEF Typed, Charted
  <2> HIDE DEF k, G, w, m
  <2>3. Remap(A, G, c, w) /\ G.nactive = k
    BY <1>2, <2>1, <2>2, RemapBy
  <2> QED BY <2>3 DEF k
<1>e. Ledger(A, E) /\ <<c, p>> \in X /\ \A x \in X : x = <<c, p>>
  OBVIOUS
<1> HIDE DEF G, w, m, E
<1>5. Gives(A, G, c, w, p, E)
  <2>1. w[p] = Run("free", A.map[c][p].len, dirty) /\ DOMAIN w = DOMAIN A.map[c]
        /\ (\A q \in DOMAIN A.map[c] \ {p} : w[q] = A.map[c][q]) /\ G.nactive = A.nactive - A.map[c][p].len
    BY <1>3, <1>4 DEF m
  <2> QED BY <1>2, <1>3, <1>4, <1>e, <2>1, GiveRun
<1>6. Ledger(G, X) /\ Moves(A, G, c, w, {p}) /\ Taken(G) = Taken(A) \ {<<c, p>>}
  BY <1>5 DEF Gives
<1> HIDE DEF X, F, B
<1>7. Forward(G, F, c, p, X)
  <2>1. c # G.spare /\ F = CoalesceForward(G, c, p)
    BY <1>2, <1>6 DEF Moves, F
  <2> QED BY <1>6, <1>e, <2>1, ForwardFacts
<1>8. Backward(F, B)
  <2>1. c # F.spare /\ Ledger(F, X) /\ Ahead(F, c, p) /\ B = CoalesceBackward(F, c, p)
    BY <1>2, <1>6, <1>7 DEF Forward, Calm, Moves, B
  <2> QED BY <1>e, <2>1, BackwardFacts
<1>9. Calm(G, B)
  BY <1>7, <1>8, CalmTwice DEF Forward, Backward
<1>10. Still(A, G, Taken(G)) /\ Same(A, G)
  BY <1>6, MovesStill
<1>11. Still(A, B, Taken(B)) /\ Same(A, B)
  BY <1>9, <1>10 DEF Calm, Still, Same
<1> QED BY <1>1, <1>6, <1>8, <1>9, <1>11 DEF Frees, Backward, Calm, Moves
-----------------------------------------------------------------------------
(* Chunks.                                                                 *)

\* A chunk comes, goes, or becomes or ceases to be the spare one.
LEMMA ChunkMoved ==
    ASSUME NEW A, NEW X, Ledger(A, X), NEW B, Typed(B), NEW Y, Stock(B, Y), Clean(B),
           B.avail = A.avail, B.info = A.info, B.ndirty = A.ndirty, B.nactive = A.nactive,
           \A r \in A.avail \union Taken(A) :
               r[2] \in DOMAIN B.map[r[1]] /\ B.map[r[1]][r[2]] = A.map[r[1]][r[2]],
           Taken(B) = Taken(A)
    PROVE  Ledger(B, Y) /\ Still(A, B, Taken(A))
<1>0. Typed(A) /\ Stock(A, X) /\ Counts(A) /\ Merged(A) /\ Totals(A)
  BY DEF Ledger
<1>1. Counts(B) /\ Merged(B)
  BY <1>0, EntriesKept
<1>2. \A r \in Taken(A) : Lens(A)[r] = Lens(B)[r]
  <2> TAKE r \in Taken(A)
  <2>1. PICK e \in Chunks, q \in Pages : r = <<e, q>>
    BY DEF Taken, Spots
  <2>2. q \in DOMAIN A.map[e] /\ q \in DOMAIN B.map[e] /\ B.map[e][q] = A.map[e][q]
    BY <2>1, SpotFacts
  <2> QED BY <2>1, <2>2, SpotFacts
<1>3. Totals(B)
  <2>1. IntOn(Lens(A), Taken(A)) /\ IsFiniteSet(Taken(A))
    BY <1>0, TakenFinite
  <2>2. SumFunctionOnSet(Lens(A), Taken(A)) = SumFunctionOnSet(Lens(B), Taken(A))
    BY <1>2, <2>1, SumSame
  <2> QED BY <1>0, <2>2 DEF Totals
<1> QED BY <1>1, <1>3 DEF Ledger, Still

\* An unused chunk is one free run.
LEMMA UnusedFacts ==
    ASSUME NEW A, Typed(A), NEW c \in Chunks, Unused(A, c)
    PROVE  /\ IsTiling(A.map[c]) /\ DOMAIN A.map[c] = {0} /\ A.map[c][0].kind = "free" /\ A.map[c][0].len = NPages
           /\ 0 \in Pages /\ NPages \notin Pages /\ \A n \in Nat \ {0} : n + A.map[c][0].len # 0
<1>1. IsTiling(A.map[c]) /\ 0 \in DOMAIN A.map[c] /\ A.map[c][0].kind = "free" /\ A.map[c][0].len = NPages
  BY TypedFacts DEF Unused
<1>2. NPages \in Nat \ {0}
  BY ArenaAssumption
<1>3. \A q \in DOMAIN A.map[c] : q = 0
  <2> TAKE q \in DOMAIN A.map[c]
  <2>1. q \in Nat /\ q < NPages
    BY <1>1, TilingTypes
  <2>2. q \in Extent(0, A.map[c][0].len)
    BY <1>1, <1>2, <2>1 DEF Extent
  <2> QED BY <1>1, <2>2, TilingFacts
<1> QED BY <1>1, <1>2, <1>3 DEF Pages

\* A chunk of one free run has no neighbours in it.
LEMMA UnusedFragments ==
    ASSUME NEW A, Typed(A), NEW X, Stock(A, X), NEW c \in Chunks, c # A.spare, Unused(A, c)
    PROVE  /\ Fragments(A, c, 0, FALSE, FALSE) = Near(A.map[c], AvailIn(A, c), 0)
           /\ Near(A.map[c], AvailIn(A, c), 0) = {}
<1>1. /\ DOMAIN A.map[c] = {0} /\ A.map[c][0].len = NPages
      /\ NPages \in Nat \ {0} /\ 0 + NPages \notin {0}
  <2>1. NPages \in Nat \ {0}
    BY ArenaAssumption
  <2> QED BY <2>1, UnusedFacts
<1>2. FreeBefore(A, c, 0) = {} /\ ~FreeAt(A, c, 0 + A.map[c][0].len)
  <2>1. 0 + NPages # 0
    BY <1>1
  <2> QED BY <1>1, <2>1 DEF FreeBefore, FreeAt
<1>3. Fragments(A, c, 0, FALSE, FALSE) = Near(A.map[c], AvailIn(A, c), 0)
  <2>1. 0 \in DOMAIN A.map[c]
    BY <1>1
  <2> QED BY <1>2, <2>1, FragmentsNear
<1>4. Fragments(A, c, 0, FALSE, FALSE) = {}
  BY DEF Fragments
<1> QED BY <1>3, <1>4

Quiet(A, B) == Ledger(B, {}) /\ Taken(B) = Taken(A) /\ Still(A, B, Taken(A)) /\ Same(A, B)

\* arena_chunk_dealloc: an unused chunk becomes the spare.
LEMMA SparedFacts ==
    ASSUME NEW A, Ledger(A, {}), NEW c \in Chunks, c # A.spare, Unused(A, c)
    PROVE  Quiet(A, Spared(A, c))
<1> DEFINE E == {}
           X == E \union {<<c, 0>>}
           R == AvailRemove(A, c, 0, FALSE, FALSE)
           M == IF A.spare = None THEN R.map ELSE [R.map EXCEPT ![A.spare] = << >>]
           B == [R EXCEPT !.spare = c, !.map = IF A.spare = None THEN @ ELSE [@ EXCEPT ![A.spare] = << >>]]
<1>0. Typed(A) /\ Stock(A, {}) /\ Clean(A)
  BY DEF Ledger
<1>1. /\ DOMAIN A.map[c] = {0} /\ A.map[c][0].kind = "free" /\ 0 \in Pages /\ <<c, 0>> \in A.avail
  <2>1. DOMAIN A.map[c] = {0} /\ A.map[c][0].kind = "free" /\ 0 \in Pages
    BY <1>0, UnusedFacts
  <2>2. <<c, 0>> \in Outs(A)
    BY <2>1, SpotFacts
  <2> QED BY <1>0, <2>1, <2>2 DEF Stock
<1>2. Ledger(R, X) /\ Rest(A, R)
  <2>1. Ledger(A, E)
    OBVIOUS
  <2>2. Stock(A, E)
    BY <1>0
  <2> HIDE DEF E
  <2>3. Fragments(A, c, 0, FALSE, FALSE) = Near(A.map[c], AvailIn(A, c), 0)
    BY <1>0, <2>2, UnusedFragments
  <2> QED BY <1>1, <2>1, <2>3, Removed
<1>3. /\ R.map = A.map /\ R.spare = A.spare /\ Typed(R) /\ Stock(R, X) /\ Clean(R)
      /\ Taken(R) = Taken(A) /\ Same(A, R) /\ Still(A, R, Taken(A))
  BY <1>2, RestKept DEF Rest, Ledger, Same, Still
<1> HIDE DEF R
<1>4. B = [R EXCEPT !.spare = c, !.map = M]
  BY <1>3 DEF Typed
<1>5. /\ B.map = M /\ B.spare = c /\ B.avail = R.avail /\ B.info = R.info /\ B.ndirty = R.ndirty
      /\ B.nactive = R.nactive /\ B.unz = R.unz /\ B.touched = R.touched /\ B.npurg = R.npurg
  <2> HIDE DEF M, B
  <2> QED BY <1>3, <1>4 DEF Typed
<1>6. /\ \A e \in Chunks : M[e] = IF e = A.spare THEN << >> ELSE A.map[e]
      /\ M \in [Chunks -> UNION {[D -> RunType] : D \in SUBSET Pages}]
  <2>1. A.map \in [Chunks -> UNION {[D -> RunType] : D \in SUBSET Pages}]
    BY <1>0 DEF Typed
  <2>2. None \notin Chunks /\ R.map = A.map
    BY <1>3, ArenaAssumption
  <2> DEFINE T == UNION {[D -> RunType] : D \in SUBSET Pages}
             z == << >>
  <2>3. z \in T
    <3>1. << >> \in [{} -> RunType] /\ {} \in SUBSET Pages
      OBVIOUS
    <3> QED BY <3>1
  <2>4. A.map \in [Chunks -> T] /\ M = IF A.spare = None THEN R.map ELSE [R.map EXCEPT ![A.spare] = z]
    BY <2>1
  <2> HIDE DEF T, z, M
  <2>5. M \in [Chunks -> T] /\ \A e \in Chunks : M[e] = IF e = A.spare THEN z ELSE A.map[e]
    BY <2>2, <2>3, <2>4
  <2> QED BY <2>5 DEF T, z
<1> HIDE DEF M
<1>7. Typed(B)
  <2> DEFINE T == UNION {[D -> RunType] : D \in SUBSET Pages}
  <2>1. R \in [map : [Chunks -> T],
              avail : SUBSET Spots, spare : Chunks \union {None},
              ndirty : Int, nactive : Int, npurg : Int, info : [Chunks -> Info],
              unz : [Chunks -> SUBSET Pages], touched : [Chunks -> SUBSET Pages]]
    BY <1>3 DEF Typed
  <2>2. M \in [Chunks -> T]
    BY <1>6
  <2> HIDE DEF T, B
  <2>3. B \in [map : [Chunks -> T],
              avail : SUBSET Spots, spare : Chunks \union {None},
              ndirty : Int, nactive : Int, npurg : Int, info : [Chunks -> Info],
              unz : [Chunks -> SUBSET Pages], touched : [Chunks -> SUBSET Pages]]
    BY <1>4, <2>1, <2>2
  <2>4. \A e \in Chunks : B.map[e] = << >> \/ IsTiling(B.map[e])
    BY <1>0, <1>5, <1>6, TypedFacts
  <2>5. Unused(B, B.spare)
    <3>1. B.map[c] = A.map[c] /\ B.spare = c
      BY <1>5, <1>6
    <3> QED BY <3>1 DEF Unused
  <2> QED BY <2>3, <2>4, <2>5 DEF Typed, T
<1> HIDE DEF B
<1>8. \A e \in Chunks, q \in Pages :
        /\ <<e, q>> \in Taken(B) <=> <<e, q>> \in Taken(A)
        /\ <<e, q>> \in Outs(B) <=> <<e, q>> \in Outs(R) \ X
  <2> TAKE e \in Chunks, q \in Pages
  <2>1. DOMAIN << >> = {}
    OBVIOUS
  <2>2. <<e, q>> \in Taken(A) => e # A.spare
    BY <1>0, NotSpare
  <2>3. <<e, q>> \in Taken(B) <=> <<e, q>> \in Taken(A)
    BY <1>5, <1>6, <2>1, <2>2, SpotFacts
  <2>4. <<e, q>> \in X <=> e = c /\ q = 0
    OBVIOUS
  <2>5. <<e, q>> \in Outs(B) <=> <<e, q>> \in Outs(R) \ X
    BY <1>1, <1>3, <1>5, <1>6, <2>1, <2>4, SpotFacts, SMTT(30)
  <2> QED BY <2>3, <2>5
<1>9. Taken(B) = Taken(A) /\ Outs(B) = Outs(R) \ X
  <2> DEFINE Z == Outs(R) \ X
  <2>1. Taken(B) \in SUBSET Spots /\ Taken(A) \in SUBSET Spots /\ Outs(B) \in SUBSET Spots /\ Z \in SUBSET Spots
    BY DEF Taken, Outs
  <2>2. \A e \in Chunks, q \in Pages : <<e, q>> \in Outs(B) <=> <<e, q>> \in Z
    BY <1>8
  <2> HIDE DEF Z
  <2>3. Taken(B) = Taken(A)
    BY <1>8, <2>1, SpotSets
  <2>4. Outs(B) = Z
    BY <2>1, <2>2, SpotSets
  <2> QED BY <2>3, <2>4 DEF Z
<1>10. Stock(B, E)
  BY <1>3, <1>5, <1>9 DEF Stock
<1>11. Clean(B)
  <2>1. \A e \in Chunks : \A p \in DOMAIN B.map[e] : B.map[e] = A.map[e]
    BY <1>5, <1>6
  <2> QED BY <1>3, <1>5, <2>1 DEF Clean, Marked
<1>12. \A r \in R.avail \union Taken(R) : /\ r[2] \in DOMAIN B.map[r[1]]
                                          /\ B.map[r[1]][r[2]] = R.map[r[1]][r[2]]
  <2> TAKE r \in R.avail \union Taken(R)
  <2>1. PICK e \in Chunks, q \in Pages : r = <<e, q>>
    BY <1>3, TypedFacts DEF Taken, Spots
  <2>2. e # R.spare /\ q \in DOMAIN R.map[e]
    <3>1. CASE <<e, q>> \in R.avail
      <4>1. <<e, q>> \in Outs(R)
        BY <1>3, <3>1 DEF Stock
      <4> QED BY <4>1, SpotFacts
    <3>2. CASE <<e, q>> \in Taken(R)
      BY <1>3, <3>2, NotSpare, SpotFacts
    <3> QED BY <2>1, <3>1, <3>2
  <2>3. B.map[e] = R.map[e]
    BY <1>3, <1>5, <1>6, <2>2
  <2> QED BY <2>1, <2>2, <2>3
<1>13. Ledger(B, E) /\ Still(R, B, Taken(R))
  <2> HIDE DEF X, E
  <2>1. Taken(B) = Taken(R)
    BY <1>3, <1>9
  <2> QED BY <1>2, <1>5, <1>7, <1>10, <1>11, <1>12, <2>1, ChunkMoved
<1>14. B = Spared(A, c)
  BY DEF Spared, B, R
<1> QED BY <1>3, <1>5, <1>9, <1>13, <1>14 DEF Quiet, Still, Same

Deallocs(A, s, c, p) ==
    /\ Ledger(s.a, {}) /\ Taken(s.a) = Taken(A) \ {<<c, p>>}
    /\ Still(A, s.a, Taken(s.a)) /\ Same(A, s.a) /\ s.unmap \in Chunks \union {None}

\* What a freed run's pages may be taken for.
FreesDirty(A, c, p, dirty, cleaned) == dirty \/ (~cleaned /\ A.map[c][p].dirty)

\* arena_run_dalloc frees one run, and no other, provided its pages may be taken for clean
\* where it takes them for it.
LEMMA RunDallocFacts ==
    ASSUME NEW A, Ledger(A, {}), NEW c \in Chunks, NEW p, <<c, p>> \in Taken(A),
           NEW dirty \in BOOLEAN, NEW cleaned \in BOOLEAN,
           FreesDirty(A, c, p, dirty, cleaned) \/ Marked(A, c, p)
    PROVE  Deallocs(A, RunDalloc(A, c, p, dirty, cleaned), c, p)
<1> DEFINE d == FreesDirty(A, c, p, dirty, cleaned)
           B == RunFreed(A, c, p, A.map[c][p], d)
           s == Settled(B, c)
<1>1. RunDalloc(A, c, p, dirty, cleaned) = s
  BY DEF RunDalloc, FreesDirty
<1>2. Typed(A) /\ c # A.spare
  BY NotSpare DEF Ledger
<1>3. d \in BOOLEAN
  <2>1. p \in DOMAIN A.map[c] /\ IsTiling(A.map[c])
    BY <1>2, TypedFacts DEF Taken
  <2>2. A.map[c][p] \in RunType
    BY <2>1, TilingTypes
  <2>3. A.map[c][p].dirty \in BOOLEAN
    BY <2>2 DEF RunType
  <2> QED BY <2>3 DEF FreesDirty
<1>4. d \/ Marked(A, c, p)
  OBVIOUS
<1> HIDE DEF d
<1>5. Frees(A, B, c, p)
  BY <1>3, <1>4, RunFreedFacts
<1> HIDE DEF B
<1>6. /\ Ledger(B, {}) /\ Taken(B) = Taken(A) \ {<<c, p>>} /\ Still(A, B, Taken(B)) /\ Same(A, B)
      /\ B.spare = A.spare /\ Typed(B)
  BY <1>5 DEF Frees, Ledger
<1>7. CASE Unused(B, c)
  <2>1. Quiet(B, Spared(B, c))
    BY <1>2, <1>6, <1>7, SparedFacts
  <2>2. s.a = Spared(B, c) /\ s.unmap = B.spare
    BY <1>7 DEF Settled
  <2>3. Quiet(B, s.a)
    BY <2>1, <2>2
  <2>4. B.spare \in Chunks \union {None}
    BY <1>6, TypedFacts
  <2> HIDE DEF s
  <2> QED BY <1>1, <1>6, <2>2, <2>3, <2>4 DEF Quiet, Deallocs, Still, Same
<1>8. CASE ~Unused(B, c)
  <2>1. s.a = B /\ s.unmap = None
    BY <1>8 DEF Settled
  <2> HIDE DEF s
  <2> QED BY <1>1, <1>6, <2>1 DEF Deallocs
<1> QED BY <1>7, <1>8

\* The unused chunk c provides pages.
Provides(A, B, c) ==
    /\ Ledger(B, {}) /\ Taken(B) = Taken(A) /\ Still(A, B, Taken(A)) /\ B.npurg = A.npurg
    /\ \A r \in Taken(A) : B.unz[r[1]] = A.unz[r[1]] /\ B.touched[r[1]] = A.touched[r[1]]
    /\ <<c, 0>> \in B.avail /\ B.map[c][0].len = NPages

\* The run of an unused chunk is inserted.
LEMMA ProvidesFacts ==
    ASSUME NEW A, NEW X, Ledger(A, X), NEW c \in Chunks, c # A.spare, Unused(A, c), <<c, 0>> \in X,
           \A x \in X : x = <<c, 0>>
    PROVE  LET B == AvailInsert(A, c, 0, FALSE, FALSE)
           IN Ledger(B, {}) /\ Rest(A, B) /\ Taken(B) = Taken(A) /\ <<c, 0>> \in B.avail
<1> DEFINE B == AvailInsert(A, c, 0, FALSE, FALSE)
<1>0. Typed(A) /\ Stock(A, X)
  BY DEF Ledger
<1>1. /\ Fragments(A, c, 0, FALSE, FALSE) = Near(A.map[c], AvailIn(A, c), 0)
      /\ Near(A.map[c], AvailIn(A, c), 0) = {}
  BY <1>0, UnusedFragments
<1>2. \A q \in Near(A.map[c], AvailIn(A, c), 0) : A.map[c][q].dirty # A.map[c][0].dirty
  BY <1>1
<1> HIDE DEF B
<1>3. Ledger(B, X \ {<<c, 0>>}) /\ Rest(A, B)
  <2>1. B = AvailInsert(A, c, 0, FALSE, FALSE)
    BY DEF B
  <2> QED BY <1>1, <1>2, <2>1, Inserted
<1>4. X \ {<<c, 0>>} = {}
  OBVIOUS
<1>5. Taken(B) = Taken(A) /\ Outs(B) = Outs(A)
  BY <1>3, RestKept
<1>6. <<c, 0>> \in B.avail
  <2>1. Stock(B, {})
    BY <1>3, <1>4 DEF Ledger
  <2> QED BY <1>0, <1>5, <2>1 DEF Stock
<1> QED BY <1>3, <1>4, <1>5, <1>6 DEF B

\* arena_chunk_init_spare provides pages.
LEMMA FromSpareFacts ==
    ASSUME NEW A, Ledger(A, {}), A.spare # None
    PROVE  Provides(A, FromSpare(A), A.spare)
<1> DEFINE c == A.spare
           S == [A EXCEPT !.spare = None]
           E == {}
           X == E \union {<<c, 0>>}
           B == AvailInsert(S, c, 0, FALSE, FALSE)
<1>0. Typed(A) /\ Stock(A, E) /\ Clean(A) /\ Ledger(A, E) /\ c \in Chunks
  BY TypedFacts DEF Ledger
<1>1. /\ DOMAIN A.map[c] = {0} /\ A.map[c][0].kind = "free" /\ 0 \in Pages /\ Unused(A, c)
      /\ A.map[c][0].len = NPages
  <2>1. Unused(A, c)
    BY <1>0 DEF Typed
  <2> QED BY <1>0, <2>1, UnusedFacts
<1>2. /\ S.map = A.map /\ S.spare = None /\ S.avail = A.avail /\ S.info = A.info /\ S.ndirty = A.ndirty
      /\ S.nactive = A.nactive /\ S.unz = A.unz /\ S.touched = A.touched /\ S.npurg = A.npurg
  BY <1>0 DEF Typed
<1>3. Typed(S)
  <2> DEFINE T == UNION {[D -> RunType] : D \in SUBSET Pages}
  <2>1. A \in [map : [Chunks -> T],
              avail : SUBSET Spots, spare : Chunks \union {None},
              ndirty : Int, nactive : Int, npurg : Int, info : [Chunks -> Info],
              unz : [Chunks -> SUBSET Pages], touched : [Chunks -> SUBSET Pages]]
    BY <1>0 DEF Typed
  <2> HIDE DEF T
  <2>2. S \in [map : [Chunks -> T],
              avail : SUBSET Spots, spare : Chunks \union {None},
              ndirty : Int, nactive : Int, npurg : Int, info : [Chunks -> Info],
              unz : [Chunks -> SUBSET Pages], touched : [Chunks -> SUBSET Pages]]
    BY <2>1
  <2> HIDE DEF S
  <2> QED BY <1>0, <1>2, <2>2 DEF Typed, T
<1> HIDE DEF S
<1>4. \A e \in Chunks, q \in Pages :
        /\ <<e, q>> \in Taken(S) <=> <<e, q>> \in Taken(A)
        /\ <<e, q>> \in Outs(S) <=> <<e, q>> \in Outs(A) \union {<<c, 0>>}
  <2> TAKE e \in Chunks, q \in Pages
  <2>1. None \notin Chunks
    BY ArenaAssumption
  <2>2. /\ <<e, q>> \in Taken(A) <=> q \in DOMAIN A.map[e] /\ A.map[e][q].kind # "free"
        /\ <<e, q>> \in Outs(A) <=> q \in DOMAIN A.map[e] /\ A.map[e][q].kind = "free" /\ e # A.spare
    BY SpotFacts
  <2>3. /\ <<e, q>> \in Taken(S) <=> q \in DOMAIN S.map[e] /\ S.map[e][q].kind # "free"
        /\ <<e, q>> \in Outs(S) <=> q \in DOMAIN S.map[e] /\ S.map[e][q].kind = "free" /\ e # S.spare
    BY SpotFacts
  <2>4. <<e, q>> \in {<<c, 0>>} <=> e = c /\ q = 0
    OBVIOUS
  <2> QED BY <1>1, <1>2, <2>1, <2>2, <2>3, <2>4
<1>5. Taken(S) = Taken(A) /\ Outs(S) = Outs(A) \union {<<c, 0>>}
  <2> DEFINE Z == Outs(A) \union {<<c, 0>>}
  <2>1. Taken(S) \in SUBSET Spots /\ Taken(A) \in SUBSET Spots /\ Outs(S) \in SUBSET Spots /\ Z \in SUBSET Spots
    BY <1>0, <1>1 DEF Taken, Outs, Spots
  <2>2. \A e \in Chunks, q \in Pages : <<e, q>> \in Outs(S) <=> <<e, q>> \in Z
    BY <1>4
  <2> HIDE DEF Z
  <2>3. Taken(S) = Taken(A)
    BY <1>4, <2>1, SpotSets
  <2>4. Outs(S) = Z
    BY <2>1, <2>2, SpotSets
  <2> QED BY <2>3, <2>4 DEF Z
<1>6. Stock(S, X)
  <2>1. <<c, 0>> \notin Outs(A)
    BY <1>0, <1>1, SpotFacts
  <2> QED BY <1>0, <1>2, <1>5, <2>1 DEF Stock
<1>7. Clean(S)
  BY <1>0, <1>2 DEF Clean, Marked
<1>8. Ledger(S, X) /\ Still(A, S, Taken(A))
  <2>1. \A r \in A.avail \union Taken(A) : r[2] \in DOMAIN S.map[r[1]] /\ S.map[r[1]][r[2]] = A.map[r[1]][r[2]]
    BY <1>0, <1>2 DEF Stock, Outs, FreeAt, Taken
  <2> HIDE DEF X, E
  <2> QED BY <1>0, <1>2, <1>3, <1>5, <1>6, <1>7, <2>1, ChunkMoved
<1>9. Ledger(B, {}) /\ Rest(S, B) /\ Taken(B) = Taken(S) /\ <<c, 0>> \in B.avail
  <2>1. <<c, 0>> \in X /\ \A x \in X : x = <<c, 0>>
    OBVIOUS
  <2>2. c # S.spare /\ Unused(S, c)
    BY <1>0, <1>1, <1>2, ArenaAssumption DEF Unused
  <2> HIDE DEF X, E
  <2> QED BY <1>0, <1>8, <2>1, <2>2, ProvidesFacts
<1>10. B = FromSpare(A)
  BY DEF FromSpare, S
<1> HIDE DEF B
<1> QED BY <1>1, <1>2, <1>5, <1>8, <1>9, <1>10 DEF Provides, Rest, Still

\* So does arena_chunk_init_hard.
LEMMA NewChunkFacts ==
    ASSUME NEW A, Ledger(A, {}), NEW c \in Chunks, A.map[c] = << >>
    PROVE  Provides(A, NewChunk(A, c), c)
<1> DEFINE w == [p \in {0} |-> Run("free", NPages, FALSE)]
           u == IF c \in Zeroing THEN {} ELSE Pages
           E == {}
           X == E \union {<<c, 0>>}
           S == [A EXCEPT !.map[c] = [p \in {0} |-> Run("free", NPages, FALSE)], !.info[c] = NoInfo,
                          !.unz[c] = IF c \in Zeroing THEN {} ELSE Pages,
                          !.touched[c] = IF c \in Zeroing THEN {} ELSE Pages]
           B == AvailInsert(S, c, 0, FALSE, FALSE)
<1>0. Typed(A) /\ Stock(A, E) /\ Clean(A) /\ Ledger(A, E) /\ Counts(A)
  BY DEF Ledger
<1>1. c # A.spare /\ NPages \in Nat \ {0} /\ DOMAIN A.map[c] = {} /\ 0 \in Pages
  <2>1. DOMAIN << >> = {}
    OBVIOUS
  <2>2. c # A.spare
    BY <1>0, <2>1, ArenaAssumption DEF Typed, Unused
  <2> QED BY <2>1, <2>2, ArenaAssumption DEF Pages
<1>2. IsTiling(w) /\ DOMAIN w = {0} /\ w[0] = Run("free", NPages, FALSE) /\ w \in [{0} -> RunType]
  <2> DEFINE v == Run("free", NPages, FALSE)
  <2>1. v \in RunType /\ v.len = NPages
    BY <1>1 DEF Run, RunType
  <2> HIDE DEF v
  <2>2. DOMAIN w = {0} /\ w[0] = v /\ w \in [DOMAIN w -> RunType]
    BY <2>1 DEF v
  <2> HIDE DEF w
  <2>3. 0 + w[0].len = NPages /\ DOMAIN w \subseteq Pages
    BY <1>1, <2>1, <2>2
  <2>4. \A p, q \in DOMAIN w : ~ (p < q)
    BY <2>2
  <2>5. IsTiling(w)
    BY <2>2, <2>3, <2>4 DEF IsTiling
  <2> QED BY <2>2, <2>5 DEF v
<1>3. A.info[c] = NoInfo
  <2>1. AvailIn(A, c) = {}
    BY <1>0, <1>1 DEF Stock, Outs, FreeAt, AvailIn
  <2>2. Counted(A, c)
    BY <1>0 DEF Counts
  <2>3. Cardinality({}) = 0 /\ Adjacent(A.map[c], {}) = {}
    BY FS_EmptySet DEF Adjacent
  <2>4. A.info[c].ndirty = 0 /\ A.info[c].navail = 0 /\ A.info[c].nadjac = 0
    BY <2>1, <2>2, <2>3, SumEmpty DEF Counted
  <2>5. A.info[c] \in Info
    BY <1>0, TypedFacts
  <2> QED BY <2>4, <2>5 DEF Info, NoInfo
<1>4. S = [A EXCEPT !.map = [@ EXCEPT ![c] = w], !.info = [@ EXCEPT ![c] = NoInfo],
                    !.unz = [@ EXCEPT ![c] = u], !.touched = [@ EXCEPT ![c] = u]]
  BY <1>0 DEF Typed
<1> HIDE DEF w, u
<1>5. /\ S.map = [A.map EXCEPT ![c] = w] /\ S.spare = A.spare /\ S.avail = A.avail
      /\ S.info = [A.info EXCEPT ![c] = NoInfo] /\ S.ndirty = A.ndirty
      /\ S.nactive = A.nactive /\ S.npurg = A.npurg
      /\ S.unz = [A.unz EXCEPT ![c] = u] /\ S.touched = [A.touched EXCEPT ![c] = u]
  <2> HIDE DEF S
  <2> QED BY <1>0, <1>4 DEF Typed
<1> DEFINE T == UNION {[D -> RunType] : D \in SUBSET Pages}
<1>6. /\ A.map \in [Chunks -> T] /\ w \in T /\ A.info \in [Chunks -> Info] /\ NoInfo \in Info
      /\ A.unz \in [Chunks -> SUBSET Pages] /\ A.touched \in [Chunks -> SUBSET Pages] /\ u \in SUBSET Pages
  <2>1. w \in T
    <3>1. {0} \in SUBSET Pages
      BY <1>1
    <3> QED BY <1>2, <3>1
  <2>2. A.map \in [Chunks -> T]
    BY <1>0 DEF Typed
  <2> HIDE DEF T
  <2> QED BY <1>0, <2>1, <2>2, TypedFacts DEF NoInfo, Info, u
<1>7. Typed(S)
  <2>1. A \in [map : [Chunks -> T],
              avail : SUBSET Spots, spare : Chunks \union {None},
              ndirty : Int, nactive : Int, npurg : Int, info : [Chunks -> Info],
              unz : [Chunks -> SUBSET Pages], touched : [Chunks -> SUBSET Pages]]
    BY <1>0 DEF Typed
  <2> DEFINE M == [A.map EXCEPT ![c] = w]
             I == [A.info EXCEPT ![c] = NoInfo]
             Z == [A.unz EXCEPT ![c] = u]
             H == [A.touched EXCEPT ![c] = u]
  <2> HIDE DEF T, S
  <2>2. /\ M \in [Chunks -> T] /\ I \in [Chunks -> Info]
        /\ Z \in [Chunks -> SUBSET Pages] /\ H \in [Chunks -> SUBSET Pages]
    BY <1>6
  <2>3. S = [A EXCEPT !.map = M, !.info = I, !.unz = Z, !.touched = H]
    BY <1>4
  <2> HIDE DEF M, I, Z, H
  <2>4. S \in [map : [Chunks -> T],
              avail : SUBSET Spots, spare : Chunks \union {None},
              ndirty : Int, nactive : Int, npurg : Int, info : [Chunks -> Info],
              unz : [Chunks -> SUBSET Pages], touched : [Chunks -> SUBSET Pages]]
    BY <2>1, <2>2, <2>3
  <2>5. \A e \in Chunks : S.map[e] = << >> \/ IsTiling(S.map[e])
    BY <1>0, <1>2, <1>5, TypedFacts
  <2>6. S.spare # None => Unused(S, S.spare)
    <3>1. A.spare # None => Unused(A, A.spare) /\ S.map[A.spare] = A.map[A.spare]
      BY <1>0, <1>1, <1>5, TypedFacts DEF Typed
    <3> QED BY <1>5, <3>1 DEF Unused
  <2> QED BY <2>4, <2>5, <2>6 DEF Typed, T
<1>8. \A e \in Chunks : S.map[e] = IF e = c THEN w ELSE A.map[e]
  <2>1. S.map = [A.map EXCEPT ![c] = w] /\ A.map \in [Chunks -> T]
    BY <1>5, <1>6
  <2> HIDE DEF S, T
  <2> QED BY <2>1
<1> HIDE DEF S, T
<1>9. \A e \in Chunks, q \in Pages :
        /\ <<e, q>> \in Taken(S) <=> <<e, q>> \in Taken(A)
        /\ <<e, q>> \in Outs(S) <=> <<e, q>> \in Outs(A) \union {<<c, 0>>}
  <2> TAKE e \in Chunks, q \in Pages
  <2>1. w[0].kind = "free"
    BY <1>2 DEF Run
  <2>2. /\ <<e, q>> \in Taken(A) <=> q \in DOMAIN A.map[e] /\ A.map[e][q].kind # "free"
        /\ <<e, q>> \in Outs(A) <=> q \in DOMAIN A.map[e] /\ A.map[e][q].kind = "free" /\ e # A.spare
    BY SpotFacts
  <2>3. /\ <<e, q>> \in Taken(S) <=> q \in DOMAIN S.map[e] /\ S.map[e][q].kind # "free"
        /\ <<e, q>> \in Outs(S) <=> q \in DOMAIN S.map[e] /\ S.map[e][q].kind = "free" /\ e # S.spare
    BY SpotFacts
  <2>4. <<e, q>> \in {<<c, 0>>} <=> e = c /\ q = 0
    OBVIOUS
  <2> QED BY <1>1, <1>2, <1>5, <1>8, <2>1, <2>2, <2>3, <2>4
<1>10. Taken(S) = Taken(A) /\ Outs(S) = Outs(A) \union {<<c, 0>>}
  <2> DEFINE Z == Outs(A) \union {<<c, 0>>}
  <2>1. Taken(S) \in SUBSET Spots /\ Taken(A) \in SUBSET Spots /\ Outs(S) \in SUBSET Spots /\ Z \in SUBSET Spots
    BY <1>0, <1>1 DEF Taken, Outs, Spots
  <2>2. \A e \in Chunks, q \in Pages : <<e, q>> \in Outs(S) <=> <<e, q>> \in Z
    BY <1>9
  <2> HIDE DEF Z
  <2>3. Taken(S) = Taken(A)
    BY <1>9, <2>1, SpotSets
  <2>4. Outs(S) = Z
    BY <2>1, <2>2, SpotSets
  <2> QED BY <2>3, <2>4 DEF Z
<1>11. <<c, 0>> \notin Outs(A) /\ \A r \in A.avail \union Taken(A) : r[1] # c /\ r[2] \in DOMAIN A.map[r[1]] /\ r[1] \in Chunks
  BY <1>0, <1>1, SpotFacts DEF Stock, Outs, FreeAt, Taken, Spots
<1>12. Stock(S, X)
  BY <1>0, <1>5, <1>10, <1>11 DEF Stock
<1>13. Clean(S)
  <2> SUFFICES ASSUME NEW e \in Chunks, NEW p \in DOMAIN S.map[e], S.map[e][p].kind = "free", ~S.map[e][p].dirty
               PROVE  Marked(S, e, p)
    BY DEF Clean
  <2>1. CASE e = c
    BY <1>5, <1>6, <2>1 DEF Marked
  <2>2. CASE e # c
    <3>1. S.map[e] = A.map[e] /\ S.unz[e] = A.unz[e] /\ S.touched[e] = A.touched[e]
      BY <1>5, <1>6, <1>8, <2>2
    <3> QED BY <1>0, <3>1 DEF Clean, Marked
  <2> QED BY <2>1, <2>2
<1>14. S.info = A.info
  BY <1>3, <1>5, <1>6
<1>15. Ledger(S, X) /\ Still(A, S, Taken(A))
  <2>1. \A r \in A.avail \union Taken(A) : r[2] \in DOMAIN S.map[r[1]] /\ S.map[r[1]][r[2]] = A.map[r[1]][r[2]]
    BY <1>8, <1>11
  <2> HIDE DEF X, E
  <2> QED BY <1>0, <1>5, <1>7, <1>10, <1>12, <1>13, <1>14, <2>1, ChunkMoved
<1>16. Ledger(B, {}) /\ Rest(S, B) /\ Taken(B) = Taken(S) /\ <<c, 0>> \in B.avail
  <2>1. <<c, 0>> \in X /\ \A x \in X : x = <<c, 0>>
    OBVIOUS
  <2>2. c # S.spare /\ Unused(S, c)
    BY <1>1, <1>2, <1>5, <1>8 DEF Unused, Run
  <2> HIDE DEF X, E
  <2> QED BY <1>15, <2>1, <2>2, ProvidesFacts
<1>17. B = NewChunk(A, c)
  BY DEF NewChunk, S
<1>18. \A r \in Taken(A) : S.unz[r[1]] = A.unz[r[1]] /\ S.touched[r[1]] = A.touched[r[1]]
  BY <1>5, <1>6, <1>11
<1>19. S.map[c][0].len = NPages
  BY <1>2, <1>8 DEF Run
<1> HIDE DEF B
<1>20. /\ B.map = S.map /\ B.npurg = A.npurg /\ B.unz = S.unz /\ B.touched = S.touched
  BY <1>5, <1>16 DEF Rest
<1>21. Still(A, B, Taken(A))
  BY <1>15, <1>20 DEF Still
<1> QED BY <1>10, <1>16, <1>17, <1>18, <1>19, <1>20, <1>21 DEF Provides
-----------------------------------------------------------------------------
(* What is chosen exists.                                                  *)

Fits(A, r, n) == r \in A.avail /\ A.map[r[1]][r[2]].len >= n

\* arena_avail_tree_nsearch finds a run that fits, if there is one.
LEMMA BestFitFacts ==
    ASSUME NEW A, Ledger(A, {}), NEW n, Fitting(A, n) # {}
    PROVE  Fits(A, BestFit(A, n), n)
<1> DEFINE S == Fitting(A, n)
           R == {x \in S \X S : Smaller(A, x[1], x[2])}
<1>0. Typed(A) /\ Stock(A, {})
  BY DEF Ledger
<1>1. S \subseteq A.avail /\ IsFiniteSet(S)
  <2>1. IsFiniteSet(A.avail)
    BY <1>0, FiniteSpots, TypedFacts, FS_Subset
  <2> QED BY <2>1, FS_Subset DEF Fitting
<1>2. \A r \in S : r[1] \in Nat /\ r[2] \in Nat /\ A.map[r[1]][r[2]].len \in Nat /\ r = <<r[1], r[2]>>
  <2> TAKE r \in S
  <2>1. r \in Outs(A) /\ r[1] \in Chunks /\ r[2] \in Pages /\ r = <<r[1], r[2]>>
    BY <1>0, <1>1 DEF Stock, Outs, Spots
  <2>2. r[2] \in DOMAIN A.map[r[1]]
    BY <2>1 DEF Outs, FreeAt
  <2>3. A.map[r[1]][r[2]].len \in Nat
    BY <1>0, <2>1, <2>2, TypedFacts, TilingTypes
  <2> QED BY <2>1, <2>3 DEF Chunks, Pages
<1>3. \A x, y \in S : Smaller(A, x, y) \/ Smaller(A, y, x)
  <2> TAKE x, y \in S
  <2> QED BY <1>2 DEF Smaller
<1>4. ASSUME NEW x \in S, NEW y \in S, NEW z \in S, Smaller(A, x, y), Smaller(A, y, z)
      PROVE  Smaller(A, x, z)
  <2> DEFINE l == A.map[x[1]][x[2]].len
             m == A.map[y[1]][y[2]].len
             k == A.map[z[1]][z[2]].len
  <2>1. l \in Nat /\ m \in Nat /\ k \in Nat
    BY <1>2
  <2>2. l < m \/ (l = m /\ (x[1] < y[1] \/ (x[1] = y[1] /\ x[2] <= y[2])))
    BY <1>4 DEF Smaller
  <2>3. m < k \/ (m = k /\ (y[1] < z[1] \/ (y[1] = z[1] /\ y[2] <= z[2])))
    BY <1>4 DEF Smaller
  <2> HIDE DEF l, m, k
  <2>4. l < k \/ (l = k /\ (x[1] < z[1] \/ (x[1] = z[1] /\ x[2] <= z[2])))
    BY <1>2, <2>1, <2>2, <2>3
  <2> QED BY <2>4 DEF l, m, k, Smaller
<1> HIDE DEF S
<1>5. \E m \in S : \A x \in S : <<m, x>> \in R
  <2>1. \A x, y \in S : <<x, y>> \in R <=> Smaller(A, x, y)
    BY DEF R
  <2>2. S # {}
    BY DEF S
  <2> HIDE DEF R
  <2>3. \A x, y \in S : <<x, y>> \in R \/ <<y, x>> \in R
    BY <1>3, <2>1
  <2>4. \A x, y, z \in S : <<x, y>> \in R /\ <<y, z>> \in R => <<x, z>> \in R
    BY <1>4, <2>1
  <2> QED BY <1>1, <2>2, <2>3, <2>4, FiniteLeast
<1>6. \E m \in S : \A x \in S : Smaller(A, m, x)
  BY <1>5 DEF R
<1>7. BestFit(A, n) \in S
  BY <1>6 DEF BestFit, S
<1> QED BY <1>7 DEF Fits, S, Fitting

\* The lowest run of the bin is one of them.
LEMMA FirstFacts ==
    ASSUME NEW runs \in SUBSET Spots, runs # {}
    PROVE  First(runs) \in runs /\ \A s \in runs \ {First(runs)} : Below(First(runs), s)
<1> DEFINE R == {x \in runs \X runs : x[1] = x[2] \/ Below(x[1], x[2])}
<1>1. \A r \in runs : r[1] \in Nat /\ r[2] \in Nat /\ r = <<r[1], r[2]>>
  BY DEF Spots, Chunks, Pages
<1>2. IsFiniteSet(runs)
  BY FiniteSpots, FS_Subset
<1>3. \A x, y \in runs : <<x, y>> \in R <=> x = y \/ Below(x, y)
  BY DEF R
<1>4. \A x, y \in runs : x = y \/ Below(x, y) \/ Below(y, x)
  <2> TAKE x, y \in runs
  <2>1. x = <<x[1], x[2]>> /\ y = <<y[1], y[2]>>
    BY <1>1
  <2>2. x[1] = y[1] /\ x[2] = y[2] => x = y
    BY <2>1
  <2> QED BY <1>1, <2>2 DEF Below
<1>5. \A x, y, z \in runs : Below(x, y) /\ Below(y, z) => Below(x, z)
  <2> TAKE x, y, z \in runs
  <2> QED BY <1>1 DEF Below
<1> HIDE DEF R
<1>6. \E m \in runs : \A x \in runs : <<m, x>> \in R
  <2>1. \A x, y \in runs : <<x, y>> \in R \/ <<y, x>> \in R
    BY <1>3, <1>4
  <2>2. \A x, y, z \in runs : <<x, y>> \in R /\ <<y, z>> \in R => <<x, z>> \in R
    BY <1>3, <1>5
  <2> QED BY <1>2, <2>1, <2>2, FiniteLeast
<1>7. \E m \in runs : \A s \in runs \ {m} : Below(m, s)
  BY <1>3, <1>6
<1> QED BY <1>7 DEF First

\* The counts of a chunk's free runs.
LEMMA CountFacts ==
    ASSUME NEW A, Ledger(A, {}), NEW c \in Chunks
    PROVE  /\ A.info[c].navail \in Nat /\ A.info[c].nadjac \in Int
           /\ A.info[c].ndirty # 0 => A.info[c].navail # 0 /\ c # A.spare
<1>0. Typed(A) /\ Stock(A, {}) /\ Counted(A, c)
  BY DEF Ledger, Counts
<1>1. IsFiniteSet(AvailIn(A, c)) /\ A.avail = Outs(A)
  BY <1>0, AvailInFacts DEF Stock
<1>2. A.info[c].navail \in Nat
  BY <1>0, <1>1, FS_CardinalityType DEF Counted
<1>3. A.info[c].nadjac \in Int
  BY <1>0, TypedFacts DEF Info
<1>4. AvailIn(A, c) = {} => A.info[c].ndirty = 0
  BY <1>0, SumEmpty DEF Counted
<1>5. A.info[c].navail = 0 => AvailIn(A, c) = {}
  BY <1>0, <1>1, FS_EmptySet DEF Counted
<1>6. c = A.spare => AvailIn(A, c) = {}
  BY <1>1 DEF AvailIn, Outs
<1> QED BY <1>2, <1>3, <1>4, <1>5, <1>6

\* There is a first chunk in the order of arena_chunk_dirty_comp.
LEMMA DirtyFirstFacts ==
    ASSUME NEW A, Ledger(A, {}), ChunksDirty(A) # {}
    PROVE  DirtyFirst(A) \in Chunks /\ DirtyFirst(A) # A.spare
<1> DEFINE S == ChunksDirty(A)
           R == {x \in S \X S : PurgedBefore(A, x[1], x[2])}
           m(c) == A.info[c].navail - A.info[c].nadjac
           n(c) == A.info[c].navail
           j(c) == A.info[c].nadjac
<1>1. S \subseteq Chunks /\ IsFiniteSet(S) /\ \A c \in S : c # A.spare /\ c \in Nat
  <2>1. S \subseteq Chunks /\ \A c \in S : c # A.spare
    BY CountFacts DEF ChunksDirty
  <2>2. IsFiniteSet(S)
    BY <2>1, FiniteSpots, FS_Subset
  <2> HIDE DEF S
  <2> QED BY <2>1, <2>2 DEF Chunks
<1>2. \A c \in S : n(c) \in Nat \ {0} /\ j(c) \in Int /\ m(c) \in Int /\ m(c) = n(c) - j(c)
  <2> TAKE c \in S
  <2>1. n(c) \in Nat /\ n(c) # 0 /\ j(c) \in Int
    BY CountFacts DEF ChunksDirty
  <2> QED BY <2>1
<1>3. \A c, d \in S : PurgedBefore(A, c, d) <=>
          \/ m(c) * n(d) > m(d) * n(c)
          \/ m(c) * n(d) = m(d) * n(c) /\ (IF j(c) = 0 THEN c >= d ELSE c <= d)
  BY DEF PurgedBefore
<1>4. \A c, d \in S : m(c) * n(d) \in Int /\ m(d) * n(c) \in Int
  BY <1>2
<1> HIDE DEF m, n, j, S
<1>5. ASSUME NEW c \in S, NEW d \in S, m(c) * n(d) = m(d) * n(c)
      PROVE  j(c) = 0 <=> j(d) = 0
  <2>1. n(c) * n(d) = n(d) * n(c)
    BY <1>2
  <2>2. ASSUME j(c) = 0
        PROVE  j(d) = 0
    <3>1. m(c) = n(c)
      BY <1>2, <2>2
    <3>2. n(d) * n(c) = m(d) * n(c)
      BY <1>5, <2>1, <3>1
    <3>3. n(d) = m(d)
      <4>1. n(d) \in Int /\ m(d) \in Int /\ n(c) \in Nat \ {0}
        BY <1>2
      <4> QED BY <3>2, <4>1, Products
    <3> QED BY <1>2, <3>3
  <2>3. ASSUME j(d) = 0
        PROVE  j(c) = 0
    <3>1. m(d) = n(d)
      BY <1>2, <2>3
    <3>2. m(c) * n(d) = n(c) * n(d)
      BY <1>5, <2>1, <3>1
    <3>3. n(c) = m(c)
      BY <1>2, <3>2, Products
    <3> QED BY <1>2, <3>3
  <2> QED BY <2>2, <2>3
<1>6. \A c, d \in S : PurgedBefore(A, c, d) \/ PurgedBefore(A, d, c)
  <2> TAKE c, d \in S
  <2>1. CASE m(c) * n(d) = m(d) * n(c)
    <3>1. (j(c) = 0 <=> j(d) = 0) /\ c \in Nat /\ d \in Nat
      BY <1>1, <1>5, <2>1
    <3> QED BY <1>3, <2>1, <3>1
  <2>2. CASE m(c) * n(d) # m(d) * n(c)
    <3> DEFINE x == m(c) * n(d)
               y == m(d) * n(c)
    <3>1. x \in Int /\ y \in Int /\ x # y
      BY <1>4, <2>2
    <3> HIDE DEF x, y
    <3>2. x > y \/ y > x
      BY <3>1
    <3> QED BY <1>3, <3>2 DEF x, y
  <2> QED BY <2>1, <2>2
<1>7. ASSUME NEW c \in S, NEW d \in S, NEW e \in S, PurgedBefore(A, c, d), PurgedBefore(A, d, e)
      PROVE  PurgedBefore(A, c, e)
  <2> DEFINE cd == m(c) * n(d)
             dc == m(d) * n(c)
             de == m(d) * n(e)
             ed == m(e) * n(d)
             ce == m(c) * n(e)
             ec == m(e) * n(c)
  <2>1. cd \in Int /\ dc \in Int /\ de \in Int /\ ed \in Int /\ ce \in Int /\ ec \in Int
    BY <1>4
  <2>2. /\ cd > dc \/ (cd = dc /\ (IF j(c) = 0 THEN c >= d ELSE c <= d))
        /\ de > ed \/ (de = ed /\ (IF j(d) = 0 THEN d >= e ELSE d <= e))
    BY <1>3, <1>7
  <2>3. cd = dc => (j(c) = 0 <=> j(d) = 0)
    BY <1>5
  <2>4. cd >= dc /\ de >= ed => ce >= ec /\ (ce = ec => cd = dc /\ de = ed)
    <3>1. ASSUME cd >= dc, de >= ed
          PROVE  ce >= ec /\ (ce = ec => cd = dc /\ de = ed)
      BY <1>2, <3>1, Cross
    <3> QED BY <3>1
  <2>5. PurgedBefore(A, c, e) <=> ce > ec \/ (ce = ec /\ (IF j(c) = 0 THEN c >= e ELSE c <= e))
    BY <1>3
  <2> HIDE DEF cd, dc, de, ed, ce, ec
  <2>6. ce > ec \/ (ce = ec /\ cd = dc /\ de = ed)
    BY <2>1, <2>2, <2>4
  <2>7. CASE ce = ec /\ cd = dc /\ de = ed
    <3>1. c \in Nat /\ d \in Nat /\ e \in Nat
      BY <1>1
    <3>2. IF j(c) = 0 THEN c >= e ELSE c <= e
      BY <2>1, <2>2, <2>3, <2>7, <3>1
    <3> QED BY <2>5, <2>7, <3>2
  <2> QED BY <2>5, <2>6, <2>7
<1>8. \E k \in S : \A x \in S : <<k, x>> \in R
  <2>1. \A x, y \in S : <<x, y>> \in R <=> PurgedBefore(A, x, y)
    BY DEF R
  <2>2. S # {}
    BY DEF S
  <2> HIDE DEF R
  <2>3. \A x, y \in S : <<x, y>> \in R \/ <<y, x>> \in R
    BY <1>6, <2>1
  <2>4. \A x, y, z \in S : <<x, y>> \in R /\ <<y, z>> \in R => <<x, z>> \in R
    BY <1>7, <2>1
  <2> QED BY <1>1, <2>2, <2>3, <2>4, FiniteLeast
<1>9. \E k \in S : \A x \in S : PurgedBefore(A, k, x)
  BY <1>8 DEF R
<1>10. DirtyFirst(A) \in S
  BY <1>9 DEF DirtyFirst, S
<1> QED BY <1>1, <1>10
-----------------------------------------------------------------------------
(* The runs a thread is to free.                                           *)

JobType == [c : Chunks, p : Pages, dirty : BOOLEAN, cleaned : BOOLEAN]
Held(todo) == {<<todo[i].c, todo[i].p>> : i \in DOMAIN todo}
Apart(todo) == \A i, j \in DOMAIN todo : todo[i].c = todo[j].c /\ todo[i].p = todo[j].p => i = j

\* The jobs of todo, each a run that nobody else has: the others are F.
Jobs(A, todo, F) ==
    /\ todo \in Seq(JobType) /\ Apart(todo)
    /\ Taken(A) = F \union Held(todo) /\ F \cap Held(todo) = {}

\* Jobs are added, done, and joined.
LEMMA JobsMore ==
    ASSUME NEW A, NEW todo, NEW F, Jobs(A, todo, F), NEW j \in JobType, <<j.c, j.p>> \notin Taken(A),
           NEW B, Taken(B) = Taken(A) \union {<<j.c, j.p>>}
    PROVE  Jobs(B, Append(todo, j), F)
<1> DEFINE n == Len(todo) + 1
           more == Append(todo, j)
<1>1. todo \in Seq(JobType) /\ Len(todo) \in Nat /\ DOMAIN todo = 1 .. Len(todo)
  BY DEF Jobs
<1>2. more \in Seq(JobType) /\ DOMAIN more = DOMAIN todo \union {n} /\ n \notin DOMAIN todo
  BY <1>1
<1>3. more[n] = j /\ \A i \in DOMAIN todo : more[i] = todo[i]
  BY <1>1
<1> HIDE DEF more, n
<1>4. Held(more) = Held(todo) \union {<<j.c, j.p>>}
  BY <1>2, <1>3 DEF Held
<1>5. \A i \in DOMAIN todo : <<todo[i].c, todo[i].p>> # <<j.c, j.p>>
  BY DEF Jobs, Held
<1>6. Apart(more)
  <2> SUFFICES ASSUME NEW i \in DOMAIN more, NEW k \in DOMAIN more,
                      more[i].c = more[k].c, more[i].p = more[k].p
               PROVE  i = k
    BY DEF Apart
  <2>1. CASE i \in DOMAIN todo /\ k \in DOMAIN todo
    BY <1>3, <2>1 DEF Jobs, Apart
  <2>2. CASE i = n \/ k = n
    BY <1>2, <1>3, <1>5, <2>2
  <2> QED BY <1>2, <2>1, <2>2
<1>7. Taken(B) = F \union Held(more) /\ F \cap Held(more) = {}
  BY <1>4 DEF Jobs
<1> QED BY <1>2, <1>6, <1>7 DEF Jobs, more

\* The first job is done.
FirstDone(A, B, todo, F) ==
    /\ Jobs(B, Tail(todo), F) /\ Head(todo) \in JobType
    /\ <<Head(todo).c, Head(todo).p>> \in Taken(A) /\ Len(Tail(todo)) = Len(todo) - 1
    /\ F \subseteq Taken(B) /\ \A i \in DOMAIN Tail(todo) : Tail(todo)[i] = todo[i + 1] /\ i + 1 \in DOMAIN todo

LEMMA JobsFewer ==
    ASSUME NEW A, NEW todo, NEW F, Jobs(A, todo, F), todo # << >>,
           NEW B, Taken(B) = Taken(A) \ {<<Head(todo).c, Head(todo).p>>}
    PROVE  FirstDone(A, B, todo, F)
<1> DEFINE j == Head(todo)
           less == Tail(todo)
<1>1. todo \in Seq(JobType) /\ Len(todo) \in Nat \ {0} /\ DOMAIN todo = 1 .. Len(todo)
  BY DEF Jobs
<1>2. less \in Seq(JobType) /\ Len(less) = Len(todo) - 1 /\ DOMAIN less = 1 .. Len(todo) - 1
  BY <1>1
<1>3. j = todo[1] /\ \A i \in DOMAIN less : less[i] = todo[i + 1] /\ i + 1 \in DOMAIN todo /\ i + 1 # 1
  BY <1>1, <1>2
<1>4. \A i \in DOMAIN todo : i = 1 \/ (i - 1 \in DOMAIN less /\ todo[i] = less[i - 1])
  BY <1>1, <1>2
<1> HIDE DEF j, less
<1>5. 1 \in DOMAIN todo /\ j \in JobType /\ <<j.c, j.p>> \in Held(todo)
  BY <1>1, <1>3 DEF Held
<1>6. Held(todo) = Held(less) \union {<<j.c, j.p>>}
  <2>1. Held(todo) \subseteq Held(less) \union {<<j.c, j.p>>}
    BY <1>3, <1>4 DEF Held
  <2>2. Held(less) \subseteq Held(todo)
    BY <1>3 DEF Held
  <2> QED BY <1>5, <2>1, <2>2
<1>7. \A i \in DOMAIN less : <<less[i].c, less[i].p>> # <<j.c, j.p>>
  <2> TAKE i \in DOMAIN less
  <2>1. ~ (todo[i + 1].c = todo[1].c /\ todo[i + 1].p = todo[1].p)
    BY <1>3, <1>5 DEF Jobs, Apart
  <2> QED BY <1>3, <2>1
<1>8. <<j.c, j.p>> \notin Held(less)
  BY <1>7 DEF Held
<1>9. Apart(less)
  <2> SUFFICES ASSUME NEW i \in DOMAIN less, NEW k \in DOMAIN less,
                      less[i].c = less[k].c, less[i].p = less[k].p
               PROVE  i = k
    BY DEF Apart
  <2>1. i + 1 = k + 1
    BY <1>3 DEF Jobs, Apart
  <2> QED BY <1>2, <2>1
<1>10. Taken(B) = F \union Held(less) /\ F \cap Held(less) = {} /\ F \subseteq Taken(B)
  BY <1>5, <1>6, <1>8 DEF Jobs, j
<1> QED BY <1>2, <1>3, <1>5, <1>9, <1>10 DEF Jobs, FirstDone, j, less

LEMMA JobsJoined ==
    ASSUME NEW A, NEW todo, NEW F, Jobs(A, todo, F), NEW B, NEW more, Jobs(B, more, Taken(A))
    PROVE  /\ Jobs(B, more \o todo, F) /\ Len(more \o todo) = Len(more) + Len(todo)
           /\ \A i \in DOMAIN (more \o todo) : \/ i \in DOMAIN more /\ (more \o todo)[i] = more[i]
                                             \/ \E k \in DOMAIN todo : (more \o todo)[i] = todo[k]
<1> DEFINE n == Len(more)
           all == more \o todo
<1>1. /\ todo \in Seq(JobType) /\ Len(todo) \in Nat /\ DOMAIN todo = 1 .. Len(todo)
      /\ more \in Seq(JobType) /\ n \in Nat /\ DOMAIN more = 1 .. n
  BY DEF Jobs
<1>2. all \in Seq(JobType) /\ Len(all) = n + Len(todo) /\ DOMAIN all = 1 .. n + Len(todo)
  BY <1>1
<1>3. /\ \A i \in DOMAIN more : i \in DOMAIN all /\ all[i] = more[i]
      /\ \A k \in DOMAIN todo : n + k \in DOMAIN all /\ all[n + k] = todo[k]
  BY <1>1, <1>2
<1>4. \A i \in DOMAIN all : i \in DOMAIN more \/ \E k \in DOMAIN todo : i = n + k
  <2> TAKE i \in DOMAIN all
  <2>1. i \in Nat /\ i >= 1 /\ i <= n + Len(todo)
    BY <1>1, <1>2
  <2>2. CASE i > n
    <3>1. i - n \in DOMAIN todo /\ i = n + (i - n)
      BY <1>1, <2>1, <2>2
    <3> QED BY <3>1
  <2> QED BY <1>1, <2>1, <2>2
<1> HIDE DEF all, n
<1>5. Held(all) = Held(more) \union Held(todo)
  <2>1. Held(all) \subseteq Held(more) \union Held(todo)
    BY <1>3, <1>4 DEF Held
  <2>2. Held(more) \subseteq Held(all) /\ Held(todo) \subseteq Held(all)
    BY <1>3 DEF Held
  <2> QED BY <2>1, <2>2
<1>6. \A i \in DOMAIN more, k \in DOMAIN todo : ~ (more[i].c = todo[k].c /\ more[i].p = todo[k].p)
  <2> TAKE i \in DOMAIN more, k \in DOMAIN todo
  <2>1. <<more[i].c, more[i].p>> \in Held(more) /\ <<todo[k].c, todo[k].p>> \in Held(todo)
    BY DEF Held
  <2> QED BY <2>1 DEF Jobs
<1>7. Apart(all)
  <2> SUFFICES ASSUME NEW i \in DOMAIN all, NEW k \in DOMAIN all,
                      all[i].c = all[k].c, all[i].p = all[k].p
               PROVE  i = k
    BY DEF Apart
  <2>1. CASE i \in DOMAIN more /\ k \in DOMAIN more
    BY <1>3, <2>1 DEF Jobs, Apart
  <2>2. CASE i \in DOMAIN more /\ k \notin DOMAIN more
    BY <1>3, <1>4, <1>6, <2>2
  <2>3. CASE i \notin DOMAIN more /\ k \in DOMAIN more
    BY <1>3, <1>4, <1>6, <2>3
  <2>4. CASE i \notin DOMAIN more /\ k \notin DOMAIN more
    <3>1. PICK x \in DOMAIN todo, y \in DOMAIN todo : i = n + x /\ k = n + y
      BY <1>4, <2>4
    <3>2. x = y
      BY <1>3, <3>1 DEF Jobs, Apart
    <3> QED BY <3>1, <3>2
  <2> QED BY <2>1, <2>2, <2>3, <2>4
<1>8. Taken(B) = F \union Held(all) /\ F \cap Held(all) = {}
  BY <1>5 DEF Jobs
<1> QED BY <1>2, <1>3, <1>4, <1>7, <1>8 DEF Jobs, all, n
-----------------------------------------------------------------------------
(* arena_chunk_stash_dirty.                                                *)

ArenaType ==
    [map : [Chunks -> UNION {[D -> RunType] : D \in SUBSET Pages}],
     avail : SUBSET Spots, spare : Chunks \union {None},
     ndirty : Int, nactive : Int, npurg : Int, info : [Chunks -> Info],
     unz : [Chunks -> SUBSET Pages], touched : [Chunks -> SUBSET Pages]]
StashType == [a : ArenaType, jobs : Seq(JobType), npages : Int]

ToClean(todo) == \A i \in DOMAIN todo : todo[i].cleaned /\ ~todo[i].dirty

\* s is where the stashing of runs of A has come.
Stashes(A, s) ==
    /\ Ledger(s.a, {}) /\ Jobs(s.a, s.jobs, Taken(A)) /\ ToClean(s.jobs) /\ s.npages \in Int
    /\ Still(A, s.a, Taken(A)) /\ Same(A, s.a) /\ s.a.spare = A.spare

\* One run is stashed.
LEMMA StashAtFacts ==
    ASSUME NEW A, Ledger(A, {}), NEW c \in Chunks, c # A.spare, NEW p \in Pages, NEW all,
           NEW s \in StashType, Stashes(A, s)
    PROVE  StashAt(s, c, p, all) \in StashType /\ Stashes(A, StashAt(s, c, p, all))
<1> DEFINE n == s.a.map[c][p].len
           B == RunSplit(s.a, c, p, n, "large")
           j == Job(c, p, FALSE, TRUE)
           r == StashAt(s, c, p, all)
<1>1. CASE ~Stashable(s.a, c, p, all)
  BY <1>1 DEF StashAt
<1>2. CASE Stashable(s.a, c, p, all)
  <2>0. Ledger(s.a, {}) /\ Jobs(s.a, s.jobs, Taken(A)) /\ Typed(s.a) /\ c # s.a.spare /\ Stock(s.a, {})
    BY DEF Stashes, Ledger
  <2>1. <<c, p>> \in s.a.avail
    <3>1. FreeAt(s.a, c, p)
      BY <1>2 DEF Stashable
    <3>2. <<c, p>> \in Outs(s.a)
      BY <2>0, <3>1, SpotFacts DEF FreeAt
    <3> QED BY <2>0, <3>2 DEF Stock
  <2>2. n \in Nat \ {0} /\ n \in 1 .. n
    <3>1. p \in DOMAIN s.a.map[c] /\ IsTiling(s.a.map[c])
      BY <1>2, <2>0, TypedFacts DEF Stashable, FreeAt
    <3>2. n \in Nat \ {0}
      BY <3>1, TilingTypes
    <3> HIDE DEF n
    <3> QED BY <3>2
  <2>3. Splits(s.a, B, c, p, n, "large")
    <3>1. n \in 1 .. s.a.map[c][p].len
      BY <2>2
    <3> HIDE DEF n
    <3> QED BY <2>0, <2>1, <3>1, RunSplitFacts
  <2>4. r = [a |-> B, jobs |-> Append(s.jobs, j), npages |-> s.npages + n]
    BY <1>2 DEF StashAt, Stashed
  <2>5. j \in JobType /\ j.c = c /\ j.p = p /\ j.cleaned /\ ~j.dirty
    BY DEF Job, JobType
  <2> HIDE DEF B, j, n
  <2>6. /\ Ledger(B, {}) /\ Taken(B) = Taken(s.a) \union {<<j.c, j.p>>} /\ <<j.c, j.p>> \notin Taken(s.a)
        /\ Still(s.a, B, Taken(s.a)) /\ Same(s.a, B) /\ B.spare = s.a.spare
    BY <2>3, <2>5 DEF Splits
  <2>7. Jobs(B, Append(s.jobs, j), Taken(A))
    BY <2>0, <2>5, <2>6, JobsMore
  <2>8. ToClean(Append(s.jobs, j))
    <3>1. s.jobs \in Seq(JobType) /\ ToClean(s.jobs)
      BY DEF Stashes, Jobs
    <3> QED BY <2>5, <3>1 DEF ToClean
  <2>9. Still(A, B, Taken(A)) /\ Same(A, B) /\ B.spare = A.spare
    <3>1. Taken(A) \subseteq Taken(s.a)
      BY <2>0 DEF Jobs
    <3> QED BY <2>6, <3>1 DEF Stashes, Still, Same
  <2>10. s.npages + n \in Int
    BY <2>2 DEF StashType
  <2>11. B \in ArenaType
    BY <2>6 DEF Ledger, Typed, ArenaType
  <2>12. Append(s.jobs, j) \in Seq(JobType)
    BY <2>7 DEF Jobs
  <2>13. r \in StashType
    BY <2>4, <2>10, <2>11, <2>12 DEF StashType
  <2>14. Stashes(A, r)
    BY <2>4, <2>6, <2>7, <2>8, <2>9, <2>10 DEF Stashes
  <2> QED BY <2>13, <2>14
<1> QED BY <1>1, <1>2

\* arena_chunk_stash_dirty: the stashed runs are allocated, each is a job, and npages is their
\* length.
LEMMA StashFacts ==
    ASSUME NEW A, Ledger(A, {}), NEW c \in Chunks, c # A.spare, NEW all
    PROVE  Stash(A, c, all) \in StashType /\ Stashes(A, Stash(A, c, all))
<1> DEFINE S == {s \in StashType : Stashes(A, s)}
           e == [a |-> A, jobs |-> << >>, npages |-> 0]
           Here(i) == IF i - 1 \in Pages THEN i - 1 ELSE 0
           step == [i \in Nat |-> [s \in S |-> StashAt(s, c, Here(i), all)]]
           Swept(f) == f = [i \in 0 .. NPages |-> IF i = 0 THEN e ELSE StashAt(f[i - 1], c, i - 1, all)]
<1>0. NPages \in Nat \ {0} /\ Pages = 0 .. NPages - 1
  BY ArenaAssumption DEF Pages
<1>1. e \in S
  <2>1. e \in StashType
    BY DEF StashType, ArenaType, Ledger, Typed
  <2>2. Jobs(A, << >>, Taken(A)) /\ ToClean(<< >>)
    <3>1. << >> \in Seq(JobType) /\ DOMAIN << >> = {}
      OBVIOUS
    <3> QED BY <3>1 DEF Jobs, Held, Apart, ToClean
  <2> QED BY <2>1, <2>2 DEF Stashes, Still, Same
<1>2. step \in [Nat -> [S -> S]]
  <2> SUFFICES ASSUME NEW i \in Nat, NEW s \in S
               PROVE  StashAt(s, c, Here(i), all) \in S
    OBVIOUS
  <2>1. Here(i) \in Pages
    BY <1>0
  <2> HIDE DEF Here
  <2> QED BY <2>1, StashAtFacts
<1> HIDE DEF S, e
<1>3. PICK f \in [0 .. NPages -> S] : Loops(f, e, step, NPages)
  <2> HIDE DEF step
  <2> QED BY <1>0, <1>1, <1>2, LoopExists
<1>4. \A i \in 1 .. NPages : f[i] = StashAt(f[i - 1], c, i - 1, all)
  <2> TAKE i \in 1 .. NPages
  <2>1. i \in Nat /\ i - 1 \in 0 .. NPages /\ f[i - 1] \in S /\ Here(i) = i - 1
    BY <1>0
  <2> HIDE DEF Here
  <2>2. step[i][f[i - 1]] = StashAt(f[i - 1], c, i - 1, all)
    BY <2>1
  <2> HIDE DEF step
  <2> QED BY <1>3, <2>2 DEF Loops
<1>5. Swept(f)
  <2>1. \A i \in 0 .. NPages : f[i] = IF i = 0 THEN e ELSE StashAt(f[i - 1], c, i - 1, all)
    <3> TAKE i \in 0 .. NPages
    <3>1. i = 0 \/ i \in 1 .. NPages
      BY <1>0
    <3> QED BY <1>3, <1>4, <3>1 DEF Loops
  <2> QED BY <2>1
<1> DEFINE g == CHOOSE g : Swept(g)
<1>6. Swept(g)
  <2> HIDE DEF Swept
  <2> QED BY <1>5
<1>7. Stash(A, c, all) = g[NPages]
  BY DEF Stash, e
<1> HIDE DEF g
<1>8. /\ g[0] = e
      /\ \A i \in 1 .. NPages : g[i] = StashAt(g[i - 1], c, i - 1, all)
  <2>1. \A i \in 0 .. NPages : g[i] = IF i = 0 THEN e ELSE StashAt(g[i - 1], c, i - 1, all)
    BY <1>6
  <2>2. 0 \in 0 .. NPages /\ \A i \in 1 .. NPages : i \in 0 .. NPages /\ i # 0
    BY <1>0
  <2> QED BY <2>1, <2>2
<1> DEFINE T == {i \in Nat : i <= NPages => g[i] \in S}
<1>9. 0 \in T
  BY <1>1, <1>8
<1>10. ASSUME NEW i \in Nat, i \in T
       PROVE  i + 1 \in T
  <2> SUFFICES ASSUME i + 1 <= NPages
               PROVE  g[i + 1] \in S
    OBVIOUS
  <2>1. i + 1 \in 1 .. NPages /\ i \in Pages /\ g[i] \in S /\ (i + 1) - 1 = i
    BY <1>0, <1>10
  <2>2. g[i + 1] = StashAt(g[i], c, i, all)
    BY <1>8, <2>1
  <2>3. StashAt(g[i], c, i, all) \in S
    BY <2>1, StashAtFacts DEF S
  <2> QED BY <2>2, <2>3
<1>11. NPages \in T
  <2> HIDE DEF T
  <2>1. Nat \subseteq T
    BY <1>9, <1>10, Induction
  <2> QED BY <1>0, <2>1
<1> QED BY <1>0, <1>7, <1>11 DEF S
-----------------------------------------------------------------------------
(* Counting pages.                                                         *)

\* The pages of the runs S.
Covered(A, S) == {x \in Spots : \E r \in S : r[1] = x[1] /\ x[2] \in Extent(r[2], A.map[r[1]][r[2]].len)}
Runs(A) == {r \in Spots : r[2] \in DOMAIN A.map[r[1]]}

\* The lengths of runs add up to the pages they cover.
LEMMA PagesCounted ==
    ASSUME NEW A, Typed(A), NEW S \in SUBSET Runs(A)
    PROVE  /\ SumFunctionOnSet(Lens(A), S) = Cardinality(Covered(A, S))
           /\ SumFunctionOnSet(Lens(A), S) \in 0 .. NChunks * NPages
<1> DEFINE T == {U \in SUBSET S : SumFunctionOnSet(Lens(A), U) = Cardinality(Covered(A, U))}
<1>1. {} \in T
  <2>1. Covered(A, {}) = {}
    BY DEF Covered
  <2> QED BY <2>1, SumEmpty, FS_EmptySet
<1>2. ASSUME NEW U \in SUBSET S, U \in T, NEW r \in S \ U
      PROVE  U \union {r} \in T
  <2> DEFINE c == r[1]
             p == r[2]
             n == A.map[c][p].len
             new == {c} \X Extent(p, n)
  <2>1. /\ c \in Chunks /\ p \in Pages /\ p \in DOMAIN A.map[c] /\ IsTiling(A.map[c])
        /\ r = <<c, p>>
    BY TypedFacts DEF Runs, Spots
  <2>2. /\ p \in Nat /\ n \in Nat \ {0} /\ p + n <= NPages /\ NPages \in Nat
    BY <2>1, TilingTypes
  <2> HIDE DEF n
  <2>3. IsFiniteSet(Extent(p, n)) /\ Cardinality(Extent(p, n)) = n /\ Extent(p, n) \subseteq Pages
    <3>1. p \in Int /\ p + n - 1 \in Int /\ ~ (p > p + n - 1) /\ (p + n - 1) - p + 1 = n
      BY <2>2
    <3>2. IsFiniteSet(p .. p + n - 1) /\ Cardinality(p .. p + n - 1) = n
      BY <3>1, FS_Interval
    <3>3. p .. p + n - 1 \subseteq 0 .. NPages - 1
      BY <2>2
    <3> QED BY <3>2, <3>3 DEF Extent, Pages
  <2>4. IsFiniteSet(new) /\ Cardinality(new) = n
    <3> DEFINE one == {c}
               run == Extent(p, n)
    <3>1. IsFiniteSet(one) /\ Cardinality(one) = 1 /\ IsFiniteSet(run) /\ Cardinality(run) = n
      BY <2>3, FS_Singleton
    <3> HIDE DEF one, run
    <3>2. IsFiniteSet(one \X run) /\ Cardinality(one \X run) = Cardinality(one) * Cardinality(run)
      BY <3>1, FS_Product
    <3> QED BY <2>2, <3>1, <3>2 DEF one, run
  <2>5. Covered(A, U \union {r}) = Covered(A, U) \union new
    <3>1. \A x \in new : x \in Spots /\ r[1] = x[1] /\ x[2] \in Extent(r[2], A.map[r[1]][r[2]].len)
      BY <2>1, <2>3 DEF Spots, n
    <3>2. \A x \in Spots : r[1] = x[1] /\ x[2] \in Extent(r[2], A.map[r[1]][r[2]].len) => x \in new
      BY <2>1 DEF Spots, n
    <3> HIDE DEF new
    <3> QED BY <3>1, <3>2 DEF Covered
  <2>6. Covered(A, U) \cap new = {}
    <3> SUFFICES ASSUME NEW x \in Covered(A, U), x \in new
                 PROVE  FALSE
      OBVIOUS
    <3>1. PICK s \in U : s[1] = x[1] /\ x[2] \in Extent(s[2], A.map[s[1]][s[2]].len)
      BY DEF Covered
    <3>2. x[1] = c /\ x[2] \in Extent(p, A.map[c][p].len)
      BY DEF n
    <3>3. s[2] \in DOMAIN A.map[c] /\ s = <<s[1], s[2]>>
      BY <3>1, <3>2 DEF Runs, Spots
    <3>4. s[2] = p
      BY <2>1, <3>1, <3>2, <3>3, TilingFacts
    <3>5. s = r
      BY <2>1, <3>1, <3>2, <3>3, <3>4
    <3> QED BY <3>1, <3>5
  <2>7. IsFiniteSet(Covered(A, U)) /\ Cardinality(Covered(A, U)) \in Nat
    <3>1. Covered(A, U) \in SUBSET Spots
      BY DEF Covered
    <3>2. IsFiniteSet(Covered(A, U))
      BY <3>1, FiniteSpots, FS_Subset
    <3> QED BY <3>2, FS_CardinalityType
  <2>8. Cardinality(Covered(A, U \union {r})) = Cardinality(Covered(A, U)) + n
    <3> DEFINE old == Covered(A, U)
    <3> HIDE DEF new, old
    <3>1. IsFiniteSet(old) /\ IsFiniteSet(new) /\ old \cap new = {} /\ Cardinality(new) = n
          /\ Covered(A, U \union {r}) = old \union new /\ Cardinality(old) \in Nat
      BY <2>4, <2>5, <2>6, <2>7 DEF old
    <3>2. Cardinality(old \union new) = Cardinality(old) + Cardinality(new) - Cardinality(old \cap new)
      BY <3>1, FS_Union
    <3>3. Cardinality({}) = 0
      BY FS_EmptySet
    <3>4. Cardinality(old \union new) = Cardinality(old) + n
      BY <2>2, <3>1, <3>2, <3>3
    <3> QED BY <3>1, <3>4 DEF old
  <2>9. SumFunctionOnSet(Lens(A), U \union {r}) = n + SumFunctionOnSet(Lens(A), U)
    <3>1. U \subseteq Spots /\ U \union {r} \in SUBSET Spots /\ r \notin U
      BY DEF Runs
    <3>2. IntOn(Lens(A), U \union {r}) /\ IsFiniteSet(U)
      BY <3>1, TakenFinite
    <3>3. SumFunctionOnSet(Lens(A), U \union {r}) = Lens(A)[r] + SumFunctionOnSet(Lens(A), U)
      BY <3>1, <3>2, SumWith
    <3>4. Lens(A)[r] = n
      BY <2>1, SpotFacts DEF n
    <3> QED BY <3>3, <3>4
  <2>10. U \union {r} \in SUBSET S
    OBVIOUS
  <2> QED BY <1>2, <2>2, <2>7, <2>8, <2>9, <2>10
<1>3. S \in T
  <2>1. IsFiniteSet(S)
    BY FiniteSpots, FS_Subset DEF Runs
  <2> HIDE DEF T
  <2> QED BY <1>1, <1>2, <2>1, FiniteInduction
<1>4. Cardinality(Covered(A, S)) \in 0 .. NChunks * NPages
  <2>1. Covered(A, S) \in SUBSET Spots
    BY DEF Covered
  <2>2. IsFiniteSet(Covered(A, S)) /\ Cardinality(Covered(A, S)) <= Cardinality(Spots)
    BY <2>1, FiniteSpots, FS_Subset
  <2>3. Cardinality(Spots) = NChunks * NPages
    BY FiniteSpots, FS_Product DEF Spots
  <2>4. Cardinality(Covered(A, S)) \in Nat /\ NChunks * NPages \in Nat
    BY <2>2, FS_CardinalityType, ArenaAssumption
  <2> QED BY <2>2, <2>3, <2>4
<1> QED BY <1>3, <1>4

\* The counters of the arena are numbers of pages.
LEMMA CountersBounded ==
    ASSUME NEW A, NEW X, Ledger(A, X)
    PROVE  /\ A.ndirty \in 0 .. NChunks * NPages /\ A.nactive \in 0 .. NChunks * NPages
           /\ NChunks * NPages \in Nat
<1>0. Typed(A) /\ Stock(A, X) /\ Counts(A) /\ Totals(A)
  BY DEF Ledger
<1>1. Taken(A) \in SUBSET Runs(A) /\ A.avail \in SUBSET Runs(A)
  BY <1>0 DEF Taken, Runs, Stock, Outs, FreeAt
<1>2. A.nactive \in 0 .. NChunks * NPages
  BY <1>0, <1>1, PagesCounted DEF Totals
<1>3. A.avail \in SUBSET Spots /\ IsFiniteSet(A.avail)
  BY <1>0, FiniteSpots, FS_Subset, TypedFacts
<1>4. \A r \in A.avail : Dirts(A)[r] \in Nat /\ Lens(A)[r] \in Nat /\ Dirts(A)[r] <= Lens(A)[r]
  BY <1>0, <1>3, DirtyTypes
<1>5. SumFunctionOnSet(Dirts(A), A.avail) \in Nat
  BY <1>3, <1>4, SumNat
<1>6. SumFunctionOnSet(Dirts(A), A.avail) <= SumFunctionOnSet(Lens(A), A.avail)
  <2>1. IntOn(Dirts(A), A.avail) /\ IntOn(Lens(A), A.avail)
    BY <1>4 DEF IntOn
  <2> QED BY <1>3, <1>4, <2>1, SumLess
<1>7. SumFunctionOnSet(Lens(A), A.avail) \in 0 .. NChunks * NPages
  BY <1>0, <1>1, PagesCounted
<1>8. NChunks * NPages \in Nat
  BY ArenaAssumption
<1>9. A.ndirty = SumFunctionOnSet(Dirts(A), A.avail)
  BY <1>0 DEF Counts
<1> HIDE DEF Dirts
<1>10. A.ndirty \in 0 .. NChunks * NPages
  BY <1>5, <1>6, <1>7, <1>8, <1>9
<1> QED BY <1>2, <1>8, <1>10

\* All pages of the chunks in use are allocated or free.
LEMMA PagesBalance ==
    ASSUME NEW A, Ledger(A, {})
    PROVE  /\ A.nactive + SumFunctionOnSet(Lens(A), A.avail)
                  = NPages * Cardinality(Mapped(A) \ {A.spare})
           /\ IsFiniteSet(Mapped(A))
<1> DEFINE M == Mapped(A) \ {A.spare}
           R == Taken(A) \union A.avail
<1>0. Typed(A) /\ A.avail = Outs(A) /\ A.nactive = SumFunctionOnSet(Lens(A), Taken(A))
  BY DEF Ledger, Stock, Totals
<1>1. IsFiniteSet(Mapped(A)) /\ IsFiniteSet(M) /\ M \subseteq Chunks
  <2>1. Mapped(A) \in SUBSET Chunks /\ M \in SUBSET Chunks
    BY DEF Mapped
  <2> QED BY <2>1, FiniteSpots, FS_Subset
<1>2. R \in SUBSET Runs(A) /\ Taken(A) \cap A.avail = {}
  BY <1>0 DEF Taken, Outs, FreeAt, Runs
<1>3. Covered(A, R) = M \X Pages
  <2>1. ASSUME NEW x \in Covered(A, R)
        PROVE  x \in M \X Pages
    <3>1. PICK r \in R : r[1] = x[1]
      BY <2>1 DEF Covered
    <3>2. r[2] \in DOMAIN A.map[r[1]] /\ r[1] \in Chunks /\ r[2] \in Pages /\ r = <<r[1], r[2]>>
      BY <1>2 DEF Runs, Spots
    <3>3. r[1] # A.spare
      <4>1. CASE r \in Taken(A)
        <5>1. <<r[1], r[2]>> \in Taken(A)
          BY <3>2, <4>1
        <5> QED BY <1>0, <3>2, <5>1, NotSpare
      <4>2. CASE r \in A.avail
        BY <1>0, <4>2 DEF Outs
      <4> QED BY <4>1, <4>2
    <3>4. A.map[r[1]] # << >>
      BY <3>2
    <3> QED BY <2>1, <3>1, <3>2, <3>3, <3>4 DEF Covered, Spots, Mapped
  <2>2. ASSUME NEW c \in M, NEW i \in Pages
        PROVE  <<c, i>> \in Covered(A, R)
    <3>1. c \in Chunks /\ c # A.spare /\ IsTiling(A.map[c])
      BY <1>0, TypedFacts DEF Mapped
    <3>2. PICK p \in DOMAIN A.map[c] : i \in Extent(p, A.map[c][p].len)
      BY <3>1, TilingCovers
    <3>3. p \in Pages
      BY <3>1 DEF IsTiling
    <3>4. <<c, p>> \in R
      <4>1. A.map[c][p].kind = "free" => <<c, p>> \in Outs(A)
        BY <3>1, <3>2, <3>3, SpotFacts
      <4>2. A.map[c][p].kind # "free" => <<c, p>> \in Taken(A)
        BY <3>1, <3>2, <3>3, SpotFacts
      <4> QED BY <1>0, <4>1, <4>2
    <3> HIDE DEF R
    <3> QED BY <3>1, <3>2, <3>4 DEF Covered, Spots
  <2> HIDE DEF M, R
  <2> QED BY <2>1, <2>2
<1> HIDE DEF M
<1>4. SumFunctionOnSet(Lens(A), R) = NPages * Cardinality(M)
  <2>1. SumFunctionOnSet(Lens(A), R) = Cardinality(Covered(A, R))
    BY <1>0, <1>2, PagesCounted
  <2>2. Cardinality(M \X Pages) = Cardinality(M) * Cardinality(Pages)
    BY <1>1, FiniteSpots, FS_Product
  <2>3. Cardinality(Pages) = NPages /\ Cardinality(M) \in Nat /\ NPages \in Nat
    BY <1>1, FiniteSpots, FS_CardinalityType, ArenaAssumption
  <2>4. Cardinality(M) * NPages = NPages * Cardinality(M)
    BY <2>3
  <2> QED BY <1>3, <2>1, <2>2, <2>3, <2>4
<1>5. SumFunctionOnSet(Lens(A), R) = SumFunctionOnSet(Lens(A), Taken(A)) + SumFunctionOnSet(Lens(A), A.avail)
  <2>1. Taken(A) \in SUBSET Spots /\ A.avail \in SUBSET Spots /\ R \in SUBSET Spots
    BY <1>0 DEF Taken, Outs
  <2>2. IsFiniteSet(Taken(A)) /\ IsFiniteSet(A.avail) /\ IntOn(Lens(A), R)
    BY <1>0, <2>1, TakenFinite
  <2> QED BY <1>2, <2>2, SumUnion
<1> QED BY <1>0, <1>1, <1>4, <1>5 DEF M
-----------------------------------------------------------------------------
(* What the counters and the page map of the arena come to.                *)

\* The counters of a chunk that is not the spare.
LEMMA ChunkExact ==
    ASSUME Ledger(arena, {}), NEW c \in Mapped(arena)
    PROVE  /\ \A i \in Pages : Cardinality({p \in DOMAIN arena.map[c] : i \in Extent(p, arena.map[c][p].len)}) = 1
           /\ \A p \in FreeRuns(c) : \A q \in FreeBefore(arena, c, p) :
                  arena.map[c][q].dirty # arena.map[c][p].dirty
           /\ c # arena.spare =>
                  arena.info[c] = [ndirty |-> DirtyOf(c), navail |-> Cardinality(FreeRuns(c)),
                                   nadjac |-> Cardinality({p \in FreeRuns(c) : FreeBefore(arena, c, p) # {}})]
<1> DEFINE m == arena.map[c]
<1>0. Typed(arena) /\ Stock(arena, {}) /\ Merged(arena) /\ Counted(arena, c) /\ c \in Chunks /\ IsTiling(m)
  BY TypedFacts DEF Ledger, Counts, Mapped
<1>1. ASSUME NEW i \in Pages
      PROVE  Cardinality({p \in DOMAIN arena.map[c] : i \in Extent(p, arena.map[c][p].len)}) = 1
  <2>1. PICK p \in DOMAIN m : i \in Extent(p, m[p].len)
    BY <1>0, TilingCovers
  <2>2. \A q \in DOMAIN m : i \in Extent(q, m[q].len) => q = p
    BY <1>0, <2>1, TilingFacts
  <2>3. {q \in DOMAIN m : i \in Extent(q, m[q].len)} = {p}
    BY <2>1, <2>2
  <2> QED BY <2>3, FS_Singleton
<1>2. CASE c # arena.spare
  <2> DEFINE V == AvailIn(arena, c)
  <2>1. V = FreeRuns(c)
    <3>1. DOMAIN m \subseteq Pages
      BY <1>0 DEF IsTiling
    <3>2. \A p \in Pages : p \in V <=> <<c, p>> \in Outs(arena)
      BY <1>0 DEF Stock, AvailIn
    <3>3. \A p \in Pages : p \in V <=> p \in DOMAIN m /\ m[p].kind = "free"
      <4> TAKE p \in Pages
      <4>1. p \in V <=> <<c, p>> \in Outs(arena)
        BY <3>2
      <4>2. <<c, p>> \in Outs(arena) <=> p \in DOMAIN m /\ m[p].kind = "free" /\ c # arena.spare
        BY <1>0, SpotFacts
      <4> QED BY <1>2, <4>1, <4>2
    <3> QED BY <3>1, <3>3 DEF FreeRuns, AvailIn
  <2>2. \A p \in FreeRuns(c) : FreeBefore(arena, c, p) = {q \in V : q + m[q].len = p}
    BY <2>1 DEF FreeBefore, FreeAt, FreeRuns
  <2>3. \A p \in FreeRuns(c) : \A q \in FreeBefore(arena, c, p) : m[q].dirty # m[p].dirty
    BY <1>0, <2>1, <2>2 DEF Merged
  <2>4. Adjacent(m, V) = {p \in FreeRuns(c) : FreeBefore(arena, c, p) # {}}
    BY <2>1, <2>2 DEF Adjacent
  <2>5. DirtyOf(c) = SumFunctionOnSet(DirtyIn(m), V)
    <3> DEFINE f == [p \in FreeRuns(c) |-> DirtyPages(arena.map[c][p])]
    <3>1. DirtyOf(c) = SumFunctionOnSet(f, DOMAIN f) /\ DOMAIN f = V
      BY <2>1 DEF DirtyOf, SumFunction
    <3>2. IsFiniteSet(V) /\ V \subseteq DOMAIN m /\ V \subseteq Pages
      BY <1>0, AvailInFacts DEF Stock
    <3>3. \A p \in V : DirtyIn(m)[p] \in Nat /\ f[p] = DirtyIn(m)[p]
      BY <1>0, <2>1, <3>2, DirtyTypes DEF DirtyIn
    <3> HIDE DEF f
    <3>4. SumFunctionOnSet(DirtyIn(m), V) = SumFunctionOnSet(f, V)
      <4>1. IntOn(DirtyIn(m), V)
        BY <3>3 DEF IntOn
      <4> HIDE DEF V, m
      <4> QED BY <3>2, <3>3, <4>1, SumSame
    <3> QED BY <3>1, <3>4
  <2>6. arena.info[c] \in Info
    BY <1>0, TypedFacts
  <2>7. arena.info[c] = [ndirty |-> DirtyOf(c), navail |-> Cardinality(FreeRuns(c)),
                         nadjac |-> Cardinality({p \in FreeRuns(c) : FreeBefore(arena, c, p) # {}})]
    <3>1. /\ arena.info[c].ndirty = DirtyOf(c) /\ arena.info[c].navail = Cardinality(FreeRuns(c))
          /\ arena.info[c].nadjac = Cardinality({p \in FreeRuns(c) : FreeBefore(arena, c, p) # {}})
      BY <1>0, <2>1, <2>4, <2>5 DEF Counted
    <3> QED BY <2>6, <3>1 DEF Info
  <2> QED BY <1>1, <2>3, <2>7
<1>3. CASE c = arena.spare
  <2>1. Unused(arena, c)
    BY <1>0, <1>3, ArenaAssumption DEF Typed
  <2>2. DOMAIN m = {0} /\ m[0].len = NPages /\ NPages \in Nat \ {0}
    BY <1>0, <2>1, UnusedFacts, ArenaAssumption
  <2>3. \A p \in FreeRuns(c) : FreeBefore(arena, c, p) = {}
    <3>1. 0 + NPages # 0
      BY <2>2
    <3> QED BY <2>2, <3>1 DEF FreeRuns, FreeBefore
  <2> QED BY <1>1, <1>3, <2>3
<1> QED BY <1>2, <1>3

\* The ledger says what PageMapExact does.
LEMMA PageMapFollows ==
    ASSUME Ledger(arena, {})
    PROVE  PageMapExact
<1>0. Typed(arena) /\ Stock(arena, {}) /\ Counts(arena)
  BY DEF Ledger
<1>1. arena.spare # None => Unused(arena, arena.spare) /\ arena.info[arena.spare] = NoInfo
  <2> HAVE arena.spare # None
  <2> DEFINE c == arena.spare
  <2>1. c \in Chunks /\ Unused(arena, c)
    BY <1>0, TypedFacts DEF Typed
  <2>2. AvailIn(arena, c) = {}
    BY <1>0 DEF Stock, Outs, AvailIn
  <2>3. Counted(arena, c) /\ arena.info[c] \in Info
    BY <1>0, <2>1, TypedFacts DEF Counts
  <2>4. Cardinality({}) = 0 /\ Adjacent(arena.map[c], {}) = {}
    BY FS_EmptySet DEF Adjacent
  <2>5. arena.info[c].ndirty = 0 /\ arena.info[c].navail = 0 /\ arena.info[c].nadjac = 0
    BY <2>2, <2>3, <2>4, SumEmpty DEF Counted
  <2> QED BY <2>1, <2>3, <2>5 DEF Info, NoInfo
<1>2. arena.avail = UNION {{c} \X FreeRuns(c) : c \in Mapped(arena) \ {arena.spare}}
  <2> DEFINE Z == UNION {{c} \X FreeRuns(c) : c \in Mapped(arena) \ {arena.spare}}
  <2>0. \A c \in Chunks : DOMAIN arena.map[c] \subseteq Pages
    BY <1>0, TypedFacts
  <2>1. Z \in SUBSET Spots /\ Outs(arena) \in SUBSET Spots
    BY <2>0 DEF Mapped, FreeRuns, Spots, Outs
  <2>2. \A c \in Chunks, p \in Pages : <<c, p>> \in Z <=> <<c, p>> \in Outs(arena)
    <3> TAKE c \in Chunks, p \in Pages
    <3>1. <<c, p>> \in Z <=> c \in Mapped(arena) /\ c # arena.spare /\ p \in FreeRuns(c)
      OBVIOUS
    <3>2. DOMAIN << >> = {}
      OBVIOUS
    <3>3. <<c, p>> \in Outs(arena) <=> p \in DOMAIN arena.map[c] /\ arena.map[c][p].kind = "free" /\ c # arena.spare
      BY SpotFacts
    <3> QED BY <3>1, <3>2, <3>3 DEF Mapped, FreeRuns
  <2> HIDE DEF Z
  <2>3. Z = Outs(arena)
    BY <2>1, <2>2, SpotSets
  <2> QED BY <1>0, <2>3 DEF Z, Stock
<1>3. /\ IsFiniteSet(arena.avail) /\ arena.avail \subseteq Spots
      /\ \A r \in arena.avail : r[2] \in DOMAIN arena.map[r[1]] /\ r[1] \in Chunks /\ r[2] \in Pages
  <2>1. arena.avail \subseteq Spots
    BY <1>0, TypedFacts
  <2>2. \A r \in arena.avail : r[2] \in DOMAIN arena.map[r[1]]
    BY <1>0 DEF Stock, Outs, FreeAt
  <2> QED BY <2>1, <2>2, FiniteSpots, FS_Subset DEF Spots
<1>4. arena.ndirty = SumFunction([r \in arena.avail |-> DirtyPages(arena.map[r[1]][r[2]])])
  <2> DEFINE f == [r \in arena.avail |-> DirtyPages(arena.map[r[1]][r[2]])]
             S == arena.avail
  <2>1. SumFunction(f) = SumFunctionOnSet(f, S)
    BY DEF SumFunction
  <2>2. \A r \in S : Dirts(arena)[r] = f[r] /\ Dirts(arena)[r] \in Nat
    <3> TAKE r \in S
    <3>1. r \in Spots /\ Dirts(arena)[r] \in Nat /\ Dirts(arena)[r] = DirtyIn(arena.map[r[1]])[r[2]]
      BY <1>0, <1>3, DirtyTypes
    <3> QED BY <1>3, <3>1 DEF DirtyIn
  <2>3. arena.ndirty = SumFunctionOnSet(Dirts(arena), S)
    BY <1>0 DEF Counts
  <2> HIDE DEF f, S
  <2>4. SumFunctionOnSet(Dirts(arena), S) = SumFunctionOnSet(f, S)
    <3>1. IntOn(Dirts(arena), S) /\ IsFiniteSet(S)
      BY <1>3, <2>2 DEF IntOn, S
    <3> QED BY <2>2, <3>1, SumSame
  <2> QED BY <2>1, <2>3, <2>4 DEF f
<1>5. arena.nactive + SumFunction([r \in arena.avail |-> arena.map[r[1]][r[2]].len])
        = NPages * Cardinality(Mapped(arena) \ {arena.spare})
  <2> DEFINE f == [r \in arena.avail |-> arena.map[r[1]][r[2]].len]
             S == arena.avail
  <2>1. SumFunction(f) = SumFunctionOnSet(f, S)
    BY DEF SumFunction
  <2>2. \A r \in S : Lens(arena)[r] = f[r] /\ Lens(arena)[r] \in Nat
    <3> TAKE r \in S
    <3>1. r \in Spots /\ Lens(arena)[r] \in Nat
      BY <1>0, <1>3, DirtyTypes
    <3> QED BY <1>3, <3>1 DEF Lens
  <2>3. arena.nactive + SumFunctionOnSet(Lens(arena), S) = NPages * Cardinality(Mapped(arena) \ {arena.spare})
    BY PagesBalance
  <2> HIDE DEF f, S
  <2>4. SumFunctionOnSet(Lens(arena), S) = SumFunctionOnSet(f, S)
    <3>1. IntOn(Lens(arena), S) /\ IsFiniteSet(S)
      BY <1>3, <2>2 DEF IntOn, S
    <3> QED BY <2>2, <3>1, SumSame
  <2> QED BY <2>1, <2>3, <2>4 DEF f
<1>6. \A c \in Mapped(arena) :
        /\ \A i \in Pages : Cardinality({p \in DOMAIN arena.map[c] : i \in Extent(p, arena.map[c][p].len)}) = 1
        /\ \A p \in FreeRuns(c) : \A q \in FreeBefore(arena, c, p) :
                arena.map[c][q].dirty # arena.map[c][p].dirty
        /\ c # arena.spare =>
            arena.info[c] = [ndirty |-> DirtyOf(c), navail |-> Cardinality(FreeRuns(c)),
                             nadjac |-> Cardinality({p \in FreeRuns(c) : FreeBefore(arena, c, p) # {}})]
  BY ChunkExact
<1> QED BY <1>1, <1>2, <1>4, <1>5, <1>6 DEF PageMapExact

\* And what CleanPagesKnown does.
LEMMA CleanFollows ==
    ASSUME Ledger(arena, {})
    PROVE  CleanPagesKnown
  BY DEF Ledger, Clean, CleanPagesKnown, FreeRuns, Marked, Mapped
-----------------------------------------------------------------------------
(* The turns of a section.                                                 *)

ObjectType == [c : Chunks, p : Pages, reg : Regs \union {None}]
WorkType ==
    [pc : {"work", "unmap", "madvise", "return"}, todo : Seq(JobType), check : BOOLEAN,
     claim : 0 .. Word - 1, back : Int, chunk : Chunks \union {None}, ret : SUBSET ObjectType]
StepType == [a : ArenaType, k : WorkType]

\* The pages of a run that is to be freed clean bear the mark.
JobMarked(A, j) == FreesDirty(A, j.c, j.p, j.dirty, j.cleaned) \/ Marked(A, j.c, j.p)

\* What a thread's work keeps to: it claims nothing while arena_maybe_purge is due.
Orderly(A, k) ==
    /\ k.check => k.claim = 0 /\ k.back = 0
    /\ \A i \in DOMAIN k.todo :
          /\ k.todo[i].cleaned => ~k.todo[i].dirty
          /\ JobMarked(A, k.todo[i]) \/ (k.pc = "madvise" /\ k.todo[i].cleaned)
    /\ k.pc = "return" => k.todo = << >> /\ k.claim = 0

\* A section that began with A has come to s, others having the runs F; ret is what the thread
\* will return and d the claims of the others.
InSection(A, s, F, ret, d) ==
    /\ Ledger(s.a, {}) /\ s.a.npurg \in 0 .. Word - 1 /\ Jobs(s.a, s.k.todo, F) /\ Orderly(s.a, s.k)
    /\ s.k.ret = ret /\ (s.a.npurg - s.k.claim) % Word = d
    /\ Still(A, s.a, F) /\ s.a.unz = A.unz /\ s.a.touched = A.touched

Left4(k) ==
    4 * Len(k.todo) + (IF k.back # 0 THEN 2 ELSE 0) + (IF k.check THEN 2 ELSE 0)
        + (IF k.claim # 0 THEN 1 ELSE 0)

\* A run that nobody touched keeps its marks.
LEMMA MarkKept ==
    ASSUME NEW A, NEW B, NEW S, Still(A, B, S), B.unz = A.unz, B.touched = A.touched
    PROVE  /\ \A c, p : <<c, p>> \in S => (Marked(B, c, p) <=> Marked(A, c, p))
           /\ \A j : <<j.c, j.p>> \in S => (JobMarked(B, j) <=> JobMarked(A, j))
<1>1. \A c, p : <<c, p>> \in S => B.map[c][p] = A.map[c][p]
  BY DEF Still
<1> QED BY <1>1 DEF Marked, JobMarked, FreesDirty

\* arena->npurgatory changes.
Claims(A, B, n) ==
    /\ Ledger(B, {}) /\ B.map = A.map /\ Taken(B) = Taken(A) /\ B.npurg = n
    /\ B.unz = A.unz /\ B.touched = A.touched /\ B.spare = A.spare

\* Claims do not touch the page map.
LEMMA ClaimsFacts ==
    ASSUME NEW A, Ledger(A, {}), NEW n \in Int, NEW B, B = [A EXCEPT !.npurg = n]
    PROVE  Claims(A, B, n)
<1>0. Typed(A) /\ Stock(A, {}) /\ Clean(A)
  BY DEF Ledger
<1>1. /\ B.map = A.map /\ B.spare = A.spare /\ B.avail = A.avail /\ B.info = A.info /\ B.ndirty = A.ndirty
      /\ B.nactive = A.nactive /\ B.unz = A.unz /\ B.touched = A.touched /\ B.npurg = n
  BY <1>0 DEF Typed
<1>2. Typed(B)
  <2> DEFINE T == UNION {[D -> RunType] : D \in SUBSET Pages}
  <2>1. A \in [map : [Chunks -> T],
              avail : SUBSET Spots, spare : Chunks \union {None},
              ndirty : Int, nactive : Int, npurg : Int, info : [Chunks -> Info],
              unz : [Chunks -> SUBSET Pages], touched : [Chunks -> SUBSET Pages]]
    BY <1>0 DEF Typed
  <2> HIDE DEF T
  <2>2. B \in [map : [Chunks -> T],
              avail : SUBSET Spots, spare : Chunks \union {None},
              ndirty : Int, nactive : Int, npurg : Int, info : [Chunks -> Info],
              unz : [Chunks -> SUBSET Pages], touched : [Chunks -> SUBSET Pages]]
    BY <2>1
  <2>3. B.spare # None => Unused(B, B.spare)
    BY <1>0, <1>1 DEF Typed, Unused
  <2> QED BY <1>0, <1>1, <2>2, <2>3 DEF Typed, T
<1>3. Taken(B) = Taken(A) /\ Outs(B) = Outs(A)
  BY <1>1 DEF Taken, Outs, FreeAt
<1>4. Stock(B, {}) /\ Clean(B)
  BY <1>0, <1>1, <1>3 DEF Stock, Clean, Marked
<1>5. \A r \in A.avail \union Taken(A) : r[2] \in DOMAIN B.map[r[1]] /\ B.map[r[1]][r[2]] = A.map[r[1]][r[2]]
  BY <1>0, <1>1 DEF Stock, Outs, FreeAt, Taken
<1> DEFINE E == {}
<1>6. Ledger(A, E) /\ Stock(B, E)
  BY <1>4
<1> HIDE DEF E
<1>7. Ledger(B, E)
  BY <1>1, <1>2, <1>3, <1>4, <1>5, <1>6, ChunkMoved
<1> QED BY <1>1, <1>3, <1>7 DEF Claims, E

\* The thread's claim and what it could not purge change, nothing else.
LEMMA ClaimsInSection ==
    ASSUME NEW A, NEW s \in StepType, NEW F, NEW ret, NEW d, InSection(A, s, F, ret, d), s.k.pc = "work",
           NEW n \in 0 .. Word - 1, NEW B, B = [s.a EXCEPT !.npurg = n],
           NEW k \in WorkType, k.todo = s.k.todo, k.pc = "work", k.ret = s.k.ret,
           k.check => k.claim = 0 /\ k.back = 0,
           (n - k.claim) % Word = (s.a.npurg - s.k.claim) % Word
    PROVE  [a |-> B, k |-> k] \in StepType /\ InSection(A, [a |-> B, k |-> k], F, ret, d)
<1>0. Ledger(s.a, {}) /\ Orderly(s.a, s.k) /\ Jobs(s.a, s.k.todo, F) /\ n \in Int
  BY ArenaAssumption DEF InSection
<1>1. Claims(s.a, B, n)
  BY <1>0, ClaimsFacts
<1>2. /\ Ledger(B, {}) /\ B.map = s.a.map /\ Taken(B) = Taken(s.a) /\ B.npurg = n
      /\ B.unz = s.a.unz /\ B.touched = s.a.touched
  BY <1>1 DEF Claims
<1>3. Still(A, B, F)
  BY <1>2 DEF Still, InSection
<1>4. Jobs(B, k.todo, F)
  BY <1>0, <1>2 DEF Jobs
<1>5. Orderly(B, k)
  BY <1>0, <1>2 DEF Orderly, JobMarked, FreesDirty, Marked
<1>6. B \in ArenaType
  BY <1>2 DEF Ledger, Typed, ArenaType
<1> QED BY <1>2, <1>3, <1>4, <1>5, <1>6 DEF InSection, StepType

\* A turn that takes s to r.
Goes(A, s, r, F, ret, d) ==
    r \in StepType /\ InSection(A, r, F, ret, d) /\ (r.k.pc = "work" => Left4(r.k) < Left4(s.k))

\* The turns of a section: a run is freed,
LEMMA FreeNextGoes ==
    ASSUME NEW A, NEW s \in StepType, NEW F, NEW ret, NEW d, InSection(A, s, F, ret, d), s.k.pc = "work",
           s.k.todo # << >>, Head(s.k.todo).cleaned \/ ~Purging(s.k)
    PROVE  Goes(A, s, FreeNext(s.a, s.k, Head(s.k.todo)), F, ret, d)
<1> DEFINE j == Head(s.k.todo)
           f == RunDalloc(s.a, j.c, j.p, j.dirty, j.cleaned)
           was == s.a.map[j.c][j.p].dirty
           check == s.k.check \/ j.dirty \/ (~j.cleaned /\ was)
           pc == IF f.unmap = None THEN "work" ELSE "unmap"
           k == [s.k EXCEPT !.pc = pc, !.chunk = f.unmap, !.todo = Tail(@), !.check = check]
           r == [a |-> f.a, k |-> k]
<1>0. /\ Ledger(s.a, {}) /\ Jobs(s.a, s.k.todo, F) /\ Orderly(s.a, s.k) /\ s.k \in WorkType
      /\ s.k.todo \in Seq(JobType) /\ Len(s.k.todo) \in Nat \ {0} /\ DOMAIN s.k.todo = 1 .. Len(s.k.todo)
      /\ 1 \in DOMAIN s.k.todo /\ j = s.k.todo[1] /\ Typed(s.a)
  <2>1. s.k.todo \in Seq(JobType) /\ s.k \in WorkType
    BY DEF InSection, Jobs, StepType
  <2> QED BY <2>1 DEF InSection, Ledger
<1>1. FreeNext(s.a, s.k, j) = r
  BY DEF FreeNext, Freed
<1> HIDE DEF j
<1>2. j \in JobType /\ <<j.c, j.p>> \in Taken(s.a) /\ (j.cleaned => ~j.dirty)
      /\ (FreesDirty(s.a, j.c, j.p, j.dirty, j.cleaned) \/ Marked(s.a, j.c, j.p))
  <2>1. j \in JobType
    BY <1>0
  <2>2. <<j.c, j.p>> \in Held(s.k.todo)
    BY <1>0 DEF Held
  <2>3. (j.cleaned => ~j.dirty) /\ JobMarked(s.a, j)
    BY <1>0 DEF Orderly
  <2> QED BY <1>0, <2>1, <2>2, <2>3 DEF Jobs, JobMarked
<1>3. Deallocs(s.a, f, j.c, j.p)
  <2>1. j.c \in Chunks /\ j.dirty \in BOOLEAN /\ j.cleaned \in BOOLEAN
    BY <1>2 DEF JobType
  <2> QED BY <1>0, <1>2, <2>1, RunDallocFacts
<1> HIDE DEF f
<1>4. /\ Ledger(f.a, {}) /\ Taken(f.a) = Taken(s.a) \ {<<j.c, j.p>>} /\ Still(s.a, f.a, Taken(f.a))
      /\ f.a.npurg = s.a.npurg /\ f.a.unz = s.a.unz /\ f.a.touched = s.a.touched
      /\ f.unmap \in Chunks \union {None}
  BY <1>3 DEF Deallocs, Same
<1> DEFINE B == f.a
           less == Tail(s.k.todo)
<1>5. /\ Jobs(B, less, F) /\ Len(less) = Len(s.k.todo) - 1 /\ F \subseteq Taken(B)
      /\ \A i \in DOMAIN less : less[i] = s.k.todo[i + 1] /\ i + 1 \in DOMAIN s.k.todo
  <2>1. Jobs(s.a, s.k.todo, F) /\ s.k.todo # << >> /\ Taken(B) = Taken(s.a) \ {<<Head(s.k.todo).c, Head(s.k.todo).p>>}
    BY <1>0, <1>4 DEF j
  <2> HIDE DEF B
  <2>2. FirstDone(s.a, B, s.k.todo, F)
    BY <2>1, JobsFewer
  <2> QED BY <2>2 DEF FirstDone
<1> HIDE DEF B, less
<1>6. was \in BOOLEAN /\ check \in BOOLEAN
  <2>1. was \in BOOLEAN
    <3>1. j.c \in Chunks /\ j.p \in DOMAIN s.a.map[j.c] /\ IsTiling(s.a.map[j.c])
      BY <1>0, <1>2, TypedFacts DEF Taken, JobType
    <3>2. s.a.map[j.c][j.p] \in RunType
      BY <3>1, TilingTypes
    <3> QED BY <3>2 DEF RunType
  <2> HIDE DEF was
  <2> QED BY <1>0, <1>2, <2>1 DEF WorkType, JobType
<1>7. check => s.k.claim = 0 /\ s.k.back = 0
  <2>1. s.k.check => s.k.claim = 0 /\ s.k.back = 0
    BY <1>0 DEF Orderly
  <2>2. ~j.cleaned => s.k.claim = 0 /\ s.k.back = 0
    BY DEF Purging, j
  <2> QED BY <1>2, <2>1, <2>2
<1> HIDE DEF check
<1>8. k \in WorkType /\ k.todo = less /\ k.check = check /\ k.claim = s.k.claim /\ k.back = s.k.back
      /\ k.ret = s.k.ret /\ k.pc \in {"work", "unmap"}
  <2>1. less \in Seq(JobType) /\ pc \in {"work", "unmap"} /\ pc \in {"work", "unmap", "madvise", "return"}
    BY <1>5 DEF Jobs
  <2> HIDE DEF pc
  <2> QED BY <1>0, <1>4, <1>6, <2>1 DEF WorkType, less
<1> HIDE DEF k
<1>9. Orderly(B, k)
  <2> SUFFICES ASSUME NEW i \in DOMAIN less
               PROVE  (less[i].cleaned => ~less[i].dirty) /\ JobMarked(B, less[i])
    BY <1>7, <1>8 DEF Orderly
  <2>1. less[i] = s.k.todo[i + 1] /\ i + 1 \in DOMAIN s.k.todo
    BY <1>5
  <2>2. (less[i].cleaned => ~less[i].dirty) /\ JobMarked(s.a, less[i])
    BY <1>0, <2>1 DEF Orderly
  <2>3. <<less[i].c, less[i].p>> \in Taken(B)
    BY <1>5 DEF Jobs, Held
  <2>4. JobMarked(B, less[i]) <=> JobMarked(s.a, less[i])
    BY <1>4, <2>3, MarkKept DEF B
  <2> QED BY <2>2, <2>4
<1>10. Still(A, B, F) /\ B.unz = A.unz /\ B.touched = A.touched
  BY <1>4, <1>5 DEF InSection, Still, B
<1>11. InSection(A, r, F, ret, d)
  <2>1. B.npurg = s.a.npurg /\ Ledger(B, {})
    BY <1>4 DEF B
  <2>2. r.a = B /\ r.k = k
    BY DEF B
  <2> HIDE DEF r
  <2> QED BY <1>5, <1>8, <1>9, <1>10, <2>1, <2>2 DEF InSection
<1>12. r \in StepType
  <2>1. B \in ArenaType
    BY <1>4 DEF Ledger, Typed, ArenaType, B
  <2> QED BY <1>8, <2>1 DEF StepType, B
<1>13. Left4(k) < Left4(s.k)
  <2>1. s.k.check => check
    BY DEF check
  <2>2. check /\ ~s.k.check => s.k.back = 0
    BY <1>7
  <2>3. Len(less) \in Nat /\ Len(s.k.todo) \in Nat /\ Len(less) = Len(s.k.todo) - 1
    BY <1>0, <1>5
  <2> DEFINE x == IF s.k.back # 0 THEN 2 ELSE 0
             y == IF s.k.claim # 0 THEN 1 ELSE 0
             z == IF s.k.check THEN 2 ELSE 0
             u == IF check THEN 2 ELSE 0
  <2>4. Left4(k) = 4 * Len(less) + x + u + y /\ Left4(s.k) = 4 * Len(s.k.todo) + x + z + y
    BY <1>8 DEF Left4
  <2>5. x \in Nat /\ y \in Nat /\ z \in Nat /\ u \in Nat /\ u <= 2 /\ z <= 2
    OBVIOUS
  <2> HIDE DEF x, y, z, u
  <2> QED BY <2>3, <2>4, <2>5
<1> QED BY <1>1, <1>11, <1>12, <1>13 DEF Goes, j

\* What arena_compute_npurgatory claims is a number of pages.
LEMMA ToPurgeFacts ==
    ASSUME NEW A, NEW X, Ledger(A, X), A.npurg \in 0 .. Word - 1
    PROVE  ToPurge(A) \in 0 .. Word - 1 /\ A.npurg + ToPurge(A) \in 0 .. Word - 1
<1> DEFINE x == A.ndirty - A.npurg - A.nactive \div DirtyMult
<1>1. /\ A.ndirty \in Nat /\ A.ndirty < Word /\ A.nactive \in Nat /\ A.npurg \in Nat /\ A.npurg < Word
      /\ Word \in Nat /\ DirtyMult \in Nat \ {0}
  BY CountersBounded, ArenaAssumption
<1>2. A.nactive \div DirtyMult \in Nat
  <2>1. \A a \in Nat, b \in Nat \ {0} : a \div b \in Nat
    OBVIOUS
  <2> QED BY <1>1, <2>1
<1>3. x \in Int /\ x <= A.ndirty - A.npurg
  <2> DEFINE q == A.nactive \div DirtyMult
  <2>1. q \in Nat
    BY <1>2
  <2> HIDE DEF q
  <2>2. A.ndirty - A.npurg - q \in Int /\ A.ndirty - A.npurg - q <= A.ndirty - A.npurg
    BY <1>1, <2>1
  <2> QED BY <2>2 DEF q
<1>4. ToPurge(A) = IF x > 0 THEN x ELSE 0
  <2>1. ToPurge(A) = CHOOSE m \in {0, x} : \A n \in {0, x} : m >= n
    BY DEF ToPurge, Max
  <2> HIDE DEF x
  <2>2. \E m \in {0, x} : \A n \in {0, x} : m >= n
    BY <1>3
  <2>3. ToPurge(A) \in {0, x} /\ \A n \in {0, x} : ToPurge(A) >= n
    BY <2>1, <2>2
  <2> QED BY <1>3, <2>3
<1> HIDE DEF x
<1> QED BY <1>1, <1>3, <1>4

\* what could not be purged is claimed again,
LEMMA BackGoes ==
    ASSUME NEW A, NEW s \in StepType, NEW F, NEW ret, NEW d, InSection(A, s, F, ret, d), s.k.pc = "work",
           s.k.back # 0
    PROVE  Goes(A, s, [a |-> [s.a EXCEPT !.npurg = (@ + s.k.back) % Word],
                       k |-> [s.k EXCEPT !.claim = (@ + s.k.back) % Word, !.back = 0]], F, ret, d)
<1> DEFINE n == (s.a.npurg + s.k.back) % Word
           m == (s.k.claim + s.k.back) % Word
           B == [s.a EXCEPT !.npurg = n]
           k == [s.k EXCEPT !.claim = m, !.back = 0]
           r == [a |-> B, k |-> k]
<1>0. /\ s.k \in WorkType /\ s.k.back \in Int /\ s.k.claim \in 0 .. Word - 1 /\ s.a.npurg \in 0 .. Word - 1
      /\ Word \in Nat \ {0} /\ s.a.npurg \in Int /\ s.k.claim \in Int /\ s.k.todo \in Seq(JobType)
      /\ ~s.k.check
  BY ArenaAssumption DEF StepType, WorkType, InSection, Orderly
<1>1. /\ n \in 0 .. Word - 1 /\ m \in 0 .. Word - 1
      /\ (n - m) % Word = (s.a.npurg - s.k.claim) % Word
  BY <1>0, ModShift, ZenonT(40)
<1> HIDE DEF n, m
<1>2. /\ k \in WorkType /\ k.todo = s.k.todo /\ k.pc = "work" /\ k.ret = s.k.ret /\ k.check = s.k.check
      /\ k.claim = m /\ k.back = 0
  <2>1. 0 \in Int
    OBVIOUS
  <2> QED BY <1>0, <1>1, <2>1 DEF WorkType
<1>3. (n - k.claim) % Word = (s.a.npurg - s.k.claim) % Word
  BY <1>1, <1>2
<1>4. B = [s.a EXCEPT !.npurg = n] /\ (k.check => k.claim = 0 /\ k.back = 0)
  BY <1>0, <1>2
<1> HIDE DEF k, B
<1>5. [a |-> B, k |-> k] \in StepType /\ InSection(A, [a |-> B, k |-> k], F, ret, d)
  BY <1>1, <1>2, <1>3, <1>4, ClaimsInSection
<1>6. Left4(k) < Left4(s.k)
  <2> DEFINE l == Len(s.k.todo)
             y == IF m # 0 THEN 1 ELSE 0
             z == IF s.k.claim # 0 THEN 1 ELSE 0
  <2>1. l \in Nat /\ y \in Nat /\ y <= 1 /\ z \in Nat
    BY <1>0
  <2>2. Left4(k) = 4 * l + 0 + 0 + y /\ Left4(s.k) = 4 * l + 2 + 0 + z
    BY <1>0, <1>2 DEF Left4
  <2> HIDE DEF l, y, z
  <2> QED BY <2>1, <2>2
<1>7. r.k = k
  OBVIOUS
<1>8. Goes(A, s, r, F, ret, d)
  BY <1>5, <1>6, <1>7 DEF Goes
<1> QED BY <1>8 DEF B, k, n, m

\* arena_maybe_purge claims pages,
LEMMA CheckGoes ==
    ASSUME NEW A, NEW s \in StepType, NEW F, NEW ret, NEW d, InSection(A, s, F, ret, d), s.k.pc = "work",
           s.k.check
    PROVE  Goes(A, s, [a |-> [s.a EXCEPT !.npurg = @ + ToPurge(s.a)],
                       k |-> [s.k EXCEPT !.check = FALSE, !.claim = ToPurge(s.a)]], F, ret, d)
<1> DEFINE m == ToPurge(s.a)
           n == s.a.npurg + m
           B == [s.a EXCEPT !.npurg = n]
           k == [s.k EXCEPT !.check = FALSE, !.claim = m]
           r == [a |-> B, k |-> k]
<1>0. /\ s.k \in WorkType /\ s.k.claim = 0 /\ s.k.back = 0 /\ s.a.npurg \in 0 .. Word - 1
      /\ s.k.todo \in Seq(JobType) /\ Ledger(s.a, {})
  BY DEF StepType, WorkType, InSection, Orderly
<1>1. m \in 0 .. Word - 1 /\ n \in 0 .. Word - 1
  BY <1>0, ToPurgeFacts
<1> HIDE DEF m
<1>2. n - m = s.a.npurg - s.k.claim
  BY <1>0, <1>1, ArenaAssumption, SMTT(30)
<1> HIDE DEF n
<1>3. /\ k \in WorkType /\ k.todo = s.k.todo /\ k.pc = "work" /\ k.ret = s.k.ret /\ ~k.check
      /\ k.claim = m /\ k.back = 0
  BY <1>0, <1>1 DEF WorkType
<1>4. (n - k.claim) % Word = (s.a.npurg - s.k.claim) % Word
  BY <1>2, <1>3
<1>5. B = [s.a EXCEPT !.npurg = n]
  OBVIOUS
<1> HIDE DEF k, B
<1>6. [a |-> B, k |-> k] \in StepType /\ InSection(A, [a |-> B, k |-> k], F, ret, d)
  BY <1>1, <1>3, <1>4, <1>5, ClaimsInSection
<1>7. Left4(k) < Left4(s.k)
  <2> DEFINE l == Len(s.k.todo)
             y == IF m # 0 THEN 1 ELSE 0
  <2>1. l \in Nat /\ y \in Nat /\ y <= 1
    BY <1>0
  <2>2. Left4(k) = 4 * l + 0 + 0 + y /\ Left4(s.k) = 4 * l + 0 + 2 + 0
    BY <1>0, <1>3 DEF Left4
  <2> HIDE DEF l, y
  <2> QED BY <2>1, <2>2
<1>8. r.k = k
  OBVIOUS
<1>9. Goes(A, s, r, F, ret, d)
  BY <1>6, <1>7, <1>8 DEF Goes
<1> QED BY <1>9 DEF B, k, n, m

\* a thread that finds no dirty chunk gives its claim back,
LEMMA EndGoes ==
    ASSUME NEW A, NEW s \in StepType, NEW F, NEW ret, NEW d, InSection(A, s, F, ret, d), s.k.pc = "work",
           s.k.todo = << >>, s.k.claim = 0
    PROVE  Goes(A, s, [a |-> s.a, k |-> [s.k EXCEPT !.pc = "return"]], F, ret, d)
<1> DEFINE k == [s.k EXCEPT !.pc = "return"]
           r == [a |-> s.a, k |-> k]
<1>1. s.k \in WorkType /\ s.a \in ArenaType
  BY DEF StepType
<1>2. /\ k \in WorkType /\ k.todo = s.k.todo /\ k.pc = "return" /\ k.ret = s.k.ret
      /\ k.check = s.k.check /\ k.claim = s.k.claim /\ k.back = s.k.back
  BY <1>1 DEF WorkType
<1> HIDE DEF k
<1>3. Orderly(s.a, k)
  BY <1>2 DEF InSection, Orderly
<1>4. r.a = s.a /\ r.k = k /\ r \in StepType
  BY <1>1, <1>2 DEF StepType
<1>5. InSection(A, r, F, ret, d)
  BY <1>2, <1>3, <1>4 DEF InSection
<1>6. r.k.pc # "work"
  BY <1>2, <1>4
<1>7. Goes(A, s, r, F, ret, d)
  BY <1>4, <1>5, <1>6 DEF Goes
<1> QED BY <1>7 DEF k

\* it is done,
LEMMA ReturnGoes ==
    ASSUME NEW A, NEW s \in StepType, NEW F, NEW ret, NEW d, InSection(A, s, F, ret, d), s.k.pc = "work",
           s.k.claim # 0
    PROVE  Goes(A, s, [a |-> ClaimReturned(s.a, s.k.claim), k |-> [s.k EXCEPT !.claim = 0]], F, ret, d)
<1> DEFINE x == s.a.npurg - s.k.claim
           n == x % Word
           B == [s.a EXCEPT !.npurg = n]
           k == [s.k EXCEPT !.claim = 0]
           r == [a |-> B, k |-> k]
<1>0. /\ s.k \in WorkType /\ s.k.claim \in 0 .. Word - 1 /\ s.a.npurg \in 0 .. Word - 1 /\ s.k.back \in Int
      /\ Word \in Nat \ {0} /\ s.k.todo \in Seq(JobType) /\ ~s.k.check
  BY ArenaAssumption DEF StepType, WorkType, InSection, Orderly
<1>1. x \in Int
  BY <1>0
<1>2. n \in 0 .. Word - 1 /\ n % Word = n
  BY <1>0, <1>1, ModTwice
<1>3. n = (s.a.npurg - s.k.claim) % Word
  OBVIOUS
<1> HIDE DEF n, x
<1>4. /\ k \in WorkType /\ k.todo = s.k.todo /\ k.pc = "work" /\ k.ret = s.k.ret /\ ~k.check
      /\ k.claim = 0 /\ k.back = s.k.back
  <2>1. 0 \in 0 .. Word - 1
    BY <1>0
  <2> QED BY <1>0, <2>1 DEF WorkType
<1>5. (n - k.claim) % Word = (s.a.npurg - s.k.claim) % Word
  <2>1. n - k.claim = n
    BY <1>0, <1>2, <1>4
  <2> QED BY <1>2, <1>3, <2>1
<1>6. B = [s.a EXCEPT !.npurg = n]
  OBVIOUS
<1> HIDE DEF k, B
<1>7. [a |-> B, k |-> k] \in StepType /\ InSection(A, [a |-> B, k |-> k], F, ret, d)
  BY <1>2, <1>4, <1>5, <1>6, ClaimsInSection
<1>8. Left4(k) < Left4(s.k)
  <2> DEFINE l == Len(s.k.todo)
             y == IF s.k.back # 0 THEN 2 ELSE 0
  <2>1. l \in Nat /\ y \in Nat
    BY <1>0
  <2>2. Left4(k) = 4 * l + y + 0 + 0 /\ Left4(s.k) = 4 * l + y + 0 + 1
    BY <1>0, <1>4 DEF Left4
  <2> HIDE DEF l, y
  <2> QED BY <2>1, <2>2
<1>9. r.k = k
  OBVIOUS
<1>10. Goes(A, s, r, F, ret, d)
  BY <1>7, <1>8, <1>9 DEF Goes
<1> QED BY <1>10 DEF B, k, n, x, ClaimReturned

\* or it stashes a chunk and drops the lock.
LEMMA PurgeGoes ==
    ASSUME NEW A, NEW s \in StepType, NEW F, NEW ret, NEW d, InSection(A, s, F, ret, d), s.k.pc = "work",
           ~s.k.check, ChunksDirty(s.a) # {}
    PROVE  Goes(A, s, PurgeChunk(s.a, s.k), F, ret, d)
<1> DEFINE c == DirtyFirst(s.a)
           npurgeable == s.a.info[c].ndirty
           whole == s.a.info[c].nadjac = 0
           stash == Stash(s.a, c, whole)
           delta == (IF whole /\ npurgeable > s.k.claim THEN npurgeable - s.k.claim ELSE 0) - npurgeable
           n == (stash.a.npurg + delta) % Word
           m == (s.k.claim + delta) % Word
           back == npurgeable - stash.npages
           todo == stash.jobs \o s.k.todo
           B == [stash.a EXCEPT !.npurg = n]
           k == [s.k EXCEPT !.pc = "madvise", !.claim = m, !.todo = todo, !.back = back]
           r == [a |-> B, k |-> k]
<1>0. /\ s.k \in WorkType /\ s.k.claim \in 0 .. Word - 1 /\ s.a.npurg \in 0 .. Word - 1
      /\ Word \in Nat \ {0} /\ s.k.claim \in Int /\ s.a.npurg \in Int /\ Ledger(s.a, {}) /\ Typed(s.a)
      /\ Jobs(s.a, s.k.todo, F) /\ Orderly(s.a, s.k)
  BY ArenaAssumption DEF StepType, WorkType, InSection, Ledger
<1>1. PurgeChunk(s.a, s.k) = r
  BY DEF PurgeChunk
<1>2. c \in Chunks /\ c # s.a.spare
  BY <1>0, DirtyFirstFacts
<1> HIDE DEF c
<1>3. npurgeable \in Int
  <2>1. s.a.info[c] \in Info
    BY <1>0, <1>2 DEF Typed
  <2> QED BY <2>1 DEF Info
<1>4. stash \in StashType /\ Stashes(s.a, stash)
  <2> HIDE DEF whole
  <2> QED BY <1>0, <1>2, StashFacts
<1>5. delta \in Int
  <2> HIDE DEF npurgeable, whole
  <2> QED BY <1>0, <1>3
<1> HIDE DEF stash, delta, npurgeable
<1>6. /\ Ledger(stash.a, {}) /\ Jobs(stash.a, stash.jobs, Taken(s.a)) /\ ToClean(stash.jobs)
      /\ stash.npages \in Int /\ Still(s.a, stash.a, Taken(s.a)) /\ stash.a.npurg = s.a.npurg
      /\ stash.a.unz = s.a.unz /\ stash.a.touched = s.a.touched
  BY <1>4 DEF Stashes, Same
<1>7. /\ n \in 0 .. Word - 1 /\ m \in 0 .. Word - 1 /\ n \in Int
      /\ (n - m) % Word = (s.a.npurg - s.k.claim) % Word
  <2>1. n = (s.a.npurg + delta) % Word
    BY <1>6
  <2>2. m = (s.k.claim + delta) % Word
    OBVIOUS
  <2> HIDE DEF n, m
  <2>3. n \in 0 .. Word - 1 /\ m \in 0 .. Word - 1 /\ (n - m) % Word = (s.a.npurg - s.k.claim) % Word
    BY <1>0, <1>5, <2>1, <2>2, ModShift, ZenonT(40)
  <2> QED BY <1>0, <2>3
<1>8. back \in Int
  BY <1>3, <1>6
<1> HIDE DEF n, m, back
<1>9. Claims(stash.a, B, n)
  BY <1>6, <1>7, ClaimsFacts
<1>10. /\ Ledger(B, {}) /\ B.map = stash.a.map /\ Taken(B) = Taken(stash.a) /\ B.npurg = n
       /\ B.unz = s.a.unz /\ B.touched = s.a.touched
  BY <1>6, <1>9 DEF Claims
<1> HIDE DEF B
<1>11. Jobs(B, stash.jobs, Taken(s.a))
  BY <1>6, <1>10 DEF Jobs
<1>12. /\ Jobs(B, todo, F)
       /\ \A i \in DOMAIN todo : \/ i \in DOMAIN stash.jobs /\ todo[i] = stash.jobs[i]
                                 \/ \E j \in DOMAIN s.k.todo : todo[i] = s.k.todo[j]
  <2> DEFINE new == stash.jobs
             old == s.k.todo
  <2>1. Jobs(s.a, old, F) /\ Jobs(B, new, Taken(s.a)) /\ todo = new \o old
    BY <1>0, <1>11
  <2> HIDE DEF new, old, todo
  <2>2. /\ Jobs(B, new \o old, F)
        /\ \A i \in DOMAIN (new \o old) : \/ i \in DOMAIN new /\ (new \o old)[i] = new[i]
                                          \/ \E j \in DOMAIN old : (new \o old)[i] = old[j]
    BY <2>1, JobsJoined
  <2>3. /\ Jobs(B, todo, F)
        /\ \A i \in DOMAIN todo : \/ i \in DOMAIN new /\ todo[i] = new[i]
                                  \/ \E j \in DOMAIN old : todo[i] = old[j]
    BY <2>1, <2>2
  <2> QED BY <2>3 DEF new, old
<1> HIDE DEF todo
<1>13. /\ k \in WorkType /\ k.todo = todo /\ k.pc = "madvise" /\ k.ret = s.k.ret /\ ~k.check
       /\ k.claim = m /\ k.back = back
  <2>1. todo \in Seq(JobType)
    BY <1>12 DEF Jobs
  <2> QED BY <1>0, <1>7, <1>8, <2>1 DEF WorkType
<1> HIDE DEF k
<1>14. Still(s.a, B, Taken(s.a))
  BY <1>6, <1>10 DEF Still
<1>15. Orderly(B, k)
  <2> SUFFICES ASSUME NEW i \in DOMAIN todo
               PROVE  /\ todo[i].cleaned => ~todo[i].dirty
                      /\ JobMarked(B, todo[i]) \/ todo[i].cleaned
    BY <1>13 DEF Orderly
  <2>1. CASE i \in DOMAIN stash.jobs /\ todo[i] = stash.jobs[i]
    BY <1>6, <2>1 DEF ToClean
  <2>2. ASSUME NEW j \in DOMAIN s.k.todo, todo[i] = s.k.todo[j]
        PROVE  /\ todo[i].cleaned => ~todo[i].dirty
               /\ JobMarked(B, todo[i])
    <3>1. (todo[i].cleaned => ~todo[i].dirty) /\ JobMarked(s.a, todo[i])
      BY <1>0, <2>2 DEF Orderly
    <3>2. <<todo[i].c, todo[i].p>> \in Taken(s.a)
      BY <1>0, <2>2 DEF Jobs, Held
    <3>3. JobMarked(B, todo[i]) <=> JobMarked(s.a, todo[i])
      BY <1>10, <1>14, <3>2, MarkKept
    <3> QED BY <3>1, <3>3
  <2> QED BY <1>12, <2>1, <2>2
<1>16. Still(A, B, F) /\ B.unz = A.unz /\ B.touched = A.touched
  <2>1. F \subseteq Taken(s.a)
    BY <1>0 DEF Jobs
  <2> QED BY <1>10, <1>14, <2>1 DEF InSection, Still
<1>17. r.a = B /\ r.k = k
  OBVIOUS
<1>18. (B.npurg - k.claim) % Word = d
  BY <1>7, <1>10, <1>13 DEF InSection
<1>19. InSection(A, r, F, ret, d)
  <2> HIDE DEF r
  <2>1. k.ret = ret
    BY <1>13 DEF InSection
  <2> QED BY <1>7, <1>10, <1>12, <1>13, <1>15, <1>16, <1>17, <1>18, <2>1 DEF InSection
<1>20. r \in StepType
  <2>1. B \in ArenaType
    BY <1>10 DEF Ledger, Typed, ArenaType
  <2> QED BY <1>13, <2>1 DEF StepType
<1>21. r.k.pc # "work"
  BY <1>13, <1>17
<1> HIDE DEF r
<1> QED BY <1>1, <1>19, <1>20, <1>21 DEF Goes

\* Every turn keeps the ledger, what the thread holds and what it claims.
LEMMA AdvanceGoes ==
    ASSUME NEW A, NEW s \in StepType, NEW F, NEW ret, NEW d, InSection(A, s, F, ret, d), s.k.pc = "work"
    PROVE  Goes(A, s, Advance(s.a, s.k), F, ret, d)
<1> DEFINE first == s.k.todo # << >> /\ (Head(s.k.todo).cleaned \/ ~Purging(s.k))
<1>1. CASE first
  BY <1>1, FreeNextGoes DEF Advance
<1>2. CASE ~first /\ s.k.back # 0
  BY <1>2, BackGoes DEF Advance
<1>3. CASE ~first /\ s.k.back = 0 /\ s.k.check
  BY <1>3, CheckGoes DEF Advance
<1>4. CASE ~first /\ s.k.back = 0 /\ ~s.k.check /\ s.k.claim = 0
  <2>1. s.k.todo = << >>
    BY <1>4 DEF Purging
  <2>2. Advance(s.a, s.k) = [a |-> s.a, k |-> [s.k EXCEPT !.pc = "return"]]
    BY <1>4 DEF Advance
  <2> QED BY <1>4, <2>1, <2>2, EndGoes
<1>5. CASE ~first /\ s.k.back = 0 /\ ~s.k.check /\ s.k.claim # 0 /\ ChunksDirty(s.a) = {}
  <2>1. Advance(s.a, s.k) = [a |-> ClaimReturned(s.a, s.k.claim), k |-> [s.k EXCEPT !.claim = 0]]
    BY <1>5 DEF Advance
  <2> QED BY <1>5, <2>1, ReturnGoes
<1>6. CASE ~first /\ s.k.back = 0 /\ ~s.k.check /\ s.k.claim # 0 /\ ChunksDirty(s.a) # {}
  <2>1. Advance(s.a, s.k) = PurgeChunk(s.a, s.k)
    BY <1>6 DEF Advance
  <2> QED BY <1>6, <2>1, PurgeGoes
<1> HIDE DEF first
<1> QED BY <1>1, <1>2, <1>3, <1>4, <1>5, <1>6

\* The turns that are left are a number, and fewer than a section has.
LEMMA LeftNat ==
    ASSUME NEW k \in WorkType
    PROVE  Left4(k) \in Nat /\ Left4(k) < Turns(k) /\ Turns(k) \in Nat
<1> DEFINE l == Len(k.todo)
           x == IF k.back # 0 THEN 2 ELSE 0
           y == IF k.check THEN 2 ELSE 0
           z == IF k.claim # 0 THEN 1 ELSE 0
<1>1. l \in Nat
  BY DEF WorkType
<1>2. x \in Nat /\ x <= 2 /\ y \in Nat /\ y <= 2 /\ z \in Nat /\ z <= 1
  OBVIOUS
<1>3. Left4(k) = 4 * l + x + y + z /\ Turns(k) = 4 * l + 6
  BY DEF Left4, Turns
<1> HIDE DEF l, x, y, z
<1> QED BY <1>1, <1>2, <1>3

\* The section has come to its end, or to where the thread drops the lock.
Ends(A, r, F, ret, d) == r \in StepType /\ InSection(A, r, F, ret, d) /\ r.k.pc # "work"

\* A section ends: the thread has returned, or has dropped the lock.
LEMMA SectionFacts ==
    ASSUME NEW A, NEW s \in StepType, NEW F, NEW ret, NEW d, InSection(A, s, F, ret, d)
    PROVE  Ends(A, Section(s), F, ret, d)
<1> DEFINE S == {x \in StepType : InSection(A, x, F, ret, d)}
           N == Turns(s.k)
           step == [i \in Nat |-> [x \in S |-> Turn(x)]]
           Swept(f) == f = [i \in 0 .. N |-> IF i = 0 THEN s ELSE Turn(f[i - 1])]
<1>0. N \in Nat /\ Left4(s.k) \in Nat /\ Left4(s.k) < N
  BY LeftNat DEF StepType
<1>1. s \in S
  OBVIOUS
<1>2. ASSUME NEW x \in S
      PROVE  Turn(x) \in S /\ (Turn(x).k.pc = "work" => x.k.pc = "work" /\ Left4(Turn(x).k) < Left4(x.k))
  <2>1. x \in StepType /\ InSection(A, x, F, ret, d)
    BY <1>2
  <2>2. CASE x.k.pc = "work"
    <3>1. Goes(A, x, Advance(x.a, x.k), F, ret, d)
      BY <2>1, <2>2, AdvanceGoes
    <3>2. Turn(x) = Advance(x.a, x.k)
      BY <2>2 DEF Turn
    <3> QED BY <2>2, <3>1, <3>2 DEF Goes
  <2>3. CASE x.k.pc # "work"
    <3>1. Turn(x) = x
      BY <2>3 DEF Turn
    <3> QED BY <1>2, <2>3, <3>1
  <2> QED BY <2>2, <2>3
<1>3. step \in [Nat -> [S -> S]]
  <2> HIDE DEF S
  <2> QED BY <1>2
<1>4. \A x \in S : x.k \in WorkType
  BY DEF StepType
<1> HIDE DEF S, N
<1>5. PICK f \in [0 .. N -> S] : Loops(f, s, step, N)
  <2> HIDE DEF step
  <2> QED BY <1>0, <1>1, <1>3, LoopExists
<1>6. \A i \in 1 .. N : f[i] = Turn(f[i - 1])
  <2> TAKE i \in 1 .. N
  <2>1. i \in Nat /\ i - 1 \in 0 .. N /\ f[i - 1] \in S
    BY <1>0
  <2>2. step[i][f[i - 1]] = Turn(f[i - 1])
    BY <2>1
  <2> HIDE DEF step
  <2> QED BY <1>5, <2>2 DEF Loops
<1>7. Swept(f)
  <2>1. \A i \in 0 .. N : f[i] = IF i = 0 THEN s ELSE Turn(f[i - 1])
    <3> TAKE i \in 0 .. N
    <3>1. i = 0 \/ i \in 1 .. N
      BY <1>0
    <3> QED BY <1>5, <1>6, <3>1 DEF Loops
  <2> QED BY <2>1
<1> DEFINE g == CHOOSE g : Swept(g)
<1>8. Swept(g)
  <2> HIDE DEF Swept
  <2> QED BY <1>7
<1>9. Section(s) = g[N]
  BY DEF Section, N
<1> HIDE DEF g
<1>10. g[0] = s /\ \A i \in 1 .. N : g[i] = Turn(g[i - 1])
  <2>1. \A i \in 0 .. N : g[i] = IF i = 0 THEN s ELSE Turn(g[i - 1])
    BY <1>8
  <2>2. 0 \in 0 .. N /\ \A i \in 1 .. N : i \in 0 .. N /\ i # 0
    BY <1>0
  <2> QED BY <2>1, <2>2
<1> DEFINE P(i) == g[i] \in S /\ (g[i].k.pc = "work" => Left4(g[i].k) + i <= Left4(s.k))
           T == {i \in Nat : i <= N => P(i)}
<1>11. 0 \in T
  BY <1>0, <1>1, <1>10
<1>12. ASSUME NEW i \in Nat, i \in T
       PROVE  i + 1 \in T
  <2> SUFFICES ASSUME i + 1 <= N
               PROVE  P(i + 1)
    OBVIOUS
  <2>1. i + 1 \in 1 .. N /\ (i + 1) - 1 = i /\ P(i)
    BY <1>0, <1>12
  <2>2. g[i + 1] = Turn(g[i])
    BY <1>10, <2>1
  <2>3. g[i] \in S /\ Turn(g[i]) \in S
    BY <1>2, <2>1
  <2>4. Left4(g[i].k) \in Nat /\ Left4(Turn(g[i]).k) \in Nat
    BY <1>4, <2>3, LeftNat
  <2>5. ASSUME Turn(g[i]).k.pc = "work"
        PROVE  Left4(Turn(g[i]).k) + (i + 1) <= Left4(s.k)
    <3>1. Left4(Turn(g[i]).k) < Left4(g[i].k) /\ Left4(g[i].k) + i <= Left4(s.k)
      BY <1>2, <2>1, <2>3, <2>5
    <3> QED BY <1>0, <2>4, <3>1
  <2> QED BY <2>2, <2>3, <2>5
<1>13. N \in T
  <2> HIDE DEF T
  <2>1. Nat \subseteq T
    BY <1>11, <1>12, Induction
  <2> QED BY <1>0, <2>1
<1>14. g[N] \in S /\ (g[N].k.pc = "work" => Left4(g[N].k) + N <= Left4(s.k))
  BY <1>0, <1>13
<1>15. Left4(g[N].k) \in Nat
  BY <1>4, <1>14, LeftNat
<1>16. g[N].k.pc # "work"
  BY <1>0, <1>14, <1>15
<1> QED BY <1>9, <1>14, <1>16 DEF Ends, S
=============================================================================
