------------------------------ MODULE MCParts -------------------------------
(***************************************************************************)
(* The small parts, with pieces of the allocator that are only checked:    *)
(* they share a run.  The initial state chooses one of all of them.        *)
(***************************************************************************)
EXTENDS Parts

CONSTANTS Stale, Undefined, t1, t2

VARIABLES
    free, live, tsd, armed, exiting, cache, work,               \* ThreadCache
    rbt_root, nodes,                                            \* RedBlackTree
    tab, lgCurbuckets, count, op, keysHeld, keysLost,           \* CuckooTable
    nbits, bitmap, used,                                        \* Bitmap
    quarantine, owned, freed, order, leaving,                   \* Quarantine
    request,                                                    \* SizeClasses
    sent, cut, asked, got, reply, read                          \* WireFormat

AllNames == {"clock", "library", "cars", "login", "quiz", "grid", "sprite", "egg", "threads", "chunks",
             "tree", "table", "regions", "waiting", "arenas", "mutexes", "sizes", "wire"}

Book(isbn, stock) == [isbn |-> isbn, stock |-> stock]
TheBooks == <<Book("i1", 2), Book("i1", 1), Book("i2", 1)>>
TheStudents == <<"7", "8">>
Numbers == [id \in {"7", "8", "08"} |-> IF id = "7" THEN 7 ELSE 8]
Categories == <<0, 0, 1, 1, 2, 2>>
SomeTilts == {-2, 0, 1}

Object(a, b, n) == [arena |-> a, bin |-> b, n |-> n]
Caches == INSTANCE ThreadCache WITH
    Threads <- {t1, t2}, Arenas <- {1, 2}, ArenaOf <- [t \in {t1, t2} |-> IF t = t1 THEN 1 ELSE 2],
    NBins <- 1, NHBins <- 2, CachedMax <- <<4, 1>>, GcIncr <- 2, Plain <- {t2},
    MaxLive <- 2, MidFill <- FALSE,
    Objects <- {Object(1, 1, 1), Object(1, 1, 2), Object(1, 1, 3), Object(2, 1, 1),
                Object(1, 2, 1), Object(2, 2, 1)}
ASSUME CachesConfigured == Caches!Configured

Tree == INSTANCE RedBlackTree WITH Keys <- 1 .. 8
Table == INSTANCE CuckooTable WITH
    Keys <- 1 .. 6, Hashes <- <<<<0, 0>>, <<0, 4>>, <<4, 0>>, <<0, 1>>, <<1, 3>>, <<2, 1>>>>,
    LgCells <- 1, MinItems <- 1, MaxLg <- 3, held <- keysHeld, lost <- keysLost
Regions == INSTANCE Bitmap WITH GroupBits <- 2, MaxBits <- 9
Waiting == INSTANCE Quarantine WITH
    Objects <- {[n |-> 1, usize |-> 1], [n |-> 2, usize |-> 1], [n |-> 3, usize |-> 2],
                [n |-> 4, usize |-> 4], [n |-> 5, usize |-> 1]},
    Limit <- 4, LgInit <- 0, LgMax <- 2, live <- owned, free <- freed, exiting <- leaving
Sizes == INSTANCE SizeClasses WITH
    SizeBits <- 26, LgChunks <- {14, 16, 22}, Quanta <- {3, 4} \X (12 .. 16), Products <- 64
Wire == INSTANCE WireFormat WITH
    Half <- 16, Recv <- 40, Segments <- {4, 20}, NameRoom <- 12, LoginRoom <- 40, ListRoom <- 130,
    Texts <- {<<1>>, [i \in 1 .. 11 |-> 1 + (i % 3)], [i \in 1 .. 16 |-> 2]},
    Rows <- {0, 1, 2, 15, 16}, request <- asked

threadsVars == <<free, live, tsd, armed, exiting, cache, work>>
treeVars == <<rbt_root, nodes>>
tableVars == <<tab, lgCurbuckets, count, op, keysHeld, keysLost>>
regionsVars == <<nbits, bitmap, used>>
waitingVars == <<quarantine, owned, freed, order, leaving>>
wireVars == <<sent, cut, asked, got, reply, read>>

otherVars == <<threadsVars, treeVars, tableVars, regionsVars, waitingVars, request, wireVars>>

AllBut(p) ==
    /\ UNCHANGED partsVars
    /\ IF p = "threads" THEN TRUE ELSE UNCHANGED threadsVars
    /\ IF p = "tree" THEN TRUE ELSE UNCHANGED treeVars
    /\ IF p = "table" THEN TRUE ELSE UNCHANGED tableVars
    /\ IF p = "regions" THEN TRUE ELSE UNCHANGED regionsVars
    /\ IF p = "waiting" THEN TRUE ELSE UNCHANGED waitingVars
    /\ IF p = "sizes" THEN TRUE ELSE UNCHANGED request
    /\ IF p = "wire" THEN TRUE ELSE UNCHANGED wireVars

AllInit ==
    /\ PartsInit /\ Caches!Init /\ Tree!Init /\ Table!Init /\ Regions!Init
    /\ Waiting!Init /\ Sizes!Init /\ Wire!Init

AllNext ==
    \/ PartsNext /\ UNCHANGED otherVars
    \/ part = "threads" /\ Caches!Next /\ AllBut("threads")
    \/ part = "tree" /\ Tree!Next /\ AllBut("tree")
    \/ part = "table" /\ Table!Next /\ AllBut("table")
    \/ part = "regions" /\ Regions!Next /\ AllBut("regions")
    \/ part = "waiting" /\ Waiting!Next /\ AllBut("waiting")
    \/ part = "sizes" /\ Sizes!Next /\ AllBut("sizes")
    \/ part = "wire" /\ Wire!Next /\ AllBut("wire")

\* Implies PartsSpec.
AllSpec == AllInit /\ [][AllNext]_<<partsVars, otherVars>>
-----------------------------------------------------------------------------
PartsTypeOK ==
    /\ SmallPartsTypeOK
    /\ part = "threads" => Caches!TypeOK
    /\ part = "tree" => Tree!TypeOK
    /\ part = "table" => Table!TypeOK
    /\ part = "regions" => Regions!TypeOK
    /\ part = "waiting" => Waiting!TypeOK
    /\ part = "sizes" => Sizes!TypeOK
    /\ part = "wire" => Wire!TypeOK

\* No object of the allocator is lost or in two places while caches fill, flush and end; freed
\* objects wait in the quarantine in the order of the frees.
ObjectsConserved ==
    /\ part = "threads" => Caches!ObjectsConserved
    /\ part = "waiting" => Waiting!ObjectsWait

\* What the allocator looks up is right: its trees, hash tables and bitmaps find what was put into
\* them, and nothing else, after any sequence of insertions and removals (the hash table but for
\* one key for each insertion that fails for want of memory); the class and run found for a request
\* are large enough and aligned for it, or it is refused, at the boundaries of the size classes and
\* of size_t; and in every run, regions, redzones and header fit.
LookupsRight ==
    /\ part = "tree" => Tree!TreeSearches
    /\ part = "table" => Table!TableSearches
    /\ part = "regions" => Regions!BitsSearched
    /\ part = "sizes" => Sizes!RequestsFit

\* The texts of a request reach the server's handler, and those of its answer the app, up to the
\* limits that the length bytes and the buffers set, whatever TCP delivers behind the request.
TextsArrive == part = "wire" => Wire!TextsArrive
=============================================================================
