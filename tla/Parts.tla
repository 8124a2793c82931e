------------------------------- MODULE Parts --------------------------------
(***************************************************************************)
(* The parts of the repository that are small, stand alone and can be      *)
(* reasoned about together: the clock of the server's loop, the programs   *)
(* of the course, the allocator's chunks, its table of arenas and its      *)
(* mutexes.  The initial state chooses one; the others stand still.        *)
(***************************************************************************)
EXTENDS WorldClock, FiniteSets

CONSTANTS
    Names,                                                      \* of the parts that are chosen from
    None,
    Books, Students, Typed, Number, Uint,                       \* BookLibrary
    Vins, Cases, BadVins, Years,                                \* SavedCars
    Emails, BadEmails, Passwords,                               \* LocalLogin
    Category,                                                   \* Quiz
    MaxPictures,                                                \* PictureGrid
    Width, Height, Start, Tilts, MaxTimers,                     \* SpriteGame
    Columns, Centre, Top, Seconds, Eggs,                        \* EggGame
    Threads,                                                    \* of a program, for its allocator
    Space, ChunkSizes, Alignments, BaseNodes,                   \* ChunkStore
    NAuto, MaxArenas,                                           \* ArenaTable
    BaseGrows                                                   \* ForkLocks

VARIABLES
    part,
    quantity, held, running,                                    \* BookLibrary
    defaults, disk,                                             \* SavedCars
    users, saved, shown,                                        \* LocalLogin
    currentQuestion, previous, answerShown,                     \* Quiz
    images, mainImage, currentIndex, canFire, timers, picking,  \* PictureGrid
    frame, gesture, began, frameTimers, timer,                  \* SpriteGame
    scene, eggs, player, score, left, laid, caught,             \* EggGame
    extents, huge, base, room, spare, mapped, dirty, curchunks, steps, made, leaked, miscounted,
                                                                \* ChunkStore
    malloc_initializer, init, arenas, assigned, ctl_stats, calls, crashed,
                                                                \* ArenaTable
    locks, wants, fork, child                                   \* ForkLocks

Library == INSTANCE BookLibrary
Cars == INSTANCE SavedCars
Login == INSTANCE LocalLogin
Questions == INSTANCE Quiz
Grid == INSTANCE PictureGrid
Sprite == INSTANCE SpriteGame WITH start <- began, timers <- frameTimers
Egg == INSTANCE EggGame
Chunks == INSTANCE ChunkStore WITH Sizes <- ChunkSizes, lost <- leaked
ArenaUse == INSTANCE ArenaTable WITH op <- calls
Mutexes == INSTANCE ForkLocks WITH held <- locks

\* A number of copies fits into its variable; a category has two questions; the square fits into
\* the screen; and a null pointer is no thread and no number.
ASSUME PartsAssumption ==
    /\ Uint \in Nat \ {0} /\ IsFiniteSet(DOMAIN Students)
    /\ \A b \in DOMAIN Books : Books[b].stock \in 0 .. Uint - 1
    /\ "upper" \in Cases
    /\ None \notin DOMAIN Category
    /\ \A q \in DOMAIN Category : \E r \in DOMAIN Category : r # q /\ Category[r] = Category[q]
    /\ MaxPictures \in Nat /\ MaxPictures > 4
    /\ Width \in Nat /\ Height \in Nat /\ Start \in Nat /\ Tilts \subseteq Int /\ MaxTimers \in Nat
    /\ Start + 2 <= Width /\ Start + 2 <= Height
    /\ Width >= 4 /\ Width \div 2 + 2 <= Height
    /\ Centre \in Columns /\ Top \in Nat /\ Seconds \in Nat /\ Eggs \in Nat
    /\ IsFiniteSet(Threads) /\ None \notin Threads \union Nat \union Mutexes!Mutexes
    /\ Space \in Nat /\ ChunkSizes \subseteq Nat \ {0} /\ Alignments \subseteq Nat \ {0}
    /\ BaseNodes \in Nat \ {0}
    /\ NAuto \in Nat \ {0, 1} /\ MaxArenas \in Nat

libraryVars == <<quantity, held, running>>
carsVars == <<defaults, disk>>
loginVars == <<users, saved, shown>>
quizVars == <<currentQuestion, previous, answerShown>>
gridVars == <<images, mainImage, currentIndex, canFire, timers, picking>>
spriteVars == <<frame, gesture, began, frameTimers, timer>>
eggVars == <<scene, eggs, player, score, left, laid, caught>>
chunksVars == <<extents, huge, base, room, spare, mapped, dirty, curchunks, steps, made, leaked, miscounted>>
arenasVars == <<malloc_initializer, init, arenas, assigned, ctl_stats, calls, crashed>>
mutexesVars == <<locks, wants, fork, child>>

partsVars == <<part, vars, libraryVars, carsVars, loginVars, quizVars, gridVars, spriteVars,
               eggVars, chunksVars, arenasVars, mutexesVars>>

\* All parts but p stand still.
Others(p) ==
    /\ UNCHANGED part
    /\ IF p = "clock" THEN TRUE ELSE UNCHANGED vars
    /\ IF p = "library" THEN TRUE ELSE UNCHANGED libraryVars
    /\ IF p = "cars" THEN TRUE ELSE UNCHANGED carsVars
    /\ IF p = "login" THEN TRUE ELSE UNCHANGED loginVars
    /\ IF p = "quiz" THEN TRUE ELSE UNCHANGED quizVars
    /\ IF p = "grid" THEN TRUE ELSE UNCHANGED gridVars
    /\ IF p = "sprite" THEN TRUE ELSE UNCHANGED spriteVars
    /\ IF p = "egg" THEN TRUE ELSE UNCHANGED eggVars
    /\ IF p = "chunks" THEN TRUE ELSE UNCHANGED chunksVars
    /\ IF p = "arenas" THEN TRUE ELSE UNCHANGED arenasVars
    /\ IF p = "mutexes" THEN TRUE ELSE UNCHANGED mutexesVars

PartsInit ==
    /\ part \in Names
    /\ Init /\ Library!Init /\ Cars!Init /\ Login!Init /\ Questions!Init /\ Grid!Init
    /\ Sprite!Init /\ Egg!Init /\ Chunks!Init /\ ArenaUse!Init /\ Mutexes!Init

PartsNext ==
    \/ part = "clock" /\ Next /\ Others("clock")
    \/ part = "library" /\ Library!Next /\ Others("library")
    \/ part = "cars" /\ Cars!Next /\ Others("cars")
    \/ part = "login" /\ Login!Next /\ Others("login")
    \/ part = "quiz" /\ Questions!Next /\ Others("quiz")
    \/ part = "grid" /\ Grid!Next /\ Others("grid")
    \/ part = "sprite" /\ Sprite!Next /\ Others("sprite")
    \/ part = "egg" /\ Egg!Next /\ Others("egg")
    \/ part = "chunks" /\ Chunks!Next /\ Others("chunks")
    \/ part = "arenas" /\ ArenaUse!Next /\ Others("arenas")
    \/ part = "mutexes" /\ Mutexes!Next /\ Others("mutexes")

PartsSpec == PartsInit /\ [][PartsNext]_partsVars
-----------------------------------------------------------------------------
\* A part that stands still keeps what its initial state has.
SmallPartsTypeOK ==
    CASE part = "clock" -> TypeOK
      [] part = "library" -> Library!TypeOK
      [] part = "cars" -> Cars!TypeOK
      [] part = "login" -> Login!TypeOK
      [] part = "quiz" -> Questions!TypeOK
      [] part = "grid" -> Grid!TypeOK
      [] part = "sprite" -> Sprite!TypeOK
      [] part = "egg" -> Egg!TypeOK
      [] part = "chunks" -> Chunks!TypeOK
      [] part = "arenas" -> ArenaUse!TypeOK
      [] part = "mutexes" -> Mutexes!TypeOK
      [] OTHER -> TRUE

\* The course's programs, whatever was pressed when: no copy of a book comes from nowhere; the
\* user defaults have no two entries under one key, through writes to disk that come late or
\* never; the quiz does not repeat itself; the grid shows the current picture; and the score is
\* that of the eggs caught.
CourseRules ==
    /\ part = "library" => Library!CopiesConserved
    /\ part = "cars" => Cars!VinsUnique
    /\ part = "login" => Login!OnePassword
    /\ part = "quiz" => Questions!AnotherQuestion
    /\ part = "grid" => Grid!ShowsCurrent
    /\ part = "egg" => Egg!ScoreIsCaught

\* Moves lead to the cell beside, and to where the square is inside the margins.
MovesWithinBounds == [][Grid!OneCellAtATime /\ Sprite!MovesIntoMargins]_<<gridVars, spriteVars>>

\* Every chunk the kernel has mapped is in one place, whoever drops chunks_mtx when: stored, in use, the
\* base allocator's, in a thread's hands, or given up for want of a node; so is every node, and what
\* is stored as zero is zero.
ChunksConserved == part = "chunks" => Chunks!ChunksConserved

\* Threads and statistics are counted right in the arenas there are, however threads come, move
\* and go and arenas are added, up to the crash of a thread that moves to an arena that cannot be
\* made.
ArenasCounted == part = "arenas" => ArenaUse!ArenasCounted

\* While one thread forks nobody waits in a circle, and the child can use the allocator.
ForkSafe == part = "mutexes" => Mutexes!SafeOrder /\ Mutexes!ChildServed
=============================================================================
