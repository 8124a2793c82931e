CONSTANTS
    WORLD_SLEEP_CONST = 5
    MaxUint64 = 63
    MaxBusy = 7
    MaxClock = 40
    Names <- AllNames
    None = None
    Books <- TheBooks
    Students <- TheStudents
    Typed = {"7", "8", "08", "i1", "i2", "i3"}
    Number <- Numbers
    Uint = 8
    Vins = {"v1", "v2"}
    Cases = {"upper", "lower"}
    BadVins = {"v3"}
    Years = {1885, 1886, 2017}
    Emails = {"e1", "e2"}
    BadEmails = {"e3"}
    Passwords = {"p1", "p2"}
    Category <- Categories
    MaxPictures = 8
    Width = 6
    Height = 8
    Start = 2
    Tilts <- SomeTilts
    MaxTimers = 2
    Columns = {1, 2}
    Centre = 1
    Top = 1
    Seconds = 2
    Eggs = 3
    Threads = {t1, t2}
    Space = 4
    ChunkSizes = {1, 2}
    Alignments = {1, 2}
    BaseNodes = 2
    NAuto = 2
    MaxArenas = 3
    BaseGrows = FALSE
    Stale = Stale
    Undefined = Undefined
    t1 = t1
    t2 = t2
SPECIFICATION AllSpec
INVARIANTS
    PartsTypeOK
    KeepsPace
    CourseRules
    ObjectsConserved
    ChunksConserved
    LookupsRight
    ArenasCounted
    ForkSafe
    TextsArrive
PROPERTIES
    MovesWithinBounds
CHECK_DEADLOCK FALSE
