CONSTANTS
    t1 = t1
    t2 = t2
    Threads <- MCThreads
    Arenas <- MCArenas
    ArenaOf <- MCArenaOf
    NBins = 1
    NHBins = 2
    CachedMax <- MCCachedMax
    GcIncr = 2
    Objects <- MCObjects
    Plain <- MCPlain
    MaxLive = 3
    MidFill = TRUE
    Stale = Stale
SPECIFICATION Spec
INVARIANTS
    CachedAreObjects
CHECK_DEADLOCK FALSE
