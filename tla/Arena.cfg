SPECIFICATION Spec
CONSTANTS
    t1 = t1
    t2 = t2
    None = None
    Threads <- MCThreads
    NChunks = 2
    NPages = 3
    RunPages = 2
    NRegs = 2
    Sizes <- MCSizes
    AlignedSizes <- MCAlignedSizes
    Past <- MCPast
    DirtyMult = 1
    Word = 16
    MaxLarge = 1
    MaxSmall = 2
    Bias = 1
    Align = 2
    Zeroing <- MCZeroing
SYMMETRY Symmetry
INVARIANTS TypeOK PageMapExact NothingLostOrShared BinRunsFound CleanPagesKnown ClaimsBalance
CHECK_DEADLOCK FALSE
