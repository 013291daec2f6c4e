SPECIFICATION Spec
CONSTANTS
    p1 = p1
    p2 = p2
    b1 = b1
    b2 = b2
    b3 = b3
    Procs <- TwoProcs
    Blocks <- ThreeBlocks
    LOGSIZE = 4
    NLog = 4
    MAXOPBLOCKS = 2
    OpBlocks = 3
    Values <- TwoValues
SYMMETRY ProcSymmetry
INVARIANTS SleepersHaveWaker
PROPERTIES CrashAtomic SpaceAccounting
