SPECIFICATION MCSpec
CONSTANTS
    p1 = p1
    p2 = p2
    q1 = q1
    q2 = q2
    q3 = q3
    Nobody = Nobody
    Procs <- Two
    Blocks <- ThreeBlocks
    Values <- TwoValues
    NoBlock = 0
    NBUF = 2
    LOGSIZE = 9
    NLog = 9
    MAXOPBLOCKS = 3
    OpBlocks = 4
    NFrames = 15
    PGSIZE = 2
    NPTENTRIES = 2
    KERNBASE = 8
    KTables = 1
    MaxCalls = 7
    BSIZE = 2
    NDIRECT = 2
    NINDIRECT = 2
    NMeta = 2
    FSSIZE = 16
    NInodes = 5
    MaxLength = 7
    INPUT_BUF = 3
    UintMod = 6
    COLS = 2
    ROWS = 3
    MaxTyped = 4
    HeapStart = 2
    HeapEnd = 14
    MinCore = 3
SYMMETRY Symmetry
INVARIANTS
    ReadsSeeLastWrite SleepersAreQueued ReservationSuffices
    FramesOwnedOnce MemoryKept ArgumentsPresent ImageConsistent
    RingHoldsInput ReaderSleepsWithReason HeapPartitioned
CHECK_DEADLOCK FALSE
