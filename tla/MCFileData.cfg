SPECIFICATION Spec
CONSTANTS
    p1 = p1
    p2 = p2
    NoProc = NoProc
    Procs <- TwoProcs
    Inodes <- TwoInodes
    Files <- ThreeFiles
    InodeOf <- OneTwice
    NBlocks = 5
    BSIZE = 2
    NDIRECT = 1
    NINDIRECT = 2
    MaxChunk = 2
    Counts <- ShortAndLong
    MaxCalls = 4
SYMMETRY Symmetry
INVARIANTS BlocksOwned ContentAsWritten ReadsExact
CHECK_DEADLOCK FALSE
