SPECIFICATION Spec
CONSTANTS
    Procs = {p1, p2}
    LOGSIZE = 30
    NLog = 30
    MAXOPBLOCKS = 10
    OpBlocks <- FileWriteBlocks
INVARIANT NoPanic
