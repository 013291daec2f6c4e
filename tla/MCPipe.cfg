SPECIFICATION Spec
CONSTANTS
    p1 = p1
    p2 = p2
    p3 = p3
    Readers <- TwoReaders
    Writers <- TwoWriters
    PIPESIZE = 2
    UMod = 4
    Bytes <- TwoBytes
    Counts <- ShortAndLong
INVARIANTS SleepersHaveReason NoUseAfterFree
PROPERTY IsFifo
CHECK_DEADLOCK FALSE
