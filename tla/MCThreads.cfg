SPECIFICATION MCSpec
CONSTANTS
    t1 = t1
    t2 = t2
    t3 = t3
    Threads <- ThreeThreads
    InitVal = 2
    MaxVal = 3
    MAX_UTHREADS = 3
    Sems = {1}
    MallocFails = TRUE
    UTHREAD_QUANTA = 1
    MaxTid = 3
    MaxTime = 1
INVARIANTS NoUnitForgotten ThreadTableConsistent
PROPERTIES IsCountingSemaphore JoinWaitsForExit RingIsBinSem ThreadsProgress
CHECK_DEADLOCK FALSE
