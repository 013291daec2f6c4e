SPECIFICATION FairSpec
CONSTANTS
    NPROC = 3
    NCPU = 2
    MaxPid = 4
    KillPids <- LiveKills
    MemoryFails = TRUE
    TickMod = 2
    SleepTicks <- OneTick
INVARIANTS FamiliesIntact
PROPERTIES KilledExits OrphansReaped
CHECK_DEADLOCK FALSE
