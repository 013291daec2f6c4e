SPECIFICATION Spec
CONSTANTS
    c1 = c1
    c2 = c2
    CPUs <- TwoCpus
    BootCpu = c1
    NPROC = 3
INVARIANTS StacksAndLocksExclusive NoLostWakeup InterruptsRestored
