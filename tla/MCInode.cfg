SPECIFICATION Spec
CONSTANTS
    p1 = p1
    p2 = p2
    NoProc = NoProc
    Procs <- TwoProcs
    NInodes = 3
    NINODE = 3
    NFILE = 1
    NOFILE = 2
    Names <- TwoNames
    Workloads <- Mixed
SYMMETRY Symmetry
CONSTRAINT Healthy
INVARIANTS RefsCounted LinksMatch AllocatedIffReachable
