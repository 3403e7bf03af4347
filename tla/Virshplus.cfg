SPECIFICATION Spec
CONSTANTS
    t1 = t1
    t2 = t2
    Threads <- MCThreads
    Scenarios <- MCScenarios
    MaxCmds = 3
    MaxFaults = 1
    MaxGrumbles = 1
    MaxOutages = 1
    MaxMoves = 1
SYMMETRY Symmetry
CHECK_DEADLOCK FALSE
INVARIANT TypeOK
PROPERTIES  ReadyLast PoolGone FailedCreateStopped 
