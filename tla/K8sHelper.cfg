SPECIFICATION FairSpec
CONSTANTS
    Procs = {p1, p2}
    Kinds <- McKinds
    Nodes = {n1, n2}
    HomeNode = n1
    Data = {d1, d2}
    Labels = {l1}
    Lives = {c1}
    RETRY_TIMES = 2
    MaxFaults = 1
    MaxWrites = 1
INVARIANTS
    TookEffect
    FailsOnlyWhenDisturbed
PROPERTIES
    OneThingAtATime
    CallEnds
CHECK_DEADLOCK FALSE
