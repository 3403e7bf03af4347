SPECIFICATION FairSpec
CONSTANTS
    d1 = d1
    d2 = d2
    d3 = d3
    s1 = s1
    Procs <- MCProcs
    Stops <- MCStops
    Kinds = {"both", "daemon", "lock"}
    Inodes = {1, 2, 3, 4}
    MaxKills = 1
CHECK_DEADLOCK FALSE
INVARIANTS OneInstance PidNamesDaemon
PROPERTY StopEnds
