SPECIFICATION HistorySpec
CONSTANTS
    p1 = p1
    p2 = p2
    Holder = p1
    Procs <- TwoProcs
    MaxEntries = 4
    MaxWindow = 2
    MaxUuids = 2
    MaxFaults = 1
    KeepRecent = 2
    Sizes = {1, 2}
    MaxBranch = 6
    Budget = 3
    Costs = {1, 2}
    MaxTree = 4
INVARIANTS
    TypeOK
    MemoryTrue
    HistoryClosed
    AckedOnDisk
    
PROPERTIES
    AppendOnly
    AloneImplementsTree
CHECK_DEADLOCK FALSE
