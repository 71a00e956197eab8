SPECIFICATION Spec
CONSTANTS
    p1 = p1
    p2 = p2
    Holder = p1
    Procs <- OneProc
    MaxEntries = 4
    MaxWindow = 1
    MaxUuids = 4
    MaxFaults = 1
INVARIANTS
    TornLineCostsOnlyItself
CHECK_DEADLOCK FALSE
