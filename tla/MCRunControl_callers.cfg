SPECIFICATION Spec
CONSTANTS
    a = a  b = b
    m1 = m1  m2 = m2
    off = off
    Clients <- TwoClients
    Setters <- OneSetter
    Models <- TwoModels
    Levels <- OneLevel
    Model0 = m1
    Level0 = off
    AllAtOnce <- SteerAll
    MaxRuns = 2
    MaxMsgs = 2
    MaxSets = 2
    MaxFaults = 1
INVARIANTS
    TypeOK
    OneRun
    NothingLost
    
    NothingPendingWhenIdle
CHECK_DEADLOCK FALSE
