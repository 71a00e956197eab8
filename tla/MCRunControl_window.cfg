SPECIFICATION Spec
CONSTANTS
    a = a  b = b
    m1 = m1  m2 = m2
    off = off
    Clients <- TwoClients
    Setters <- OneSetter
    Models <- TwoModels
    Levels <- OneLevel
    Model0 = m1
    Level0 = off
    AllAtOnce <- NoneAll
    MaxRuns = 1
    MaxMsgs = 0
    MaxSets = 1
    MaxFaults = 0
INVARIANT
    SafetyNet
CHECK_DEADLOCK FALSE
