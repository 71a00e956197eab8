SPECIFICATION ScreenSpec
CONSTANTS
    ShownLines = 2
    ShownBytes = 2
    MaxOutput = 7
    t1 = t1  t2 = t2
    Pipes <- TwoPipes
    Children <- OneChild
    Timers <- TwoTimers
    MaxChunks = 2
    MaxShellFaults = 1
    NoTimer = none
    Room = 1
    MaxShown = 2
    MaxEvents = 2
    MaxResizes = 1
    Prints = {"a", "b", "c"}
    Tools = {"x", "y"}
    MaxRepeat = 4
    Window = 12
    MaxCalls = 9
    MaxOutcomes = 6
    a = a  b = b  d = d  m1 = m1  off = off
    Clients <- ThreeClients
    Setters <- NoSetter
    Models <- OneModel
    Levels <- OneLevel
    Model0 = m1
    Level0 = off
    AllAtOnce <- NoneAll
    MaxRuns = 2
    MaxMsgs = 1
    MaxSets = 0
    MaxFaults = 0
INVARIANTS
    ScreenTypeOK
    ShellTellsTruth
    
PROPERTY
    WaitingEnds
CHECK_DEADLOCK FALSE
