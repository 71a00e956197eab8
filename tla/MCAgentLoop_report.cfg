SPECIFICATION Spec
CONSTANTS
    MaxCalls = 1
    MaxTurns = 2
    MaxUsers = 1
    MaxFaults = 0
    MaxCrashes = 0
    Modes <- Both
INVARIANT
    FailureReported
CHECK_DEADLOCK FALSE
