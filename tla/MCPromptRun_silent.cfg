SPECIFICATION PartsSpec
CONSTANTS
    m1 = m1  m2 = m2
    Models <- OneModel
    Model0 = m1
    MaxRetries = 1
    MaxPrompts = 2
    MaxFlips = 1
    MaxFaults = 0
INVARIANT
    RequestAnswered
CHECK_DEADLOCK FALSE
