SPECIFICATION SwitchSpec
CONSTANTS
    Callers = {c1, c2}
    Models = {m1, m2}
    MaxSessions = 2
    MaxAppends = 2
    MaxSets = 2
    MaxReloads = 1
INVARIANT
    TurnFlushes
CHECK_DEADLOCK FALSE
