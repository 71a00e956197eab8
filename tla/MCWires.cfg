SPECIFICATION WiresSpec
CONSTANTS
    a1 = a1  a2 = a2  d1 = d1  d2 = d2
    Requests <- TwoRequests
    Conns <- TwoConns
    Bodies <- OneBody
    RequestKinds <- CachedKinds
    SseAttempts = 2
    MaxRequests = 3
    NoConn = none
    MaxPieces = 1
    PipeRoom = 1
    TurnBuffer = 1
    MaxRunners = 2
    MaxIds = 3
INVARIANTS
    WiresTypeOK
    ConnectionsSafe
    
CHECK_DEADLOCK FALSE
