SPECIFICATION TurnSpec
CONSTANTS
    MaxCalls = 2
    MaxTurns = 2
    MaxUsers = 2
    MaxFaults = 1
    MaxCrashes = 1
    Modes <- Both
    MaxItems = 2
    MaxDeltas = 3
    Catalogue <- FiveModels
    MaxMessages = 4
    Chains <- FollowedEvents
    MaxHandlers = 3
    MaxPublished = 2
INVARIANTS
    TurnTypeOK
    RequestPaired
    BatchesComplete
    TurnInStep
    AnswerFaithful
    RequestAcceptable
PROPERTIES
    BranchOnlyGrows
    CancelEndsRun
CHECK_DEADLOCK FALSE
