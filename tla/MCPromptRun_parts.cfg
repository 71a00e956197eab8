SPECIFICATION PartsSpec
CONSTANTS
    m1 = m1  m2 = m2
    Models <- TwoModels
    Model0 = m1
    MaxRetries = 2
    MaxPrompts = 3
    MaxFlips = 1
    MaxFaults = 1
INVARIANTS
    TypeOK
    AnswerTellsTruth
    RecoveryNotRefused
    RetriesAnnounced
    OneAnswerEach
PROPERTIES
    PromptKept
    PromptsReturn
CHECK_DEADLOCK FALSE
