\* One call over either transport, with a client that may cancel or vanish.
CONSTANTS
    None = None
    c1 = c1
    Models <- MCModels
    Requests <- MCRequests
    StrategyChoices <- MCStrategies
    MaxRoleCalls = 3
    Runs <- MCRuns
    Answers <- MCAnswers
    ChanCap = 2
    Transports = {"connect", "ndjson"}
    MaxUnread = 2
SPECIFICATION FairTaskSpec
INVARIANTS
    TaskTypeOK
    DeliveredInOrder
    StrandedOnlyByLoss
    ExitIsHonest
    ShutdownSparesNdjson
PROPERTIES
    ClientReturns
    GaugeDrains
    RunnerEndsOrStranded
    ClientReadsStream
