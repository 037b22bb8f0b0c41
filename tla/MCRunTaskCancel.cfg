\* Who cancels a run.
CONSTANTS
    None = None
    c1 = c1
    Models <- MCModels
    Requests <- MCRequests
    StrategyChoices <- MCStrategies
    MaxRoleCalls = 3
    Runs <- MCRuns
    Answers <- MCAnswers
    ChanCap = 2
    Transports = {"connect", "ndjson"}
    MaxUnread = 2
SPECIFICATION TaskSpec
INVARIANT OnlyTheClientCancels
