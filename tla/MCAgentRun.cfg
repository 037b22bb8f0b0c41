\* One run of the agent with a consumer and a client that may cancel.
CONSTANTS
    None = None
    c1 = c1
    c2 = c2
    Models <- MCModels
    Requests <- MCRequests
    StrategyChoices <- MCStrategies
    MaxRoleCalls = 5
    Runs <- MCRuns
    Answers <- MCAnswers
    ChanCap = 2
SPECIFICATION FairRunSpec
INVARIANTS
    RunTypeOK
    BlockedRunHalts
    CriticSeesTheTools
    TestedBeforeDone
PROPERTIES
    CancelStopsWork
    RunMovesOn
    RunEnds
    ImplementsStream
    ImplementsRoleCall
