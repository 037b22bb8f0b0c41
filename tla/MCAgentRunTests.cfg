\* What follows a failed test run.
CONSTANTS
    None = None
    c1 = c1
    c2 = c2
    Models <- MCModels
    Requests <- MCRequests
    StrategyChoices <- MCStrategies
    MaxRoleCalls = 5
    Runs <- MCRuns
    Answers <- MCAnswers
    ChanCap = 2
SPECIFICATION RunSpec
INVARIANT FailedTestsDriveNextStep
