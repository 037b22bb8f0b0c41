\* The fallback search, under a fair scheduler and providers that answer.
CONSTANTS
    None = None
    c1 = c1
    c2 = c2
    e1 = e1
    e2 = e2
    unknown = unknown
    Models <- MCModels
    Requests <- MCRequests
    StrategyChoices <- MCStrategies
    MaxRoleCalls = 2
SPECIFICATION FairRoleSpec
PROPERTY SearchEnds
