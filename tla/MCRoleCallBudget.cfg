\* The documented limit, for strategies with a cheap fallback.
CONSTANTS
    None = None
    c1 = c1
    c2 = c2
    e1 = e1
    e2 = e2
    unknown = unknown
    Models <- MCModels
    Requests <- MCRequests
    StrategyChoices <- MCStrategies
    MaxRoleCalls = 3
SPECIFICATION RoleSpec
INVARIANT FallbacksKeepBudget
