\* Every strategy: safety of the budget, the metrics and the retry.
CONSTANTS
    None = None
    c1 = c1
    c2 = c2
    e1 = e1
    e2 = e2
    unknown = unknown
    Models <- MCModels
    Requests <- MCRequests
    StrategyChoices <- MCStrategies
    MaxRoleCalls = 3
SPECIFICATION RoleSpec
INVARIANTS
    RoleTypeOK
    BudgetKept
    UsedMatchesUsage
    RetryIsAnotherModel
    FailuresCountedOnce
PROPERTIES
    SearchDecidesAtOnce
