\* What an answer is compared with.
CONSTANTS
    None = None
    a = a
    b = b
    Workers <- MCWorkers
    FirstCap = 4
    MaxTurns = 2
SPECIFICATION SessionSpec
INVARIANT SelfDiffComparesAnswers
