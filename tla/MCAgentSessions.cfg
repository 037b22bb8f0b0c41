\* Two runs at once on one session.
CONSTANTS
    None = None
    a = a
    b = b
    Workers <- MCWorkers
    FirstCap = 4
    MaxTurns = 2
SPECIFICATION SessionSpec
INVARIANTS
    SessionTypeOK
    TurnsStayWhole
    OwnOrderIsKept
    OwnPastIsSeen
    OnePlanUnlessRaced
