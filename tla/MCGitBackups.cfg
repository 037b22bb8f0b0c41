\* Two concurrent runs, with crashes and failing writes.
CONSTANTS
    a = a
    b = b
    p = p
    q = q
    Callers <- MCCallers
    Patches <- MCPatches
    Configs <- MCConfigs
    None = None
    Nil = Nil
    Torn = Torn
    MaxBackups = 3
SPECIFICATION BackupSpec
SYMMETRY MCSymmetry
INVARIANTS
    BackupTypeOK
    TrackedUnlessRaced
    LineageIsChain
PROPERTIES
    TornStackStopsAll
    ReadOnlyTouchesNothing
    ImplementsLog
