\* The stack of two concurrent runs.
CONSTANTS
    a = a
    b = b
    p = p
    q = q
    Callers <- MCCallers
    Patches <- MCPatches
    Configs <- MCConfigs
    None = None
    Nil = Nil
    Torn = Torn
    MaxBackups = 3
SPECIFICATION BackupSpec
INVARIANT AppliedIsTracked
