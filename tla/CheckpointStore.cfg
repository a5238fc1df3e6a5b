SPECIFICATION Spec
CONSTANTS
    Blocks = {1, 2, 3}
    Scopes <- MCScopes
    MaxRuntime = 1
    FsyncKeepsName = TRUE
    LateCompaction = TRUE
    None = None
INVARIANTS
    EveryCrashOpens
    RecoveryIsExact
CHECK_DEADLOCK FALSE
