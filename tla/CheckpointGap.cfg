SPECIFICATION Spec
CONSTANTS
    Blocks = {1, 2, 3}
    Scopes <- MCScopes
    MaxRuntime = 1
    FsyncKeepsName = TRUE
    LateCompaction = FALSE
    None = None
INVARIANT
    EveryCrashOpens
CHECK_DEADLOCK FALSE
