SPECIFICATION Spec
CONSTANTS
    Blocks = {1, 2, 3}
    Scopes <- MCScopes
    MaxRuntime = 1
    FsyncKeepsName = FALSE
    LateCompaction = TRUE
    None = None
INVARIANT
    NothingAckedIsLost
CHECK_DEADLOCK FALSE
