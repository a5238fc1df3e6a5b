SPECIFICATION Spec
CONSTANTS
    eco = eco
    full = full
    Blocks = {1, 2}
    Parts = 2
    Modes = {eco, full}
    Batch <- MCBatch
    Starts <- MCStarts
    Handlers = {h1}
    None = None
INVARIANT
    EndedSearchIsNotRunning
CHECK_DEADLOCK FALSE
