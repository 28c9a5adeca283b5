SPECIFICATION Spec
CONSTANTS
    MaxDeps = 2
    Attempts = 2
    MaxFaults = 1
    MaxHangups = 1
    MaxLosses = 1
    MaxCancels = 1
    MaxLost = 1
    SlowRequest = TRUE
CHECK_DEADLOCK FALSE
INVARIANTS
    RecordsMatchNode
    SuccessesAreReal
