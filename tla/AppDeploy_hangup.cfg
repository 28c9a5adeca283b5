SPECIFICATION Spec
CONSTANTS
    MaxDeps = 2
    Attempts = 2
    MaxFaults = 0
    MaxHangups = 1
    MaxLosses = 0
    MaxCancels = 0
    MaxLost = 0
    SlowRequest = FALSE
CHECK_DEADLOCK FALSE
INVARIANT EnqueueFailureUnblocks
