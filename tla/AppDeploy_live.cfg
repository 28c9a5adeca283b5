SPECIFICATION FairSpec
CONSTANTS
    MaxDeps = 3
    Attempts = 2
    MaxFaults = 0
    MaxHangups = 0
    MaxLosses = 0
    MaxCancels = 0
    MaxLost = 1
    SlowRequest = FALSE
CHECK_DEADLOCK FALSE
INVARIANT EndedJobUnblocks
PROPERTY DeploymentsEnd
