SPECIFICATION Spec
CONSTANTS
    j1 = j1  j2 = j2  w1 = w1  w2 = w2  w3 = w3  k1 = k1  k2 = k2
    NoOne = NoOne
    Jobs = {j1, j2}
    Workers = {w1, w2}
    LockKeys = {k1, k2}
    Steps = {}
    JobLocks <- MCJobLocks
    JobKey <- MCNoKeys
    JobPriority <- MCPriority
    WorkerTypes <- MCTypes
    AttemptBound = 2
    MaxAttempts <- MCAttempts
    MaxFaults = 0
    Timely = FALSE
SYMMETRY WorkerSymmetry
INVARIANTS
    LocksSound
    LeaseFencesAttempt
    AttemptHistory
PROPERTIES
    TerminalIsFinal
    ImplementsQueue
