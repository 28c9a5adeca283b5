SPECIFICATION FleetSpec
CONSTANTS
    WrServers = {1, 2}
    WrCalls = {1, 2}
    WrOps = {"metrics", "deploy", "lifecycle"}
    WrLimit = 1
    MaxWrMoves = 1
    MaxWrFaults = 1
    HaServers = {"s1", "s2"}
    HaMemberIds = {"m1", "m2"}
    HaRequests = {1}
    MaxHaEdits = 2
    MaxHaFaults = 1
    AlTimes = 2
    AlIncidents = {1, 2}
    AlDuration = 1
    AlMaxRows = 1
    AlCutoff = 1
    AlCadence = 2
    MaxAlEdits = 1
    MaxAlFaults = 1
    Users = {1}
    MaxCreds = 2
    MaxSsNow = 2
    MaxSessions = 1
    SsSlots = {1, 2}
    Threshold = 1
    MaxSsEdits = 1
    MaxSsFaults = 1
    StProcs = {"c1", "c2"}
    StVersions = 2
    StKeys = 2
    MaxStarts = 3
    SvRequests = {1, 2}
INVARIANTS
    OutcomeIsTrue
    PassTellsTruth
    
    
    BootSound
    AnswersAreWhole
CHECK_DEADLOCK FALSE
