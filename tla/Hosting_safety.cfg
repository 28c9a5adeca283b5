SPECIFICATION HostingSpec
CONSTANTS
    MaxOps = 5
    Keep = 3
    Serial = TRUE
    MaxFaults = 1
    MaxCancels = 1
    MaxCrashes = 1
    MaxSiteRevs = 3
    SiteConfigs = {1, 2, 3}
    BadConfigs = {3}
    MaxSiteAttempts = 2
    MaxSiteFaults = 1
    SiteActorCases = {TRUE, FALSE}
    MaxDbUsers = 2
    MaxDbDumps = 1
    MaxDbAttempts = 2
    MaxDbFaults = 1
    MaxDbClock = 1
    BkSize = 3
    MaxBkMinute = 1
    BkKeep = 1
    MaxBkAttempts = 2
    MaxBkRequests = 1
    MaxBkFaults = 1
    NextRunCases = {TRUE}
INVARIANTS
    FilesAreSound
    AnswersAreTrue
    
    
    
    
    
CHECK_DEADLOCK FALSE
