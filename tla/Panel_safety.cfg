SPECIFICATION PanelSpec
CONSTANTS
    MaxRevs = 3
    Appliers = {a1, a2}
    MaxDrains = 2
    MarkErrors = FALSE
    MaxEvents = 2
    MaxTries = 2
    DvLoops = {1, 2}
    MaxDvEdits = 1
    MaxDvFaults = 1
    MaxHooks = 2
    MaxHookTries = 2
    WhLoops = {1, 2}
    MaxWhFaults = 1
    MaxApDeps = 3
    ApRequests = {1, 2}
    ApCommits = {1, 2}
    MaxApFaults = 1
    DnProviders = {1, 2, 3}
    DnRequests = {1, 2}
    DnZones = {1}
    DnRecords = {1, 2}
    MaxDnFaults = 1
    EvClients = {"k1", "k2"}
    EvBuffer = 2
    EvReplay = 2
    EvMaxSubs = 2
    MaxEvEvents = 4
    MaxEvConnects = 4
    UpVersions = {"v1"}
    UpUrls = {"a1", "a2"}
    UpForeign = {"a2"}
    UpJobs = {"j1"}
    UpServers = {"s1", "s2"}
    UpRequests = {1, 2}
    MaxUpEdits = 2
    MaxUpCalls = 2
    MaxUpFaults = 1
INVARIANTS
    OneApplied
    LinearHistory
    DocumentsSound
    DeliveriesAreSound
    HookSentOnce
    
    CredentialsAreKept
    
    CanaryTellsTruth

    
CHECK_DEADLOCK FALSE
