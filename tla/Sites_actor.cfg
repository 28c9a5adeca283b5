SPECIFICATION SiteSpec
CONSTANTS
    MaxSiteRevs = 3
    SiteConfigs = {1, 2, 3}
    BadConfigs = {3}
    MaxSiteAttempts = 2
    MaxSiteFaults = 1
    SiteActorCases = {FALSE}
INVARIANT ValidCandidateApplies
CHECK_DEADLOCK FALSE
