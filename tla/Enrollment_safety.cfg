SPECIFICATION Spec
CONSTANTS
    Hosts = {h1, h2}
    Names = {n1}
    Deleters = {d1, d2}
    MaxTokens = 2
    MaxRequests = 2
    MaxBeats = 2
    MaxClock = 2
SYMMETRY EnrollmentSymmetry
CHECK_DEADLOCK FALSE
INVARIANTS
    TokensSound
    DeletedIsRevoked
    AgentIsOneServer
    LastSeenIsNewest
PROPERTY TombstoneIsFinal
