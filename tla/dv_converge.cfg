SPECIFICATION FairSpec
CONSTANTS
    Routers = {1, 2, 3}
    INF = 7
    Link <- LineLink
    Index <- IndexById
    Shortest <- CheapestPaths
    UpdateCosts = {}
    Timely = TRUE
    MaxUpdates = 0
    MaxCrashes = 1
    MaxLosses = 1
    MaxInFlight <- OneInFlight
INVARIANTS
    NoFalseTimeout
PROPERTIES
    DetectsPerfectly
    CrashDetected
    Converges
