SPECIFICATION Spec
CONSTANTS
    Routers = {1, 2, 3}
    INF = 7
    Link <- HeavyLineLink
    Index <- IndexById
    Shortest <- CheapestPaths
    UpdateCosts = {}
    Timely = TRUE
    MaxUpdates = 0
    MaxCrashes = 1
    MaxLosses = 0
    MaxInFlight <- OneInFlight
INVARIANT NoWrapAround
