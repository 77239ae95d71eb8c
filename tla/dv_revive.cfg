SPECIFICATION Spec
CONSTANTS
    Routers = {1, 2, 3}
    INF = 7
    Link <- LineLink
    Index <- IndexById
    Shortest <- CheapestPaths
    UpdateCosts = {1}
    Timely = TRUE
    MaxUpdates = 1
    MaxCrashes = 1
    MaxLosses = 0
    MaxInFlight <- OneInFlight
INVARIANT NoRouteViaInactive
