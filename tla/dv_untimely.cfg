SPECIFICATION Spec
CONSTANTS
    Routers = {0, 1, 2}
    INF = 3
    Link <- LineLink
    Index <- IndexById
    Shortest <- CheapestPaths
    UpdateCosts = {}
    Timely = FALSE
    MaxUpdates = 0
    MaxCrashes = 0
    MaxLosses = 0
    MaxInFlight <- TwoFromFirst
INVARIANTS
    TypeOK
    NoRouteViaInactive
    NoUnderestimate
PROPERTIES
    TimeoutIsFinal
