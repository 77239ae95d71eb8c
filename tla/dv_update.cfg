SPECIFICATION FairSpec
CONSTANTS
    Routers = {1, 2, 3}
    INF = 9
    Link <- MixedLineLink
    Index <- IndexById
    Shortest <- CheapestPaths
    UpdateCosts = {1, 4, 9}
    Timely = TRUE
    MaxUpdates = 1
    MaxCrashes = 0
    MaxLosses = 0
    MaxInFlight <- OneInFlight
INVARIANTS
    TableCurrent
    TableAsComputed
    RouteWellFormed
    NextHopsDescend
PROPERTIES
    SettlesAfterUpdate
