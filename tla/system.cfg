SPECIFICATION SystemSpec
CONSTANTS
    Routers = {0, 1, 2}
    INF = 3
    Link <- HeavyTriangle
    Index <- IndexById
    Shortest <- CheapestPaths
    UpdateCosts = {}
    Timely = TRUE
    MaxUpdates = 0
    MaxCrashes = 1
    MaxLosses = 0
    MaxInFlight <- OneInFlight
    Transfers = {1}
    Origin <- From0
    Dest <- To2
    Size <- Twos
    InitTTL <- Threes
    MaxTTL = 3
    MaxBuffered = 1
    Crashing = {1}
PROPERTIES
    PinsAreLive
