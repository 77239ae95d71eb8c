SPECIFICATION FairSpec
CONSTANTS
    Routers = {1, 2, 3}
    NoHop = NoHop
    Transfers = {1, 2, 3}
    Origin <- OneWayAndBack
    Dest <- ThereAndBack
    Size <- Twos
    InitTTL <- Threes
    MaxTTL = 3
    FirstRoute <- LineRoute
    RouteChoices <- LinkReturns
    MayFail = FALSE
    MaxReroutes = 1
    MaxCrashes = 1
    MaxBuffered = 1
INVARIANTS
    QueuedIsWatched
PROPERTIES
    Completes
    Recovers
CHECK_DEADLOCK FALSE
