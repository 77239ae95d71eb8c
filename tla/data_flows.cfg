SPECIFICATION FairSpec
CONSTANTS
    Routers = {1, 2, 3}
    NoHop = NoHop
    Transfers = {1, 2}
    Origin <- From1And1
    Dest <- To3And2
    Size <- TwoThree
    InitTTL <- ThreeThree
    MaxTTL = 3
    FirstRoute <- LineRoute
    RouteChoices <- NoChoice
    MayFail = FALSE
    MaxReroutes = 0
    MaxCrashes = 0
    MaxBuffered = 2
PROPERTIES
    SupportsFlows
CHECK_DEADLOCK FALSE
