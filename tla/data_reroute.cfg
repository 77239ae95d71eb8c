SPECIFICATION Spec
CONSTANTS
    Routers = {1, 2, 3}
    NoHop = NoHop
    Transfers = {1, 2}
    Origin <- From1And2
    Dest <- To3And3
    Size <- ThreeTwo
    InitTTL <- TwoThree
    MaxTTL = 3
    FirstRoute <- DirectRoute
    RouteChoices <- Detours
    MayFail = TRUE
    MaxReroutes = 3
    MaxCrashes = 1
    MaxBuffered = 2
INVARIANTS
    TypeOK
    TTLSparesNone
    AnsweredOnceSent
    StatisticsAgree
PROPERTIES
    KeepsPromises
CHECK_DEADLOCK FALSE
