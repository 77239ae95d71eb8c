SPECIFICATION Spec
CONSTANTS
    LastFd = 7
    ControlConns = {3, 4}
    DataConns = {5}
    Neighbours = {1}
    Cuts = {"torn", "unfinished"}
    MaxQueued = 1
INVARIANTS
    TypeOK
    Triage
    AllWatched
    NeverBlocks
    StraysAreCuts
    HopIsPeer
CHECK_DEADLOCK FALSE
