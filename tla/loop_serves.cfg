SPECIFICATION FairSpec
CONSTANTS
    LastFd = 7
    ControlConns = {3, 4}
    DataConns = {5}
    Neighbours = {}
    Cuts = {"torn"}
    MaxQueued = 1
PROPERTIES
    ReadyForControllers
CHECK_DEADLOCK FALSE
