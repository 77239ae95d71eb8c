SPECIFICATION Spec
CONSTANTS
    TicksPerSecond = 3
    Interval = 3
    Slack = 2
    MaxWait = 2
    Delay = 2
    MaxLosses = 1
    Lag = 11
INVARIANTS
    TypeOK
    KeptInTime
    GivenUpInTime
