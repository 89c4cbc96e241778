SPECIFICATION FairSpec
CONSTANTS
    Settings <- MCSettings
    Interval = 2
    Timeout = 5
    Slack = 1
    InFlightCeiling = 3
    Numeric = FALSE
    Endpoints = {"e1", "e2"}
    Sendable = {"e1"}
    NoEndpoint = "none"
    ResolveTtl = 4
    BackoffBase = 1
    BackoffMax = 3
    Subscribers = {"s"}
    ReplyLife = 6
    MaxTime = 7
INVARIANTS TypeOK JudgedOnce InFlightOrdered NothingOverdue
PROPERTIES NoCatchUpBurst CatchesUp
