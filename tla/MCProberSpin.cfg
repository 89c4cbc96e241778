SPECIFICATION Spec
CONSTANTS
    Settings <- MCSettings
    Interval = 2
    Timeout = 6
    Slack = 1
    InFlightCeiling = 2
    Numeric = TRUE
    Endpoints = {"e1"}
    Sendable = {"e1"}
    NoEndpoint = "none"
    ResolveTtl = 4
    BackoffBase = 1
    BackoffMax = 3
    Subscribers = {"s"}
    ReplyLife = 6
    MaxTime = 8
INVARIANTS SleepsUntilDue
