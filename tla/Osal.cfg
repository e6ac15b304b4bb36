CONSTANTS
    Delays = {5, 20, 50, 70, 89}
    TickRate = 100
    MaxTicks = 3
    Slack = 1
    Skew = 1
    Modes = {TRUE, FALSE}
    CatchUpMax = 3
    MaxLate = 2
    Horizon = 28
    Tasks = {t1}
    Topics = {a}
    MaxSubs = 1
    PoolSize = 2
    MaxOps = 2
    MaxCalls = 3
    MaxBreaks = 2

CHECK_DEADLOCK FALSE
SPECIFICATION OsalSpec
INVARIANTS
    NeverEarly
    NoneLost
    BelievedIsSubscribed
PROPERTIES
    AcceptedCompletes
