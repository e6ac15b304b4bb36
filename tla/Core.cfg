CONSTANTS
    App = app
    Worker = worker
    QueueSize = 3
    MaxCalls = 7
    Ids = {i1, i2}
    Keys = {k1, k2}
    None = None
    Pieces = 2
    MaxCmds = 7
    MaxClaimFaults = 2
    Images = {a, b, c}
    Md5 = {a, c}
    Hashed = {a}
    Resumable = {a, c}
    N = 3
    PerRequest = 2
    Factor = 3
    Word = 16
    MaxQueue = 2
    MaxStarts = 2
    MaxFaults = 1

CHECK_DEADLOCK FALSE
SPECIFICATION LifeSpec
INVARIANTS
    TeardownAlone
    StartedIsUp
    ClaimedIsWhole
    CommandHasContext
    WholeImage
