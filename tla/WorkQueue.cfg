CONSTANTS
    Producers = {p1}
    Workers = {w1, w2}
    App = app
    QueueSize = 2
    MaxLife = 2
    MaxResets = 4
    MaxQueue = 3
    MaxInits = 3
    MaxFaults = 1
    Images = {a}
    None = None
    Md5 = {a}
    Hashed = {a}
    Resumable = {a}
    N = 3
    PerRequest = 2
    Factor = 3
    Word = 16
    MaxWork = 2
    MaxStarts = 2

SPECIFICATION CommonSpec
INVARIANTS
    AtMostOneWorker
    NoStaleEntryRuns
    RollbackKeepsHost
PROPERTIES
    StopCompletes
    ArmedRuns
    NotStranded
    DownloadEnds
