CONSTANTS
    self = self
    light = light
    temp = temp
    Self = self
    Handler = eventLoop
    Updaters = {u1}
    Nodes = {self}
    Params <- OwnParams
    Owner <- OwnOwner
    Indexed <- OwnIndexed
    MaxVal = 1
    MaxTag = 2
    MaxInFlight = 2
    MaxQueued = 1
    MaxFail = 1

SPECIFICATION FairPipeline
INVARIANTS
    NoOwnUpdateForgotten
PROPERTY
    FailedReportRetried
