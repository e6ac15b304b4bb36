CONSTANTS
    Timers = {oneShot, ticker}
    Periodic = {ticker}
    Callers = {app}
    Dispatch = dispatch
    NULL = NULL
    QueueLen = 1
    CatchUpMax = 2
    MaxSegs = 2
    MaxSeq = 2

CHECK_DEADLOCK FALSE
SPECIFICATION SchedulerSpec
INVARIANTS
    NoUseAfterFree
    NoStaleExpiry
    DueNotLost
