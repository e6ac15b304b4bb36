CONSTANTS
    Procs = {p1, p2, p3}
    Handles = {t1, t2, t3}
    NULL = NULL
    BaseDelay = 1
    MaxDelay = 4
    ExpFactor = 2
    MaxResets = 2
    Worker = w
    Bits = {1, 2}
    Handlers = {h}
    Capacity = 2
    MaxDepth = 2
    MaxEntries = 4

CHECK_DEADLOCK FALSE
SYMMETRY Symmetry
SPECIFICATION BackoffSpec
INVARIANTS
    OneOwner
    ResetIsFinal
    NoLostWakeup
