CONSTANTS
    Ids = {"a"}
    NumSlots = 1
    PendMax = 1
    MaxCfg = 3
    Content <- DeviceComesAndGoes
    MaxQueue = 2
    MaxCalls = 4
    MaxFaults = 0
    OnlyChild = "a"
    WideCfg = 3
    WideCalls = 4

SPECIFICATION BridgeSpec
INVARIANT AlreadyInSync
CHECK_DEADLOCK FALSE
