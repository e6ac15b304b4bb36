CONSTANTS
    Ids = {"a", "b"}
    NumSlots = 1
    PendMax = 1
    MaxCfg = 3
    Content <- DeviceComesAndGoes
    MaxQueue = 2
    MaxCalls = 4
    MaxFaults = 1
    OnlyChild = "a"
    WideCfg = 2
    WideCalls = 3

SPECIFICATION BridgeSpec
INVARIANTS
    ReadyIsKnown
    
    NothingStranded
CHECK_DEADLOCK FALSE
