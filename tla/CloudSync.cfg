CONSTANTS
    Filters = {"children"}
    MaxEdits = 1
    MaxQueue = 2
    MaxDrops = 1
    MaxFaults = 1

SPECIFICATION FairSpec
INVARIANTS
    CommittedIsHeld
    GateOpens
PROPERTY
    Synced
CHECK_DEADLOCK FALSE
