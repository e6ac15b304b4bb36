CONSTANTS
    Ids = {s}
    Kinds = {"dated", "relative", "weekday", "daily"}
    Day = 1
    MaxTime = 2
    MaxEdits = 2
    MaxQueue = 2
    MaxFaults = 2

SPECIFICATION FairSpec
INVARIANTS
    FiresOnce
    Scheduled
    StoredIsLive
PROPERTIES
    DueFires
CHECK_DEADLOCK FALSE
