SPECIFICATION FairSpec
CONSTANTS
    Jobs = {j1}
    Terminal <- OneFinal
    None = None
    MaxId = 2
    MaxVer = 4
    MaxSends = 2
    MaxFaults = 1
    MaxNet = 1
INVARIANT NotForgotten
PROPERTY ReportSettled ImplementsReport
CHECK_DEADLOCK FALSE
