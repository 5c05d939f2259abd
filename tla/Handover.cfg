SPECIFICATION Spec
CONSTANTS
    Drains = {d1}
    Runner = rn
    MaxBoots = 2
    MaxRuns = 2
    MaxRequests = 1
    Share = 2
    Guarded = FALSE
CHECK_DEADLOCK FALSE
INVARIANT TypeOK
INVARIANT OneStop
INVARIANT DownIsRecorded
PROPERTY JobsSettle
