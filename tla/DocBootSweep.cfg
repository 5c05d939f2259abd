SPECIFICATION Spec
CONSTANTS
    Drains = {d1}
    Runner = rn
    MaxBoots = 2
    MaxRuns = 0
    MaxRequests = 1
    Share = 2
    Guarded = FALSE
CHECK_DEADLOCK FALSE
PROPERTY JobsSettle
