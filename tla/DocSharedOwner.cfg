SPECIFICATION Spec
CONSTANTS
    Drains = {d1, d2}
    Runner = rn
    MaxBoots = 1
    MaxRuns = 0
    MaxRequests = 2
    Share = 2
    Guarded = FALSE
CHECK_DEADLOCK FALSE
INVARIANT GuestExcluded
