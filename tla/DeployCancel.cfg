SPECIFICATION Spec
CONSTANTS
    Runners = {r1, r2}
    NoOne = NoOne
    MaxJobs = 3
    MaxRequests = 1
    MaxEpoch = 2
    Requests = {"deploy", "cancel"}
    Overlap = FALSE
    Guarded = TRUE
CHECK_DEADLOCK FALSE
SYMMETRY RunnerSymmetry
INVARIANT CancelledNeverStopped
INVARIANT ObligationKept
