SPECIFICATION Spec
CONSTANTS
    Runners = {r1, r2}
    NoOne = NoOne
    MaxJobs = 2
    MaxRequests = 1
    MaxEpoch = 2
    Requests = {"instance_restart"}
    Overlap = FALSE
    Guarded = FALSE
CHECK_DEADLOCK FALSE
SYMMETRY RunnerSymmetry
INVARIANT NeverReplayed
