SPECIFICATION Spec
CONSTANTS
    Runners = {r1, r2, r3}
    NoOne = NoOne
    MaxJobs = 3
    MaxRequests = 1
    MaxEpoch = 2
    Requests = {"deploy"}
    Overlap = FALSE
    Guarded = FALSE
CHECK_DEADLOCK FALSE
SYMMETRY RunnerSymmetry
INVARIANT NoForgottenStop
