SPECIFICATION Spec
CONSTANTS
    Runners = {r1, r2}
    NoOne = NoOne
    MaxJobs = 3
    MaxRequests = 2
    MaxEpoch = 2
    Requests = {"deploy", "recover_app", "retry", "instance_restart"}
    Overlap = FALSE
    Guarded = FALSE
CHECK_DEADLOCK FALSE
SYMMETRY RunnerSymmetry
INVARIANT TypeOK
INVARIANT WorkerHoldsLease
INVARIANT WriterContained
INVARIANT HeldGuestUntouched
PROPERTY HoldKept
