SPECIFICATION Spec
CONSTANTS
    Runners = {r1, r2}
    NoOne = NoOne
    MaxJobs = 2
    MaxRequests = 2
    MaxEpoch = 2
    Requests = {"recover_app", "instance_restart"}
    Overlap = TRUE
    Guarded = FALSE
CHECK_DEADLOCK FALSE
SYMMETRY RunnerSymmetry
PROPERTY TerminalStays
PROPERTY LaterClaimPrevails
PROPERTY ImplementsLedger
