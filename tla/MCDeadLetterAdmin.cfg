SPECIFICATION RequeueSpec
CONSTANTS
    Refs = {r1, r2}
    NoRef = NoRef
    Clients = {c1, c2}
    MaxBatch = 2
    ConfirmAt = 2
    RateLimit = 2
    Window = 2
    Skew = 1
    MaxDead = 5
    MaxSeconds = 3
SYMMETRY Symmetry
INVARIANTS
    RequeueRateHolds
    DryRunExact
CHECK_DEADLOCK FALSE
