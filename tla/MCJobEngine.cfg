SPECIFICATION Spec
CONSTANTS
    j1 = j1  j2 = j2  t1 = t1  t2 = t2  w1 = w1  w2 = w2
    NoWorker = NoWorker
    NoKey = NoKey
    Jobs = {j1, j2}
    Tasks = {t1, t2}
    Workers = {w1, w2}
    JobOf <- TwoJobOf
    Deps <- NoDeps
    MaxRetries <- T1Retry
    HasTimeout <- WithTimeout
    Rank <- J2First
    Eligible <- AllEligible
    Affinity <- FlatAffinity
    Capacity <- UnitCapacity
    MayDeny = {t2}
    Preempt = TRUE
    MaxAssign = 2
    MaxAttempt = 2
    Mortal = {w1, w2}
    Faults = {"restart", "timeout","expiry", "abort", "loss"}
CONSTRAINT TwoWorkersOrTwoJobs
SYMMETRY WorkerSymmetry
INVARIANTS
    TypeOK
    ReadyTasksHaveRefs
    RunningJobsCanProgress
    OneHolderPerAttempt
    AssignedIffLeased
    FailedMeansExhausted
PROPERTIES
    ClosedJobsStayClosed
