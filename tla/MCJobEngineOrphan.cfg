SPECIFICATION FairSpec
CONSTANTS
    j1 = j1  j2 = j2  t1 = t1  t2 = t2  w1 = w1  w2 = w2
    NoWorker = NoWorker
    NoKey = NoKey
    Jobs = {j1}
    Tasks = {t1}
    Workers = {w1, w2}
    JobOf <- OneJobOf
    Deps <- NoDeps
    MaxRetries <- OneRetry
    HasTimeout <- WithTimeout
    Rank <- SameRank
    Eligible <- AllEligible
    Affinity <- PreferW1
    Capacity <- UnitCapacity
    MayDeny = {}
    Preempt = TRUE
    MaxAssign = 1
    MaxAttempt = 2
    Mortal = {w1}
    Faults = {}
PROPERTIES
    OrphansRecovered
