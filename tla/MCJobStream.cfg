SPECIFICATION StreamFairSpec
CONSTANTS
    j1 = j1  j2 = j2  t1 = t1  t2 = t2  w1 = w1  w2 = w2
    NoWorker = NoWorker
    NoKey = NoKey
    Jobs = {j1}
    Tasks = {t1, t2}
    Workers = {w1}
    JobOf <- OneJobOf
    Deps <- ChainDeps
    MaxRetries <- OneRetry
    HasTimeout <- WithTimeout
    Rank <- SameRank
    Eligible <- AllEligible
    Affinity <- PreferW1
    Capacity <- UnitCapacity
    MayDeny = {t2}
    Preempt = TRUE
    MaxAssign = 1
    MaxAttempt = 2
    Mortal = {}
    Faults = {}
    Streams = {s1}
    NoJob = NoJob
INVARIANTS
    CompletedStreamsShowTasks
    LastWordHolds
    ResultsStand
PROPERTIES
    JobsFinish
    StreamsEnd
