SPECIFICATION Spec
CONSTANTS
    s1 = s1  s2 = s2  h1 = h1  h2 = h2
    Servers = {s1, s2}
    Handlers = {h1, h2}
    PrefetchBody <- PrefetchRequest
    Sites <- AllSites
    MaxSeq = 1
    MaxRestarts = 1
INVARIANTS
    StoredJobsRunnable
    InstallFirst
    AcceptedJobsQueued
    JobQuotaNearlyHolds
    AdmittedJobsAssignable
PROPERTIES
    JobsAreKept
SYMMETRY Symmetry
CHECK_DEADLOCK FALSE
