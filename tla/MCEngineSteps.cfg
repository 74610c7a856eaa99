SPECIFICATION Spec
CONSTANTS
    j1 = j1  j2 = j2  t1 = t1  t2 = t2  w1 = w1  w2 = w2  p1 = p1  p2 = p2
    Nobody = Nobody
    Jobs = {j1, j2}
    Tasks = {t1, t2}
    Workers = {w1, w2}
    Threads = {p1, p2}
    Shapes <- AllShapes
    NackLimit = 1
    MaxAssigned = 2
    MaxRefs = 1
INVARIANTS
    ReadyTasksHaveRefs
    RunningJobsCanProgress
    OneHolderPerAttempt
PROPERTIES
    OnlyOldCopiesReopen
CONSTRAINT FewMishaps
SYMMETRY Symmetry
CHECK_DEADLOCK FALSE
