SPECIFICATION Spec
CONSTANTS
    Backends = {"memory", "postgres"}
    Writers = {w1, w2}
    Kinds = {"submit", "requeue"}
    Limit = 2
    StoredTick = 2
    MaxEvents = 4
    MaxTime = 4
SYMMETRY Symmetry
INVARIANTS
    ChainLinked
    HashesVerify
    PagingExact
CHECK_DEADLOCK FALSE
