SPECIFICATION FairSpec
CONSTANTS
    Refs = {r1, r2}
    NackLimit = 2
    MaxBatch = 2
    MaxCopies = 2
    MaxReceipts = 4
INVARIANTS
    NoCopyInTwoPlaces
    NoCopyLost
PROPERTIES
    ImplementsTaskQueue
CHECK_DEADLOCK FALSE
