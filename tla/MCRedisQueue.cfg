SPECIFICATION Spec
CONSTANTS
    Refs = {r1}
    Clients = {c1, c2}
    DeadLetterMax = 2
    MaxBatch = 2
    MaxCopies = 2
    MaxReceipts = 2
    MaxBreaks = 1
    NoCopy = NoCopy
SYMMETRY Symmetry
INVARIANTS
    RefsLostOnlyInHands
    NoDuplicateBeforeTimeout
    ClaimsAreSwept
CHECK_DEADLOCK FALSE
