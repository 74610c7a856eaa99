SPECIFICATION Spec
CONSTANTS
    Tenants = {ta, tb}
    Clients = {c1, c2}
    PerTenantMax = 2
    GlobalMax = 3
    Window = 3
    Skew = 1
    MaxTime = 7
SYMMETRY Symmetry
INVARIANTS
    LimitsHold
PROPERTIES
    RefusalsJustified
CHECK_DEADLOCK FALSE
