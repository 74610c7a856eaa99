SPECIFICATION Spec
CONSTANTS
    w1 = w1  w2 = w2
    Workers = {w1, w2}
    Tasks = {1, 2, 3}
    Setups <- AllSetups
    HTTPTries = 2
INVARIANTS
    AggregationsTrue
    LoadFailuresHaveCause
    InstalledModelsWhole
    OutputsComplete
PROPERTIES
    RunsEnd
CHECK_DEADLOCK FALSE
