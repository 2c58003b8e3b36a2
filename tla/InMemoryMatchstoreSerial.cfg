SPECIFICATION Spec
CONSTANTS
    EndpointIDs = {e1, e2}
    MismatchesKey = mm
    Lists = {l0, l1, l2}
    MismatchesList = l0
    Nil = nil
    Goroutines = {g1}
    MatchesCapacity = 2
    WordSize = 4
    MaxCalls = 6
PROPERTY KeepsPromise
CHECK_DEADLOCK FALSE
