SPECIFICATION Spec
CONSTANTS
    EndpointIDs = {e1}
    MismatchesKey = mm
    Lists = {l0, l1, l2}
    MismatchesList = l0
    Nil = nil
    Goroutines = {g1, g2, g3}
    MatchesCapacity = 2
    WordSize = 8
    MaxCalls = 5
INVARIANTS TypeOK CapacityBound ReadsAllOrNothing
SYMMETRY Symmetry
CHECK_DEADLOCK FALSE
