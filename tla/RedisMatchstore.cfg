SPECIFICATION Spec
CONSTANTS
    p1 = p1  p2 = p2  p3 = p3  i1 = i1  i2 = i2
    Keys = {k1, k2}
    Procs <- ThreeProcs
    Instances <- TwoInstances
    Instance <- InstanceOf
    Capacity = 3
    MaxCalls = 6
    MaxDeletes = 1
    MaxFaults = 2
INVARIANTS TypeOK CapacityBound NewestKept CountExact RetentionBound
SYMMETRY Symmetry
CHECK_DEADLOCK FALSE
