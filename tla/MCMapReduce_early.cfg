SPECIFICATION Spec
CONSTANTS
    Worker = {w1, w2}
    Nobody = Nobody
    NMap = 2
    NReduce = 2
    Emits <- TwoMaps
    MaxCrashes = 0
    MaxSlow = 1
CHECK_DEADLOCK FALSE
INVARIANTS
    ReduceAfterMap
