SPECIFICATION FairSpec
CONSTANTS
    Worker = {w1, w2}
    Nobody = Nobody
    NMap = 2
    NReduce = 3
    Emits <- TwoMaps
    MaxCrashes = 1
    MaxSlow = 1
CHECK_DEADLOCK FALSE
INVARIANTS
    TypeOK
    CompleteMapHasFiles
    CountsExact
    OutputComplete
PROPERTIES
    JobFinishes
    WorkersExit
