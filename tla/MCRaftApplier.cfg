SPECIFICATION FairSpec
CONSTANTS
    Service = "kvraft"
    MaxTerm = 3
    MaxIndex = 2
    MaxSnapshots = 1
    MaxStale = 1
    MaxRestarts = 1
CHECK_DEADLOCK FALSE
INVARIANTS
    BatchIntact
    NothingSkipped
    RequestIntactInTerm
PROPERTIES
    AppliesCommitted
