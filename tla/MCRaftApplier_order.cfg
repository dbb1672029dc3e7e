SPECIFICATION Spec
CONSTANTS
    Service = "tester"
    MaxTerm = 2
    MaxIndex = 3
    MaxSnapshots = 0
    MaxStale = 0
    MaxRestarts = 0
CHECK_DEADLOCK FALSE
INVARIANTS
    AppliedInOrder
