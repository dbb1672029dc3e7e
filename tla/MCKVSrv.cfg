SPECIFICATION FairSpec
CONSTANTS
    Client = {c1, c2}
    Key = {k1}
    Letter = {x, y}
    MaxOps = 2
CHECK_DEADLOCK FALSE
INVARIANTS
    RemembersOnlyPending
PROPERTIES
    Linearizable
    
