SPECIFICATION FairSpec
CONSTANTS
    s1 = s1
    s2 = s2
    c1 = c1
    c2 = c2
    k = k
    l1 = l1
    l2 = l2
    Server = {s1, s2}
    Client = {c1, c2}
    Key = {k}
    Letter = {l1}
    First = s1
    Ring <- TwoServers
    Leaders <- TwoTerms
    Work <- AppendThenGet
    Turn <- InTurn
    MaxIndex = 3
    MaxRaftState = 2
    MaxBusy = 1
    MaxLag = 0
    MaxFaults = 1
CHECK_DEADLOCK FALSE
INVARIANTS
    TypeOK
    
    NotifyNeverBlocks
PROPERTIES
    
    CallsReturn
