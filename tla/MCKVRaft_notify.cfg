SPECIFICATION Spec
CONSTANTS
    s1 = s1
    s2 = s2
    c1 = c1
    c2 = c2
    k = k
    l1 = l1
    l2 = l2
    Server = {s1, s2}
    Client = {c1, c2}
    Key = {k}
    Letter = {l1, l2}
    First = s1
    Ring <- TwoServers
    Leaders <- ThreeTerms
    Work <- ThreePuts
    Turn <- Between
    MaxIndex = 2
    MaxRaftState = 3
    MaxBusy = 2
    MaxLag = 0
    MaxFaults = 0
CHECK_DEADLOCK FALSE
INVARIANTS
    OKMeansApplied
