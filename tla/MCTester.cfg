SPECIFICATION FairSpec
CONSTANTS
    Server = {s1, s2}
    Client = {k1}
    Call = {c1}
    MaxStarts = 1
    MaxSettings = 1
CHECK_DEADLOCK FALSE
INVARIANTS
    NoLostUpdate
    OldInstancesSilent
    LinksMatchConnected
PROPERTIES
    CallsReturn
