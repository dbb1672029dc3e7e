SPECIFICATION ConflictSpec
CONSTANTS
    Server = {s1, s2, s3}
    Command = {c1}
    None = None
    MaxTerm = 4
    MaxIndex = 2
    MaxSnapshotIndex = 0
    MaxRestarts = 0
    MaxInFlight <- TwoOfFirstLeader
SYMMETRY Symmetry
VIEW View
CHECK_DEADLOCK FALSE
INVARIANTS
    LogMatching
    CommittedAgreement
    MatchIndexTruthful
    BackoffSound
    NextIndexInRange
PROPERTIES
    CommittedStable
