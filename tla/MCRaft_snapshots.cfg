SPECIFICATION BehindSpec
CONSTANTS
    Server = {s1, s2, s3}
    Command = {c1}
    None = None
    MaxTerm = 3
    MaxIndex = 3
    MaxSnapshotIndex = 2
    MaxRestarts = 0
    MaxInFlight <- OneInFlight
SYMMETRY Symmetry
VIEW View
CHECK_DEADLOCK FALSE
INVARIANTS
    LogShape
    RequestShape
    MatchIndexTruthful
    CommittedAgreement
