SPECIFICATION Spec
CONSTANTS
    Server = {s1, s2, s3}
    Command = {c1}
    None = None
    MaxTerm = 2
    MaxIndex = 1
    MaxSnapshotIndex = 0
    MaxRestarts = 1
    MaxInFlight <- OneInFlight
SYMMETRY Symmetry
VIEW View
CHECK_DEADLOCK FALSE
INVARIANTS
    VoteInvariant
    ElectionSafety
    PersistedState
    LeaderCompleteness
