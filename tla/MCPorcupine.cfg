SPECIFICATION FairSpec
CONSTANTS
    Key <- TwoKeys
    Pools <- OneOrTwoKeys
    MaxOps = 3
    MaxTime = 3
    Modes <- TestModes
    Width = 2
CHECK_DEADLOCK FALSE
INVARIANTS
    AnswerCorrect
    SearchConsistent
    LongestIsLongest
PROPERTIES
    CheckReturns
