CONSTANTS
    Body <- MCBody
    Boundary <- MCBoundary
    MaxBuffer = 8
    AdaptiveTail = 6
    MaxEmpty = 1
    MaxHeaders = 1
SPECIFICATION FairSpec
INVARIANTS
    SplitIndependent
    DelimitersFound
    FinalIsStrict
PROPERTIES
    AbortedNeverEnds
    CallsAnswered
CHECK_DEADLOCK FALSE
