CONSTANTS
    Body <- MCPaddedBody
    Boundary <- MCBoundary
    MaxBuffer = 8
    AdaptiveTail = 6
    MaxEmpty = 1
    MaxHeaders = 1
SPECIFICATION Spec
INVARIANTS
    SplitIndependent
CHECK_DEADLOCK FALSE
