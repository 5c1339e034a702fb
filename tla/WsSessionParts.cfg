SPECIFICATION Spec
CONSTANTS
    InParts = TRUE
    MayFail = FALSE
    MaxSegments = 2
    MaxFrames = 1
    MaxSends = 0
INVARIANTS
    HandshakeHasContext
CHECK_DEADLOCK FALSE
