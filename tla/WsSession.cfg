SPECIFICATION FairSpec
CONSTANTS
    InParts = TRUE
    MayFail = TRUE
    MaxSegments = 4
    MaxFrames = 2
    MaxSends = 2
INVARIANTS
    ClosedIsNotReread
    ResponseFirst
    LoopSilentAfterClose
    CloseAnsweredIfIdle
PROPERTIES
    CloseCloses
CHECK_DEADLOCK FALSE
