SPECIFICATION Spec
CONSTANTS
    Lengths <- EdgeLengths
    ChunkSize = 1024
INVARIANTS
    FramesMakeMessage
    LengthsReadBack
CHECK_DEADLOCK FALSE
