SPECIFICATION Spec
CONSTANTS
    Lengths <- EdgeLengths
    ChunkSize = 1024
INVARIANTS
    EveryLengthReadsBack
CHECK_DEADLOCK FALSE
