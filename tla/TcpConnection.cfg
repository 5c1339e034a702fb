SPECIFICATION FairSpec
CONSTANTS
    c1 = c1
    Conns = {c1}
    Lengths = {1, 2}
    Faults = {"shut", "reset", "lost"}
    Room = 1
    MaxReceived = 1
    MaxSends = 2
    MaxPending = 2
INVARIANTS
    WritingIffPending
    OutputIntact
    FinAfterOutput
PROPERTIES
    EveryByteIsWritten
    ShutdownCompletes
CHECK_DEADLOCK FALSE
