SPECIFICATION Spec
CONSTANTS
    c1 = c1
    Conns = {c1}
    Lengths = {3}
    Faults = {}
    Room = 2
    MaxReceived = 1
    MaxSends = 1
    MaxPending = 1
INVARIANTS
    WireInOrder
CHECK_DEADLOCK FALSE
