SPECIFICATION Spec
CONSTANTS
    c1 = c1
    io = io
    t1 = t1
    base = base
    Conns = {c1}
    Base = base
    IoLoops = {io}
    Threads = {t1}
    LoopCalls = {}
    ThreadCalls = {"forceClose"}
    Teardown = FALSE
    MaxCalls = 1
    MaxCloses = 1
INVARIANTS
    RemovedOnce
CHECK_DEADLOCK FALSE
