SPECIFICATION FairSpec
CONSTANTS
    c1 = c1
    io = io
    t1 = t1
    base = base
    Conns = {c1}
    Base = base
    IoLoops = {io}
    Threads = {t1}
    LoopCalls = {"send", "shutdown", "forceClose", "forceCloseWithDelay"}
    ThreadCalls = {"send", "shutdown", "forceClose"}
    Teardown = TRUE
    MaxCalls = 3
    MaxCloses = 2
INVARIANTS
    ChannelAssertsHold
    ThisOutlivesFunctor
    MapAgrees
PROPERTIES
    ClosedIsFreed
    ForceCloseCloses
CHECK_DEADLOCK FALSE
