SPECIFICATION Spec
CONSTANTS
    c1 = c1
    c2 = c2
    Conns = {c1, c2}
    MaxMessages = 2
    MaxInbound = 0
    CloseUnblocks = TRUE
SYMMETRY Symmetry
INVARIANTS
    TypeOK
    TasksTargetLive
    LaunchTargetsAccepted
    StopOncePerConnection
    StopLeavesNothingRunning
    WireFraming
    UndisturbedWriteReachesAll
PROPERTY DestroyedOnlyAfterJoin
CHECK_DEADLOCK FALSE
