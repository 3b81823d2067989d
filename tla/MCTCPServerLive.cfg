SPECIFICATION FairSpec
CONSTANTS
    c1 = c1
    c2 = c2
    Conns = {c1, c2}
    MaxMessages = 0
    MaxInbound = 1
    CloseUnblocks = TRUE
PROPERTIES
    DisconnectionHandled
    StopReturnsIfNoticed
CHECK_DEADLOCK FALSE
