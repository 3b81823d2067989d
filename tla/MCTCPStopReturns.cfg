SPECIFICATION FairSpec
CONSTANTS
    c1 = c1
    Conns = {c1}
    MaxMessages = 0
    MaxInbound = 0
    CloseUnblocks = TRUE
PROPERTY StopReturns
CHECK_DEADLOCK FALSE
