\* A close that does not wake a blocked thread, as on Linux.
SPECIFICATION FairSpec
CONSTANTS
    c1 = c1
    Conns = {c1}
    MaxMessages = 0
    MaxInbound = 0
    CloseUnblocks = FALSE
PROPERTY AcceptorStops
CHECK_DEADLOCK FALSE
