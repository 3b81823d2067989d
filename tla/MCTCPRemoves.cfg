SPECIFICATION Spec
CONSTANTS
    c1 = c1
    c2 = c2
    Conns = {c1, c2}
    MaxMessages = 0
    MaxInbound = 0
    CloseUnblocks = TRUE
INVARIANT DisconnectionRemovesClient
CHECK_DEADLOCK FALSE
