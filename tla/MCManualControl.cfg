\* Two operators and three messages at most.
SPECIFICATION FairSpec
CONSTANTS
    o1 = o1
    o2 = o2
    Operators <- Pair
    CloseUnblocks = TRUE
    MaxMessages <- Limit
INVARIANTS
    TypeOK
    QueuedInOrder
    OnlyOrphansRemain
PROPERTIES
    CommandsArrive
    OperatorsAreServed
    ProgramEnds
CHECK_DEADLOCK FALSE
