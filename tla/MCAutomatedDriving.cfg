\* Three frames; a detection may be used again one tick later, not two.
SPECIFICATION FairSpec
CONSTANTS
    CloseUnblocks = TRUE
    DetectionDuration = 2
    CommandDuration = 1
    MaxCalls = 3
    MaxTime = 2
INVARIANTS
    TypeOK
    SteersByLatest
    ReuseIsYoung
    OnlyLossTerminates
PROPERTIES
    DriverFollows
    ProgramEnds
CHECK_DEADLOCK FALSE
