\* Time for three ordinary commands with a limit of one tick.
SPECIFICATION FairSpec
CONSTANTS
    Inputs <- SomeInputs
    Exempt <- ManualExempt
    Interval = 1
    MaxCommands = 3
    MaxTime = 6
INVARIANTS
    TypeOK
    LastWordIsStop
    TwoPerInterval
PROPERTIES
    ImplementsChannel
    ProgramEnds
CHECK_DEADLOCK FALSE
