\* A base of 4: eight bits stand for thirty-two.
SPECIFICATION Spec
CONSTANTS
    Scenes <- SomeScenes
    JoyValues <- SomeJoyValues
    Base = 4
INVARIANTS
    TypeOK
    TurnsToBottle
    OffCentreNeverStops
CHECK_DEADLOCK FALSE
