\* Two frames, and time for a detection to become out of date.
SPECIFICATION FairSpec
CONSTANTS
    MaxAge = 1
    MaxFrames = 2
    MaxTime = 4
INVARIANTS
    TypeOK
    SoundDetection
PROPERTIES
    NewestFrameSeen
    HandlerReturns
    StopReturnsIfNoticed
CHECK_DEADLOCK FALSE
