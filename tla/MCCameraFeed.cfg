\* Three datagrams of any kind, pictures that expire after two ticks.
SPECIFICATION FairSpec
CONSTANTS
    CloseUnblocks = TRUE
    Expiry = 2
    MaxDatagrams = 3
    MaxTime = 4
INVARIANTS
    TypeOK
    ShowsTheNewest
    WaitsOnlyWhenStale
    FirstFailureEndsFeed
PROPERTIES
    PicturesAreShown
CHECK_DEADLOCK FALSE
