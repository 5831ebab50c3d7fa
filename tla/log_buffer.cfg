SPECIFICATION FairSpec
CONSTANTS
    Threshold = 3
    MaxEntries = 7
    MaxFaults = 2
INVARIANTS
    TypeOK
    NothingDropped
    InOrder
    IdleBufferScheduled
PROPERTIES
    EveryEntryLands
    TrailSpec
CHECK_DEADLOCK FALSE
