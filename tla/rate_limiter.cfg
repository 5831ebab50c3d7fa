SPECIFICATION FairSpec
CONSTANTS
    c1 = c1
    c2 = c2
    c3 = c3
    m1 = m1
    m2 = m2
    m3 = m3
    m4 = m4
    Calls <- MCCalls
    Maps <- MCMaps
    NoMap = NoMap
    MaxConcurrent = 2
    MaxPerMinute = 1
    MaxMinute = 1
    MaxPassed = 1
    MaxAged = 1
INVARIANTS
    TypeOK
    SlotsBounded
    CapWithoutQueue
    CapUnlessSloppy
PROPERTIES
    NoFalseBusy
    NoFalseThrottle
    EveryCallDecided
CHECK_DEADLOCK FALSE
