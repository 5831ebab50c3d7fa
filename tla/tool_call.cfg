SPECIFICATION FairSpec
CONSTANTS
    c1 = c1
    Calls <- MCCalls
    MaxRetries = 1
    MaxSaves = 2
    MaxFaults = 2
CHECK_DEADLOCK FALSE
INVARIANTS
    OncePerAttempt
    RepeatedOnlyBlindly
    OffSwitch
    TrailMatchesReply
    EvictionTried
PROPERTIES
    EveryCallEnds
