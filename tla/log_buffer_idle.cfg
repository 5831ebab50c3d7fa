SPECIFICATION Spec
CONSTANTS
    Threshold = 3
    MaxEntries = 6
    MaxFaults = 0
INVARIANT IdleBufferLands
CHECK_DEADLOCK FALSE
