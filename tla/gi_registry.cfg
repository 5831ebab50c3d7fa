SPECIFICATION MCSpec
CONSTANTS
    r1 = r1
    r2 = r2
    u1 = u1
    i1 = i1
    Requests <- MCRequests
    Users <- MCUsers
    UserOf <- MCUserOf
    Isolates <- MCIsolates
    Exposed = {0}
    Parametric = {0}
    Fresh = 1
    MaxDesign = 1
    MaxNow = 1
    MaxClears = 1
    MaxFaults = 1
SYMMETRY Symmetry
INVARIANTS
    TypeOK
    ClearTakesEffect
    UngatedOnlyAfterMiss
CHECK_DEADLOCK FALSE
