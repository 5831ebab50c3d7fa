SPECIFICATION MCSpec
CONSTANTS
    r1 = r1
    r2 = r2
    u1 = u1
    i1 = i1
    Requests <- MCRequests
    Users <- MCUsers
    UserOf <- MCUserOf
    Isolates <- MCIsolates
    Exposed = {0}
    Parametric = {0}
    Fresh = 1
    MaxDesign = 1
    MaxNow = 0
    MaxClears = 0
    MaxFaults = 0
SYMMETRY Symmetry
PROPERTY
    NoFlap
CHECK_DEADLOCK FALSE
