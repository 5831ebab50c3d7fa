SPECIFICATION Spec
CONSTANTS
    c1 = c1
    c2 = c2
    l1 = l1
    l2 = l2
    Callers <- MCCallers
    Logins <- MCLogins
    Life = 3
    Margin = 1
    ConsentTTL = 1
    MaxTokens = 4
    MaxNow = 3
    MaxFaults = 1
SYMMETRY Symmetry
CHECK_DEADLOCK FALSE
INVARIANTS
    TypeOK
    OneOwner
    NoOrphanedCaller
    StoredTokenLive
PROPERTIES
    NoSpuriousReauth
    ServedLife
