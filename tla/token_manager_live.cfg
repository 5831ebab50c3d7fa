SPECIFICATION FairSpec
CONSTANTS
    c1 = c1
    c2 = c2
    l1 = l1
    l2 = l2
    Callers <- MCCallers
    Logins <- MCLogins
    Life = 2
    Margin = 1
    ConsentTTL = 1
    MaxTokens = 3
    MaxNow = 1
    MaxFaults = 1
CHECK_DEADLOCK FALSE
PROPERTIES
    EveryCallAnswered
