SPECIFICATION MCSpec
CONSTANTS
    f1 = f1
    f2 = f2
    b1 = b1
    b2 = b2
    u1 = u1
    u2 = u2
    r1 = r1
    r2 = r2
    s1 = s1
    s2 = s2
    s3 = s3
    Flows <- MCFlows
    NoFlow = NoFlow
    Browsers <- MCBrowsers
    Users <- MCUsers
    Requests <- MCRequests
    MaxLag = 1
    Visitors <- MCRequests
    Sessions <- MCSessions
    NoSession = NoSession
    Threshold = 2
    MaxWrong = 6
    MaxWindows = 1
    MaxStale = 1
    Contents <- MCContents
    BatchSize = 2
    PageSize = 2
    MaxObjects = 3
    MaxFiles = 4
    MaxSearches = 2
    Hosts <- MCHosts
    Feeds <- MCFeeds
    Unnumbered = 99
    Worlds <- MCWorlds
    Excluded <- MCExcluded
    DefaultTop = 2
    Lists <- MCLists
    DefaultRows = 2
SYMMETRY Symmetry
CHECK_DEADLOCK FALSE
INVARIANTS
    BrowserBound
    OwnTokenServed
    OneGrantPerLogin
    LockoutExact
    LockoutBounded
    RevokedStayDead
    AlignmentTruthful
    NeverUnfiltered
    BareRowsComplete
    PreflightHonest
    PagesMissNothing
