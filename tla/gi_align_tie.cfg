SPECIFICATION AlignSpec
CONSTANTS
    Feeds <- MCFeeds
    Unnumbered = 99
CHECK_DEADLOCK FALSE
INVARIANTS
    OptimumUnique
