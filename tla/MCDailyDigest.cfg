CONSTANTS
    MaxUpsets = 3
    PageSize = 2
    MaxPages = 2
    UnresolvedLimit = 2
SPECIFICATION DigestSpec
INVARIANTS
    LifecycleTold
PROPERTIES
    DigestCovers
    StateTold
CHECK_DEADLOCK FALSE
