CONSTANTS
    m1 = m1
    m2 = m2
    Markets = {m1, m2}
    Threshold = 2
    Loops = {"tracking", "discovery"}
    MaxActive = 2
    Slots = 1
    Failing = {m1}
    MaxConns = 2
SPECIFICATION FeedSpec
INVARIANTS
    ActiveServed
PROPERTIES
    QuarantineLasts
    ServedAgain
    RoundsEnd
