CONSTANTS
    m1 = m1
    m2 = m2
    Markets = {m1, m2}
    Quotes <- MCQuotes
    MaxSize = 2
    TimeInterval = 1
    Dedupe = TRUE
    MinInterval = 2
    MidDelta = 2
    SpreadDelta = 1
    Cadence <- MCCadence
    Long = 2
SPECIFICATION Spec
INVARIANTS
    Accounting
    QuarantineHolds
PROPERTIES
    ConsumerServed
    EvaluatedAgain
CHECK_DEADLOCK FALSE
