CONSTANTS
    Capacity = 2
    BatchSize = 2
    Policies <- AllPolicies
    MaxPublishes = 4
SPECIFICATION Spec
INVARIANTS
    EachEventOnce
PROPERTIES
    CriticalKept
    ImplementsDelivery
    EventsLeave
CHECK_DEADLOCK FALSE
