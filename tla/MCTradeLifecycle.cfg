CONSTANTS
    d1 = d1
    p1 = p1
    p2 = p2
    Decisions = {d1}
    Prices = {p1, p2}
    Outcomes = {"CONFIRMED", "REVERTED", "FAILED"}
    MaxRestarts = 1
SPECIFICATION Spec
INVARIANTS
    OneAttempt
PROPERTIES
    SettledOnce
    ClosedForGood
    DecisionsEnd
    ExitPassEnds
CHECK_DEADLOCK FALSE
