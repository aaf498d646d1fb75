CONSTANTS
    d1 = d1
    d2 = d2
    Decisions = {d1, d2}
    Books <- TheBooks
    Balances = {0, 100000}
    Outcomes = {"FAILED"}
    MaxOrder = 5000
    Drawdown = 3000
    MaxRestarts = 1
SPECIFICATION Spec
INVARIANTS
    AtMostOneLateBuy
PROPERTIES
    ImplementsTrade
    DrawdownTrips
CHECK_DEADLOCK FALSE
