SPECIFICATION Spec
CONSTANTS
    Tokens = {"busy", "quiet"}
    Times = {1, 2, 3}
    Days = {"monday", "tuesday"}
    DayOf <- MCDayOf
    Sources <- MCSources
    MaxBuilds = 2
    Results <- MCResults
    MinTrades = 2
    Tolerated = 30
    CostCap = 3
    MaxReplays = 1
INVARIANTS
    DrawdownIsMax
    ReplayedAll
CHECK_DEADLOCK FALSE
