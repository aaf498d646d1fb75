CONSTANTS
    exec = exec
    exit = exit
    buy1 = buy1
    sell1 = sell1
    sell2 = sell2
    Tasks = {exec, exit}
    Keys = {buy1, sell1}
    KeysOf <- MCKeysOf
    ChainCounts <- Any
    MaxBroadcasts = 3
    MaxRestarts = 1
SPECIFICATION Spec
INVARIANTS
    NoncesDistinctPerEpoch
PROPERTIES
    ImplementsLedger
    BroadcastReturns
CHECK_DEADLOCK FALSE
