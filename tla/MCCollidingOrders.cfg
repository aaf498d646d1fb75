CONSTANTS
    exec = exec
    exit = exit
    buy1 = buy1
    sell1 = sell1
    sell2 = sell2
    Tasks = {exec, exit}
    Keys = {buy1, sell1, sell2}
    KeysOf <- MCKeysOfTwoExits
    ChainCounts <- Prompt
    MaxBroadcasts = 3
    MaxRestarts = 0
SPECIFICATION Spec
INVARIANTS
    NoCollidingOrders
CHECK_DEADLOCK FALSE
