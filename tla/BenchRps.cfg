SPECIFICATION LiveSpec
CONSTANTS
    Workers = {w1, w2}
    w1 = w1
    w2 = w2
    Msgs = 3
    BufLines = 2
    SockLines = 1
INVARIANTS TotalCoversDelivered
PROPERTIES Reported
CHECK_DEADLOCK FALSE
