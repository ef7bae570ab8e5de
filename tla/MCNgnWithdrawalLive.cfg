SPECIFICATION FairSpec
CONSTANTS
    k1 = k1
    k2 = k2
    r1 = r1
    r2 = r2
    r3 = r3
    j1 = j1
    j2 = j2
    j3 = j3
    o1 = o1
    o2 = o2
    Keys = {k1, k2}
    Requests = {r1, r3}
    Jobs = {j1, j3}
    Operators = {o1}
    Tx <- MCTx
    Amount <- MCAmount
    InitialBalance = 2
    MaxAttempts = 2
    MaxFaults = 0
CHECK_DEADLOCK FALSE
PROPERTIES
    EventuallySettled
