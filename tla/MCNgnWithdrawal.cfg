SPECIFICATION Spec
CONSTANTS
    k1 = k1
    k2 = k2
    r1 = r1
    r2 = r2
    r3 = r3
    j1 = j1
    j2 = j2
    j3 = j3
    o1 = o1
    o2 = o2
    Keys = {k1, k2}
    Requests = {r1, r2, r3}
    Jobs = {j1, j2, j3}
    Operators = {o1, o2}
    Tx <- MCTx
    Amount <- MCAmount
    InitialBalance = 2
    MaxAttempts = 2
    MaxFaults = 1
SYMMETRY Symmetry
CHECK_DEADLOCK FALSE
INVARIANTS
    RefundedIsNotPaid
    OneTransferPerKey
    SettledAtRest
PROPERTIES
    TerminalIsFinal
    PayoutSpec
