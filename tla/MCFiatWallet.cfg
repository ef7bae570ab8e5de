SPECIFICATION Spec
CONSTANTS
    c1 = c1
    c2 = c2
    c3 = c3
    t1 = t1
    t2 = t2
    Callers = {c1, c2, c3}
    Runners = {}
    NoOwner = NoOwner
    Ttl = 2
    RetryCount = 2
    Amount <- MCAmount
    TxOf <- MCTxOf
    OuterTrx = {c3}
    InitialBalance = 2
CHECK_DEADLOCK FALSE
INVARIANTS
    NoLostUpdate
    ReportMatchesEffect
PROPERTIES
    AccountSpec
