SPECIFICATION Spec
CONSTANTS
    p1 = p1
    p2 = p2
    d1 = d1
    d2 = d2
    d3 = d3
    d4 = d4
    d5 = d5
    Refs = {p1, p2}
    Deliveries = {d1, d2, d3, d4, d5}
    Ref <- MCRef
    Message <- MCMessage
    Amount <- MCAmount
    InitialBalance = 0
    Nobody = Nobody
    LeasesLast = FALSE
SYMMETRY Symmetry
CHECK_DEADLOCK FALSE
INVARIANTS
    CreditedOnce
    AcknowledgedIsCredited
    CompletedIffCredited
    OnlyContradictionsDeadlock
PROPERTIES
    DepositsAreAtomic
