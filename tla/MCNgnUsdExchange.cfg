\* Two executions of one exchange; YellowCard and ZeroHash report twice.
CONSTANTS
    Jobs = {j1, j2}
    Yc = {y1, y2}
    Zh = {z1}
    Rows = {r1, r2}
    Nobody = nobody
    InitialBalance = 2
    MaxAttempts = 2
    MaxFaults = 1
SYMMETRY Symmetry
SPECIFICATION Spec
\* Every exchange ends.
CHECK_DEADLOCK FALSE
INVARIANTS
    NgnSentOnce
    NgnRefundedOnce
    NgnAccounted
    UsdFollowsRows
