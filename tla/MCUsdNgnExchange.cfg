\* ZeroHash, Paga reporting twice and a retry that races them.
CONSTANTS
    Zh = {z1}
    Yc = {}
    Pg = {g1, g2}
    Retries = {r1}
    Job = job
    Nobody = nobody
    Children = {c1, c2}
    Amount = 1
    InitialBalance = 1
    MaxAttempts = 2
    MaxUpsets = 1
SPECIFICATION Spec
SYMMETRY PgSymmetry
\* Every exchange ends.
CHECK_DEADLOCK FALSE
INVARIANTS
    UsdDebitedOnce
    UsdBooks
    CreditedOncePerPayout
