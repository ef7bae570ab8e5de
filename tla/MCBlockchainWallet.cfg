\* Two transfers, of which a deposit must cover the second, and two deposits.
CONSTANTS
    Requests = {r1, r2}
    Deposits = {d1, d2}
    Handlers = {h1, h2}
    Nobody = nobody
    Amount = 1
    InitialBalance = 1
    MaxFaults = 1
SYMMETRY Symmetry
SPECIFICATION Spec
INVARIANTS
    WalletBooks
    SentWasTaken
PROPERTIES
    AccountSpec
