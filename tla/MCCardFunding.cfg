\* Two fundings of the same or of different amounts, two deliveries at a time.
CONSTANTS
    Fundings = {f, g}
    OnChain = {g}
    Collaterals = {c, d}
    Actors = {a, b}
    Amounts = {2, 3}
    IssuanceFee = 1
    MaxAttempts = 2
    MaxRetries = 1
    MaxFaults = 1
    None = None
SYMMETRY Symmetry
SPECIFICATION Spec
INVARIANTS CreditedOnce FundingBooks IssuanceFeeSettled
CHECK_DEADLOCK FALSE
