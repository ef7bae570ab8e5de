\* ZeroHash and YellowCard, whose handlers take the two locks in opposite orders, and a retry.
CONSTANTS
    Zh = {z1}
    Yc = {y1}
    Pg = {}
    Retries = {r1}
    Job = job
    Nobody = nobody
    Children = {c1, c2}
    Amount = 1
    InitialBalance = 1
    MaxAttempts = 1
    MaxUpsets = 1
SPECIFICATION FairSpec
CHECK_DEADLOCK FALSE
PROPERTIES
    CompletedStays
    EveryDeliveryEnds
