SPECIFICATION LockerFairSpec
CONSTANTS
    c1 = c1
    c2 = c2
    c3 = c3
    Callers = {c1, c2, c3}
    Runners = {c3}
    NoOwner = NoOwner
    Ttl = 2
    RetryCount = 2
CHECK_DEADLOCK FALSE
INVARIANTS
    MutexWithinLease
    ReportedMeansNoIntruder
    NoSpuriousLoss
PROPERTIES
    OnlyOwnerReleases
    EveryCallEnds
