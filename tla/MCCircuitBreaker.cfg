\* Two withdrawals at a time, over and over.
CONSTANTS
    Calls = {a, b}
    Window = 2
    MinAttempts = 2
    OpenDuration = 1
    HalfOpenMax = 1
    OpenedTtl = 2
    StateTtl = 4
    MaxDelay = 1
SPECIFICATION FairBreakerSpec
PROPERTIES
    OpensOnFailures
    Recovers
