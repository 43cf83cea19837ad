SPECIFICATION Spec
CONSTANTS
    Worker = {w1, w2, w3}
    Token = {t1, t2, t3, t4}
    NoToken = NoToken
    RPS = 2
    Concurrency = 2
    MinInterval = 1
    Second = 3
    Hour = 4
    Day = 2
    Timeout = 1
    Margin = 1
    MaxDelay = 1
    MaxClock = 7
SYMMETRY MCSymmetry
INVARIANTS
    LimiterTypeOK
    LimiterInv
    ExchangesWithinConcurrency
    GrantsWithinRate
PROPERTIES
    StartsSpaced
