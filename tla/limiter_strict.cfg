SPECIFICATION Spec
CONSTANTS
    Worker = {w1, w2}
    Token = {t1, t2, t3, t4}
    NoToken = NoToken
    RPS = 3
    Concurrency = 2
    MinInterval = 2
    Second = 2
    Hour = 4
    Day = 4
    Timeout = 1
    Margin = 2
    MaxDelay = 2
    MaxClock = 7
SYMMETRY MCSymmetry
PROPERTIES
    PermitsSpaced
