SPECIFICATION MCSpec
CONSTANTS
    c1 = c1
    c2 = c2
    c3 = c3
    k1 = k1
    k2 = k2
    None = None
    Client <- MCClient
    Allowed <- MCAllowed
    Webhook <- MCWebhook
    Delivery <- MCCommand
    Menu <- MCMenu
    MaxCalls = 2
    MaxFaults = 2
INVARIANTS
    ControlTypeOK
    ControlInv
PROPERTIES
    KeepsRegistry
    CallEnds
CHECK_DEADLOCK FALSE
