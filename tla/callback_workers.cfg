SPECIFICATION MCSpec
CONSTANTS
    c1 = c1
    c2 = c2
    p1 = p1
    p2 = p2
    w1 = w1
    e1 = e1
    None = None
    Client <- MCClient
    Allowed <- MCClient
    Webhook <- MCWebhook
    Event <- MCEvent
    Delivery <- MCDelivery
    Hook <- MCHook
    Process = {p1, p2}
    OwnerOf <- OneEach
    Response = {"A", "B"}
    Handler <- MCHandler
    CallbackWorkers = 1
    Change <- MCChange
    MaxUpsets = 0
PROPERTIES
    BackpressureClears
CHECK_DEADLOCK FALSE
