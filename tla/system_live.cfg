SPECIFICATION FairSystemSpec
CONSTANTS
    r1 = r1
    c1 = c1
    Null = Null
    Request <- MCRequest
    Client <- MCClient
    Worker = {w1}
    Token = {t1}
    Code <- MCCode
    Wire <- LiveWire
    Valid <- OnlyRead
    Contents <- LiveWire
    MaxEra = 0
    Lingering = FALSE
    MaxLosses = 1
    MaxCalls = 1
    MaxRestarts = 0
    MaxStoreErrors = 0
PROPERTIES
    OperationEnds
CHECK_DEADLOCK FALSE
