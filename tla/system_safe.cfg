SPECIFICATION SystemSpec
CONSTANTS
    r1 = r1
    c1 = c1
    Null = Null
    Request <- MCRequest
    Client <- MCClient
    Worker = {w1}
    Token = {t1}
    Code <- MCCode
    Wire <- MCWire
    Valid <- MCWire
    Contents <- MCWire
    Lingering = TRUE
    MaxEra = 1
    MaxLosses = 0
    MaxCalls = 2
    MaxRestarts = 1
    MaxStoreErrors = 1
INVARIANTS
    SystemTypeOK
    SystemInv
    SentOnlyIfAccepted
    DeliveredMeansSaved
    CompleteMeansDelivered
PROPERTIES
    SavedResponseStands
    QueueSpec
CHECK_DEADLOCK FALSE
