SPECIFICATION FairSystemSpec
CONSTANTS
    r1 = r1
    c1 = c1
    Null = Null
    Request <- MCRequest
    Client <- MCClient
    Worker = {w1}
    Token = {t1}
    Code <- OneCode
    Wire <- OnlyWrite
    Valid <- OnlyWrite
    Contents <- OnlyWrite
    MaxEra = 0
    Lingering = FALSE
    MaxLosses = 0
    MaxCalls = 1
    MaxRestarts = 1
    MaxStoreErrors = 0
CHECK_DEADLOCK FALSE
PROPERTIES
    ResumedOperationEnds
