SPECIFICATION Spec
CONSTANTS
    Request = {r1}
    Worker = {w1, w2, w3}
    Token = {t1, t2, t3, t4}
    c1 = c1
    c2 = c2
    Client = {c1, c2}
    Code <- MCCode
    Wire <- MCWire
    Null = Null
    MaxEra = 1
SYMMETRY MCSymmetry
INVARIANTS
    TypeOK
    IInv
    OneExchange
    SendsWithinPolicy
    SaveNeverRefused
    OneResponse
    ResultHasDelivery
PROPERTIES
    NoSendAfterAnswer
    FinishedIsFinal
    KeepsPromise
