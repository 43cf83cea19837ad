SPECIFICATION Spec
CONSTANTS
    Request = {r1}
    Worker = {w1}
    Token = {t1}
    c1 = c1
    c2 = c2
    Client = {c1}
    Code <- MCCode
    Wire <- MCOnce
    Null = Null
    MaxEra = 1
PROPERTIES
    UndeliveredKept
