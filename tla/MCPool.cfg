CONSTANTS
    FailureThreshold = 1
    Cooldown = 1
    a = a
    b = b
    m1 = m1
    Endpoints = {a, b}
    Models = {m1}
    Callers = {c1, c2, c3}
    FirstTable <- MCFirstTable
    Tables = {}
SYMMETRY Symmetry
SPECIFICATION PoolSpec
INVARIANTS
    PoolTypeOK
    WRRBounded
PROPERTIES
    PoolImplementsBreakers
