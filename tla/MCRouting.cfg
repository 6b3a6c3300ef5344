CONSTANTS
    FailureThreshold = 1
    Cooldown = 1
    a = a
    b = b
    m1 = m1
    Endpoints = {a, b}
    Models = {m1}
    Callers = {c1, c2}
    Tables <- MCTables
    FirstTable <- MCFirstTable
    Recovering = {a}
SPECIFICATION RoutingFairSpec
INVARIANTS
    RoutingTypeOK
    ProbeSlotHeld
    UnhealthyOnlyAfterFails
PROPERTIES
    HandedOutServable
    OnlyResultsClose
    RecoveredServesAgain
