CONSTANTS
    Users = {u1}
    Requests = {r1, r2, r3}
    Limit = 2
    Window = 2
    Expiry = 2
    Bucket = 2
    MaxJitter = 1
    DefaultBalance = 5
    Estimates = {2}
    Actuals <- MCActuals
    Missing = Missing
    MaxTime = 3
    MaxLosses = 1
SYMMETRY Symmetry
SPECIFICATION Spec
INVARIANTS
    TypeOK
    TakenMatchesStage
    LossIsBounded
    NoOverdraft
    Conserved
PROPERTIES
    RefusalJustified
CHECK_DEADLOCK FALSE
