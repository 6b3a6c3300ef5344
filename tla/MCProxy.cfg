CONSTANTS
    Jobs = {j1, j2}
    PreDeducted = 3
    Actuals <- MCActuals
SPECIFICATION ProxyFairSpec
INVARIANTS
    ProxyTypeOK
    SecondSettlementIsRefund
    FinishedIsSettled
PROPERTIES
    RequestEnds
CHECK_DEADLOCK FALSE
