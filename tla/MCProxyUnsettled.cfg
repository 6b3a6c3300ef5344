CONSTANTS
    Jobs = {j1}
    PreDeducted = 3
    Actuals <- MCActuals
SPECIFICATION ProxyFairSpec
PROPERTY ReservationSettled
CHECK_DEADLOCK FALSE
