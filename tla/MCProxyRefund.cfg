CONSTANTS
    Jobs = {j1}
    PreDeducted = 3
    Actuals <- MCActuals
SPECIFICATION ProxyFairSpec
INVARIANT NeverRefundedTwice
CHECK_DEADLOCK FALSE
