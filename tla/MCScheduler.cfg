CONSTANTS
    Jobs = {j1, j2}
    MaxConcurrency = 1
    QueueSize = 1
SPECIFICATION FairSpec
INVARIANTS
    TypeOK
    SlotsAccounted
    StopIsFinal
PROPERTIES
    ImplementsJobService
    EverySubmitReturns
    StopEnds
CHECK_DEADLOCK FALSE
