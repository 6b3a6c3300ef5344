CONSTANTS
    FailureThreshold = 2
    Cooldown = 2
    Calls = {c1, c2, c3}
SPECIFICATION FairSpec
INVARIANTS
    TypeOK
    ClosedIffStreakBelowThreshold
    ProbeSlotOwned
PROPERTIES
    OpenShedsLoad
    EventuallyAdmits
CHECK_DEADLOCK TRUE
