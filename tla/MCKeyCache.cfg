CONSTANTS
    r1 = r1
    r2 = r2
    c1 = c1
    c2 = c2
    c3 = c3
    Replicas = {r1, r2}
    Callers = {c1, c2, c3}
    Home <- MCHome
    KeyStatuses = {"none", "active"}
    UserStatuses = {"none", "suspended"}
    NullTTL = 1
    TTL = 2
    MaxJitter = 1
    LockTTL = 1
    MaxDelay = 1
SPECIFICATION KeyFairSpec
INVARIANTS
    KeyTypeOK
    AnswersAreRecent
PROPERTIES
    EveryLookupReturns
