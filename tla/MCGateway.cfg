CONSTANTS
    FailureThreshold = 1
    Cooldown = 1
    a = a
    b = b
    m1 = m1
    Endpoints = {a, b}
    Models = {m1}
    Callers = {r1, r2}
    FirstTable <- OneEndpoint
    Tables <- MCTables
    Streaming = {r1}
    MaxAttempts = 2
    Providers = {"openai"}
    Statuses = {400, 429}
    Usages <- MCUsages
    Generated = {1}
    NoUsage = NoUsage
SPECIFICATION GatewayFairSpec
INVARIANTS
    GatewayTypeOK
    SettledExactlyOnce
    LastCallCharged
    EndpointsTriedOnce
    CancelledStops
PROPERTIES
    EveryRequestAnswered
