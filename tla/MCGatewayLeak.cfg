CONSTANTS
    FailureThreshold = 1
    Cooldown = 1
    a = a
    b = b
    m1 = m1
    Endpoints = {a, b}
    Models = {m1}
    Callers = {r1, r2}
    FirstTable <- OneEndpoint
    Tables <- OneMistyped
    Streaming = {r1}
    MaxAttempts = 2
    Providers = {"openai"}
    Statuses = {}
    Usages <- MCUsages
    Generated = {1}
    NoUsage = NoUsage
SPECIFICATION GatewayFairSpec
PROPERTIES
    ProbeSlotComesFree
