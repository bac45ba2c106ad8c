CONSTANTS
    s1 = s1
    Senders = {server, background}
    Rows <- MCRows
    PostBatch = 1
    MaxTries = 2
    MaxMishaps = 1
    MaxToggles = 1
    Workers = {producer}
    MaxEvents = 1
    BatchSize = 1
    MaxAttempts = 2
    Malformed = {}
    MaxFaults = 1
    MaxResets = 0
    MaxTroubles = 2

SPECIFICATION WebhooksFairSpec

INVARIANT EndsEarned

PROPERTIES
    EndedStays
    SubscribersServed

CHECK_DEADLOCK FALSE
