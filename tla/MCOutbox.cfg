CONSTANTS
    Workers = {server, background}
    MaxEvents = 2
    BatchSize = 2
    MaxAttempts = 2
    Malformed = {2}
    MaxFaults = 1
    MaxResets = 1

SPECIFICATION FairSpec

INVARIANTS
    OutcomesEarned
    DeliveredOnce

PROPERTIES
    SettledStays
    EventsSettle

CHECK_DEADLOCK FALSE
