CONSTANTS
    shirt = shirt
    cap = cap
    kit = kit
    Variants <- MCVariants
    InitialStock <- MCStock
    Workers = {server, background}
    MaxMessages = 2
    OrderOf <- MCOrderOf
    Lines <- MCLines
    Kits = {kit}
    Components <- MCComponents
    BatchSize = 2
    MaxRetries = 1
    MaxFaults = 1

SPECIFICATION Spec

INVARIANTS
    OrderEndsEarned
    BookedOnce
    OversellBounded

SYMMETRY Symmetry

CHECK_DEADLOCK FALSE
