CONSTANTS
    NoRow = NoRow
    sku1 = sku1
    sku2 = sku2
    loc = loc
    r1 = r1
    r2 = r2
    r3 = r3
    Requests = {r1, r2, r3}
    MaxRetries = 1
    LowStockThreshold = 1
    Keys <- MCKeys
    Commands <- MCCommands
    Locations <- MCLocations
    LocationOf <- MCLocationOf
    Capacity <- MCCapacity
    Catalogued <- MCCatalogued
    InitialItems <- MCInitialItems

SPECIFICATION OrderedSpec

INVARIANTS
    TypeOK
    AllocationCovered
    ConflictsAreForeign
    ReadsAreSnapshots
    LedgerAgrees

PROPERTIES
    Implements
    EveryCallEnds

CHECK_DEADLOCK FALSE
