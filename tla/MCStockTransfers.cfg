CONSTANTS
    NoRow = NoRow
    Unread = Unread
    sku = sku
    here = here
    there = there
    t1 = t1
    t2 = t2
    Skus <- MCSkus
    Locations <- MCLocations
    Transfers = {t1, t2}
    Source <- MCSource
    Destination <- MCDestination
    Lines <- MCLines
    Requests = {r1, r2, r3}
    InitialItems <- MCInitialItems
    MaxSales = 1
    LowStockThreshold = 1

SPECIFICATION Spec

INVARIANTS
    StockConserved
    InTransitIsOwed
    TransfersTraced

SYMMETRY Symmetry

CHECK_DEADLOCK FALSE
