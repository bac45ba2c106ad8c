CONSTANTS
    NoRow = NoRow
    key = key
    o1 = o1
    o2 = o2
    Keys <- MCKeys
    Orders = {o1, o2}
    Lines <- MCLines
    Requests = {r1, r2, r3}
    InitialItems <- MCInitialItems
    MaxSales = 1
    Deciders = {d1}
    Required <- MCOneVote
    MaxSweeps = 1
    MaxToggles = 1
    LowStockThreshold = 1

SPECIFICATION Spec

INVARIANTS
    InTransitIsOrdered
    OrdersTraced

SYMMETRY Symmetry

CHECK_DEADLOCK FALSE
