CONSTANTS
    NoRow = NoRow
    NoRma = NoRma
    None = None
    part = part
    bolt = bolt
    box = box
    m1 = m1
    m2 = m2
    m3 = m3
    r1 = r1
    r2 = r2
    r3 = r3
    Variants <- MCVariants
    Rmas = {m1, m2, m3}
    Expected <- MCExpected
    UnitCost <- MCUnitCost
    KitVariant = box
    DefaultCost = 6
    Requests = {r1, r2, r3}
    Commands <- MCCommands
    MaxCrashes = 1
    InitialLayers <- MCLayers
    InitialItems <- MCItems
    InitialRmas <- MCRmas
    InitialQuarantine <- MCQuarantine
    InitialLedger <- MCLedger
    InitialKit <- MCKit
    LowStockThreshold = 1

SPECIFICATION Spec

INVARIANTS
    LayersTrackStock
    ValueIsBooked
    CountedCameIn
    QuarantineAccounted

SYMMETRY Symmetry

CHECK_DEADLOCK FALSE
