CONSTANTS
    Nodes = {n1, n2}
    Amounts = {1}
    MaxCount = 1
    Tenants = {"t1"}
    Calls = {"c1", "c2", "c3"}
    x1 = x1
    x2 = x2
    x3 = x3
    x4 = x4
    sn1 = sn1
    sn2 = sn2
    s1 = s1
    h1 = h1
    h2 = h2
    a1 = a1
    a2 = a2
    j1 = j1
    p1 = p1
    missing = missing
    unread = unread

SPECIFICATION BackOfficeSpec

INVARIANTS
    SerialsTraced
    PipelineBounded
    RegistryTruthful
    PoolAccounted
    BooksSound
    OnboardingSound
    CatalogSound
    PlansAreSound
    RolesSound
    LotsTraced
    CountsAgree

PROPERTY WrittenOffStays

SYMMETRY Symmetry

CHECK_DEADLOCK FALSE
