CONSTANTS
    Petitions = {p1, p2}
    Deciders = {d1, d2, d3, d4}
    Required <- MCRequired
    MaxSweeps = 2
    MaxToggles = 1

SPECIFICATION ApprovalSpec

INVARIANTS
    ApprovedByEveryStep
    PendingStepsCarried

SYMMETRY Symmetry

CHECK_DEADLOCK FALSE
