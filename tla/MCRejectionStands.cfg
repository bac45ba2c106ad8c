CONSTANTS
    Petitions = {p1}
    Deciders = {d1, d2}
    Required <- MCRequired
    MaxSweeps = 0
    MaxToggles = 0

SPECIFICATION ApprovalSpec

PROPERTY RejectionStands

CHECK_DEADLOCK FALSE
