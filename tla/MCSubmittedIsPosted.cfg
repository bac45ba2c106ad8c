\* Is an onboarding that reads submitted also posted?
CONSTANTS
    Onboardings = {o1}
    Variants = {v1, v2}
    Calls = {c1}
    MaxEntries = 2

SPECIFICATION Spec

INVARIANT SubmittedIsPosted

CHECK_DEADLOCK FALSE
