CONSTANTS
    Decisions = {d1}
    Requests = {r1, r2, r3}
    NoRequest = NoRequest
    LegacyPending = {}
    LegacyApproved = {}
    ApprovalTTL = 2
    GrantTTL = 1
    MaxTime = 3
SPECIFICATION Spec
SYMMETRY RequestSymmetry
PROPERTIES ReturnedGrantIsActive
CHECK_DEADLOCK FALSE
