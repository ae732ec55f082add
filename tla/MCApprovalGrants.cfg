CONSTANTS
    Decisions = {d1, d2}
    Requests = {r1, r2, r3}
    NoRequest = NoRequest
    LegacyPending = {d2}
    LegacyApproved = {}
    ApprovalTTL = 2
    GrantTTL = 1
    MaxTime = 2
SPECIFICATION Spec
SYMMETRY RequestSymmetry
INVARIANTS TypeOK GrantMatchesApproval ResolvedInWindow ConsumedInWindow OneTokenPerDecision AtMostOnceExecution ConflictAnswersAreFinal AuditExact
PROPERTIES RowsOnlyMoveForward ImplementsLicense
CHECK_DEADLOCK FALSE
