CONSTANTS
    Events = {e1}
    Subscriptions = {s1}
    Wants <- Everything
    Unencodable = {}
    Workers = {w1, w2}
    Admins = {a1, a2}
    None = None
    MaxAttempts = 2
    BaseRetry = 1
    MaxRetry = 2
    LeaseSeconds = 1
    Limit = 2
    MaxAge = 2
    MaxCrashes = 1
SPECIFICATION Spec
SYMMETRY IdSymmetry
INVARIANTS TypeOK AttemptsMatchLog FailureCycle DeliveredOnEvidence RotationsDistinct
PROPERTIES SettledIsFinal
