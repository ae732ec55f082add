CONSTANTS
    Events = {e1}
    Subscriptions = {s1}
    Wants <- BusinessOnly
    Unencodable = {}
    Workers = {w1}
    Admins = {a1, a2}
    None = None
    MaxAttempts = 1
    BaseRetry = 1
    MaxRetry = 1
    LeaseSeconds = 1
    Limit = 1
    MaxAge = 1
    MaxCrashes = 0
SPECIFICATION Spec
INVARIANTS DisabledHasNoQueuedWork
