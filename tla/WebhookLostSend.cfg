CONSTANTS
    Events = {e1}
    Subscriptions = {s1, s2}
    Wants <- BusinessOnly
    Unencodable = {s2}
    Workers = {w1}
    Admins = {}
    None = None
    MaxAttempts = 1
    BaseRetry = 1
    MaxRetry = 2
    LeaseSeconds = 1
    Limit = 2
    MaxAge = 1
    MaxCrashes = 0
SPECIFICATION Spec
PROPERTIES ReceiversAreIndependent
