SPECIFICATION Spec
CONSTANTS
    Request = {r1, r2}
    Client = {c1}
    MaxAttempts = 2
    WindowTime = 2
    CountBound = 4
    Faults = {"expireFails"}
INVARIANT TryAgainInOneMinute
