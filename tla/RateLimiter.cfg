SPECIFICATION FairSpec
CONSTANTS
    Request = {r1, r2, r3}
    Client = {c1}
    MaxAttempts = 2
    WindowTime = 3
    CountBound = 4
    Faults = {"expireFails", "replyLost", "crash", "redisLoss"}
INVARIANTS
    TypeOK
    QuietWindowClears
    AtMostTwoWindowsPass
PROPERTY LockoutEnds
