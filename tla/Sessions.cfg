SPECIFICATION Spec
CONSTANTS
    Worker = {w1, w2, w3}
    Session = {s1}
    AccessLife = 2
    RefreshLife = 4
    BlockTTL = 4
    Faults = {"redisDown", "redisLoss", "crash"}
INVARIANTS
    TypeOK
    RevokedUntilExpiry
    LogoutEndsAccess
PROPERTY EndedForGood
