SPECIFICATION CachedSpec
CONSTANTS
    TodoID = {i1}
    Title = {t1}
    User = {u1}
    Worker = {w1, w2, w3}
    DeletableUser = {u1}
    Faults = {}
    NULL = NULL
    Absent = Absent
    NoResult = NoResult
    Failed = Failed
    Deleted = Deleted
    NoList = NoList
SYMMETRY Symmetry
INVARIANTS
    TypeOK
    ItemCoherence
    ListCoherence
    HeldIsCurrent
PROPERTY ImplementsStaleStore
