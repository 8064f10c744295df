SPECIFICATION CachedSpec
CONSTANTS
    TodoID = {i1, i2}
    Title = {t1, t2}
    User = {u1, u2}
    Worker = {w1}
    DeletableUser = {}
    Faults = {}
    NULL = NULL
    Absent = Absent
    NoResult = NoResult
    Failed = Failed
    Deleted = Deleted
    NoList = NoList
SYMMETRY Symmetry
PROPERTY ImplementsStore
