SPECIFICATION CachedSpec
CONSTANTS
    TodoID = {i1}
    Title = {t1}
    User = {u1}
    Worker = {w1}
    DeletableUser = {}
    Faults = {"failed"}
    NULL = NULL
    Absent = Absent
    NoResult = NoResult
    Failed = Failed
    Deleted = Deleted
    NoList = NoList
SYMMETRY Symmetry
INVARIANT ListHasAllTodos
