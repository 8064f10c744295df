SPECIFICATION CachedSpec
CONSTANTS
    TodoID = {i1}
    Title = {t1}
    User = {u1}
    Worker = {w1, w2}
    DeletableUser = {u1}
    Faults = {"failed", "lostReply", "cutShort"}
    NULL = NULL
    Absent = Absent
    NoResult = NoResult
    Failed = Failed
    Deleted = Deleted
    NoList = NoList
SYMMETRY Symmetry
INVARIANTS
    IInv
    SeenBefore
PROPERTY ImplementsStaleStore
