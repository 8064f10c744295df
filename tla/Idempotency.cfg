SPECIFICATION Spec
CONSTANTS
    Request = {r1, r2, r3}
    Key = {k1, k2}
    TodoID = {i1, i2, i3}
    Title = {t1}
    User = {u1}
    Faults = {"redisDown", "lostReply", "expire", "crash"}
    NULL = NULL
    Absent = Absent
    NoRecord = NoRecord
    NoAnswer = NoAnswer
    Error = Error
SYMMETRY Symmetry
INVARIANTS
    TypeOK
    OneTodoPerKey
    AnswersAgree
PROPERTY ImplementsOnce
