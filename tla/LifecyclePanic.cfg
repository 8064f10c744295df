SPECIFICATION Spec
CONSTANTS
    Request = {r1}
    Call = {c1}
    Stream = {s1}
    Faults = {}
INVARIANT StopsGracefully
CHECK_DEADLOCK FALSE
