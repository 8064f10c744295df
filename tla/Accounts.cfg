SPECIFICATION Spec
CONSTANTS
    Worker = {w1, w2}
    UserID = {u1, u2}
    Username = {n1, n2}
    Email = {e1, e2}
    Password = {p1, p2}
    Faults = {"panic"}
    Absent = Absent
    Nobody = Nobody
SYMMETRY Symmetry
INVARIANTS
    TypeOK
    CredentialsWork
    ProtectedNeedsToken
    SameDoors
    TransportsAgree
