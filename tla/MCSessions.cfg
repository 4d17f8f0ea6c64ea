SPECIFICATION Spec
CONSTANTS
    m1 = m1
    m2 = m2
    u1 = u1
    u2 = u2
    Token = {t1, t2, t3}
    Request = {r1, r2}
    Member = {m1}
    User = {u1}
    UserOf <- OneMember
    Registered = {}
    Lifetime = {1}
    Grace = 0
    MaxTime = 2
    NoToken = NoToken
    NoRequest = NoRequest
    NoMember = NoMember
SYMMETRY SafetySymmetry
INVARIANTS
    OneLivePerFamily
    RotationChain
PROPERTIES
    RevocationIsFinal
    ImplementsStore
