SPECIFICATION FairSpec
CONSTANTS
    m1 = m1
    m2 = m2
    u1 = u1
    u2 = u2
    Token = {t1, t2}
    Request = {r1, r2}
    Member = {m1, m2}
    User = {u1}
    UserOf <- OneUser
    Registered = {m1}
    Lifetime = {1}
    Grace = 0
    MaxTime = 0
    NoToken = NoToken
    NoRequest = NoRequest
    NoMember = NoMember
INVARIANTS
    InactiveMemberHoldsNoSession
PROPERTIES
    RequestsFinish
