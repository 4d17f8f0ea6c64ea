SPECIFICATION Spec
CONSTANTS
    Person = {p1, p2}
    Invitation = {i1, i2}
    Request = {r1, r2}
    MaxLink = 2
    NoPerson = NoPerson
    NoInvitation = NoInvitation
    NoRequest = NoRequest
SYMMETRY Symmetry
INVARIANTS
    OnePendingEach
PROPERTIES
    AdminsLostOnlyToRaces
    JoinsByLiveInvitation
CHECK_DEADLOCK FALSE
