SPECIFICATION Spec
CONSTANTS
    Email = {ann}
    Token = {t1, t2, t3}
    Request = {r1, r2, r3}
    NoEmail = NoEmail
    NoToken = NoToken
    NoRequest = NoRequest
SYMMETRY Symmetry
INVARIANTS
    LinksAreSpentOnce
    UnverifiedHasLink
    OneLinkUnlessRaced
    CircleNeedsTwoLinks
