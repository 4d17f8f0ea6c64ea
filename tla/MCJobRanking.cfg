SPECIFICATION Spec
CONSTANTS
    l1 = l1
    l2 = l2
    List <- Lists
    Empty = Empty
    Candidate = {c1, c2}
    Run = {n1, n2}
    Request = {r1, r2}
    MaxVersion = 3
    NoRequest = NoRequest
SYMMETRY Symmetry
INVARIANTS
    SnapshotFaithful
    VersionNumberFree
PROPERTIES
    ImplementsHistory
