SPECIFICATION TSpec
CONSTANTS
    Job = {j1, j2, j3}
    Cv = {a, b}
    Request = {r1, r2}
    Limit = 2
    MaxFiles = 2
    NoJob = NoJob
    NoRun = NoRun
    Fixtures = 2
    NoRequest = NoRequest
SYMMETRY Symmetry
INVARIANTS
    StoreConsistent
    RunFaithful
    LostOnlyToOverlap
    SeedIsWhole
