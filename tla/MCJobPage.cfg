SPECIFICATION PSpec
CONSTANTS
    Job = {j1}
    Cv = {a, b}
    Request = {r1, r2}
    Limit = 1
    MaxFiles = 1
    NoJob = NoJob
    NoRun = NoRun
    NoCv = NoCv
    NoRequest = NoRequest
SYMMETRY Symmetry
INVARIANTS
    DocumentIsOfCv
    ResultIsOfCv
