SPECIFICATION Spec
CONSTANTS
    Content = {a, b}
    Resume = {n1, n2, n3}
    Job = {j1, j2}
    Request = {r1, r2}
    MaxFiles = 2
    NoContent = NoContent
    NoResume = NoResume
    NoJob = NoJob
SYMMETRY Symmetry
INVARIANTS
    StoredFilesHaveObjects
    AnswersTrue
PROPERTIES
    DuplicatesOnlyByRace
