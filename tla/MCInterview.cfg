SPECIFICATION ISpec
CONSTANTS
    MaxSaid = 2
    Call = {c1, c2}
    None = None
    Past = Past
SYMMETRY Symmetry
CHECK_DEADLOCK FALSE
INVARIANTS
    ShownIsOfThisInterview
    AnswersAreEvaluated
    BusyWhileWorking
    TranscriptComplete
