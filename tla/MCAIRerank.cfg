SPECIFICATION Spec
CONSTANTS
    Candidate = {1, 2, 3}
    Related <- RelatedSkills
    Concave <- ConcaveCurve
    Level <- Proficiency
    None = None
    Environment <- Environments
    Requirements <- Jobs
    Profile <- Profiles
    Remark <- Remarks
    NoNumber = NoNumber
    NoRemark = NoRemark
CHECK_DEADLOCK FALSE
INVARIANTS
    UploadDecidesTiesOnly
    BetterNeverScoresLess
    ModelOnlyReorders
    ProvidersInTurn
