--------------------------- MODULE BaselineRanking ---------------------------
(***************************************************************************)
(* The AI service's deterministic scorer (ai-service/app/ranking): what a  *)
(* profile is worth for a requirement, and the order of the candidates.    *)
(* Scores of requirements are in 1/10000 (they are rounded to 4 digits),   *)
(* confidences of requirements in 1/100, a candidate's in 1/1000000.       *)
(* A text is the set of its tokens, skills are normalized names.           *)
(***************************************************************************)
EXTENDS Integers, SequencesExt, FiniteSetsExt

CONSTANTS
    Candidate,    \* ids, in the order of the strings: a set of numbers
    Related,      \* RELATED_SKILLS, from each skill to a set of skills
    Concave,      \* Concave[m][y]: round((y / m) ** 0.6, 4) for y < m
    Level,        \* _language_score of each proficiency
    None          \* Python's None, and a title that is empty

(* 1, as the score of a requirement and as that of a candidate. *)
Unit  == 10000
Whole == 1000000

Scores == 0..Unit
Finals == 0..Whole

(* A request ranks at least one candidate. *)
ASSUME RankingAssumption ==
    Candidate \subseteq Nat /\ IsFiniteSet(Candidate) /\ Candidate # {}

ASSUME LevelAssumption == \A l \in DOMAIN Level : Level[l] \in Scores

ASSUME ConcaveAssumption ==
    /\ DOMAIN Concave \subseteq Nat \ {0}
    /\ \A m \in DOMAIN Concave : Concave[m] \in [0..(m - 1) -> Scores]

ASSUME ConcaveGrows ==
    \A m \in DOMAIN Concave : \A y, z \in 0..(m - 1) : y <= z => Concave[m][y] <= Concave[m][z]

ASSUME NoneAssumption == None \notin Nat

(* Years and weights are whole numbers here. *)
Years == Nat \cup {None}

JobRequirement ==
    [type : {"skill", "experience", "education", "certification", "language", "location", "other"},
     priority : {"must_have", "nice_to_have"}, weight : Nat \ {0}, hard : BOOLEAN,
     skill : STRING, minimum : Years, tokens : SUBSET STRING]

RankingCandidate ==
    [skills : Seq([name : STRING, years : Years, evidence : BOOLEAN]), years : Years,
     educations : Seq(SUBSET STRING), certifications : Seq(SUBSET STRING),
     languages : Seq([tokens : SUBSET STRING, level : DOMAIN Level]),
     title : {None} \cup SUBSET STRING]

(* sorted(): a stable sort. *)
InOrder(s, before(_, _)) ==
    LET first(i, j) == before(s[i], s[j]) \/ (~before(s[j], s[i]) /\ i < j)
        place == [i \in DOMAIN s |-> Cardinality({j \in DOMAIN s : first(j, i)})]
    IN  [k \in DOMAIN s |-> s[CHOOSE i \in DOMAIN s : place[i] = k - 1]]

Status == {"met", "partially_met", "not_found", "unknown"}

Assessment(status, score, confidence) ==
    [status |-> status, score |-> score, confidence |-> confidence]

(* round(unit * n / d) *)
Rounded(unit, n, d) == (2 * unit * n + d) \div (2 * d)

-----------------------------------------------------------------------------
(* _assess *)

(* The first skill of that name, its years against the minimum; else the   *)
(* first related one.                                                      *)
AssessSkill(requirement, profile) ==
    LET exact == SelectInSeq(profile.skills, LAMBDA s : s.name = requirement.skill)
        related == \E s \in ToSet(profile.skills) : s.name \in Related[requirement.skill]
        skill == profile.skills[exact]
        short == /\ requirement.minimum # None /\ skill.years # None
                 /\ skill.years < requirement.minimum
        ratio == Rounded(10000, skill.years, requirement.minimum)
    IN  IF exact # 0 /\ short
        THEN Assessment("partially_met", IF ratio < 2000 THEN 2000 ELSE ratio, 90)
        ELSE IF exact # 0
        THEN Assessment("met", 10000, IF skill.evidence THEN 95 ELSE 65)
        ELSE IF related
        THEN Assessment("partially_met", 5500, 55)
        ELSE Assessment("not_found", 0, 82)

Minimum(requirement) ==
    IF requirement.minimum \in {None, 0} THEN 1 ELSE requirement.minimum

AssessExperience(requirement, profile) ==
    LET minimum == Minimum(requirement)
        beyond == profile.years - minimum
    IN  IF profile.years = None THEN Assessment("unknown", 3500, 45)
        ELSE IF beyond >= minimum THEN Assessment("met", 10000, 80)
        ELSE IF beyond >= 0 THEN Assessment("met", 9200 + Rounded(800, beyond, minimum), 80)
        ELSE Assessment("partially_met", Concave[minimum][profile.years], 80)

(* Share of the expected tokens found in a text. *)
Overlap(expected, text) ==
    IF expected = {} THEN 5000
    ELSE Rounded(10000, Cardinality(expected \cap text), Cardinality(expected))

OfOverlap(score, confidence) ==
    Assessment(IF score >= 5000 THEN "met" ELSE IF score > 0 THEN "partially_met"
               ELSE "not_found", score, confidence)

(* Education and certification: the entry that fits best.                  *)
AssessEntries(requirement, entries) ==
    LET best == Max({Overlap(requirement.tokens, e) : e \in ToSet(entries)})
    IN  IF entries = << >> THEN Assessment("unknown", 3000, 40)
        ELSE OfOverlap(best, IF best > 0 THEN 75 ELSE 50)

AssessLanguage(requirement, profile) ==
    LET matched == SelectInSeq(profile.languages,
                               LAMBDA l : l.tokens \cap requirement.tokens # {})
        score == Level[profile.languages[matched].level]
    IN  IF profile.languages = << >> THEN Assessment("unknown", 3000, 40)
        ELSE IF matched = 0 THEN Assessment("not_found", 0, 70)
        ELSE Assessment(IF score >= 6000 THEN "met"
                        ELSE IF score > 0 THEN "partially_met" ELSE "not_found", score, 80)

AssessTitle(requirement, profile) ==
    IF profile.title = None THEN Assessment("unknown", 3000, 40)
    ELSE OfOverlap(Overlap(requirement.tokens, profile.title), 70)

Assess(requirement, profile) ==
    CASE requirement.type = "skill" -> AssessSkill(requirement, profile)
      [] requirement.type = "experience" -> AssessExperience(requirement, profile)
      [] requirement.type = "education" -> AssessEntries(requirement, profile.educations)
      [] requirement.type = "certification" -> AssessEntries(requirement, profile.certifications)
      [] requirement.type = "language" -> AssessLanguage(requirement, profile)
      [] OTHER -> AssessTitle(requirement, profile)

-----------------------------------------------------------------------------
(* _score_candidate *)

Gap(assessment) == assessment.status # "met"
Failed(assessment) == assessment.status = "not_found"

Eligibility(requirements, assessments) ==
    IF \E k \in DOMAIN requirements : requirements[k].hard /\ Failed(assessments[k])
    THEN "constraint_failed"
    ELSE IF \E k \in DOMAIN requirements :
                requirements[k].priority = "must_have" /\ Gap(assessments[k])
    THEN "potentially_eligible"
    ELSE "eligible"

(* The sum of the scores that are not zero, as if the others had no weight. *)
MutantFinalScore(requirements, assessments) ==
    LET found == {k \in DOMAIN requirements : ~Failed(assessments[k])}
        total == SumFunction([k \in found |-> requirements[k].weight])
        sum == SumFunction([k \in found |-> requirements[k].weight * assessments[k].score])
    IN  IF found = {} THEN 0 ELSE Rounded(100, sum, total)

FinalScore(requirements, assessments) ==
    LET total == SumFunction([k \in DOMAIN requirements |-> requirements[k].weight])
        sum == SumFunction([k \in DOMAIN requirements |->
                               requirements[k].weight * assessments[k].score])
    IN  Rounded(100, sum, total)

Confidence(assessments) ==
    Rounded(10000, SumFunction([k \in DOMAIN assessments |-> assessments[k].confidence]),
            Len(assessments))

ScoreCandidate(requirements, candidate) ==
    LET assessments == [k \in DOMAIN requirements |-> Assess(requirements[k], candidate.profile)]
    IN  [id |-> candidate.id, score |-> FinalScore(requirements, assessments),
         confidence |-> Confidence(assessments),
         eligibility |-> Eligibility(requirements, assessments),
         assessments |-> assessments]

-----------------------------------------------------------------------------
(* rank_candidates *)

(* Ties of score and confidence left to the order of the payload. *)
MutantBefore(x, y) == x.score > y.score \/ (x.score = y.score /\ x.confidence > y.confidence)

Before(x, y) ==
    \/ x.score > y.score
    \/ x.score = y.score /\ x.confidence > y.confidence
    \/ x.score = y.score /\ x.confidence = y.confidence /\ x.id < y.id

(* The results in the order of their ranks. *)
RankCandidates(requirements, payload) ==
    InOrder([k \in DOMAIN payload |-> ScoreCandidate(requirements, payload[k])], Before)

=============================================================================
