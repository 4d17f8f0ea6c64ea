----------------------------- MODULE MCAIRerank -----------------------------
(* Jobs, CVs and answers of a language model for TLC. *)
EXTENDS AIRerank

RelatedSkills == [s \in {"React", "Next.js", "SQL"} |->
    CASE s = "React" -> {"Next.js"} [] s = "Next.js" -> {"React"} [] OTHER -> {"PostgreSQL"}]

(* round((y / m) ** 0.6, 4) *)
ConcaveCurve ==
    1 :> [y \in {0} |-> 0] @@
    8 :> [y \in 0..7 |-> <<0, 2872, 4353, 5552, 6598, 7543, 8415, 9230>>[y + 1]]

Proficiency == "native" :> 10000 @@ "intermediate" :> 6000 @@ "basic" :> 3000

Requirement(type, priority, weight, hard) ==
    [type |-> type, priority |-> priority, weight |-> weight, hard |-> hard,
     skill |-> "React", minimum |-> None, tokens |-> {}]

FrontendJob == <<
    [Requirement("skill", "must_have", 3, TRUE) EXCEPT !.minimum = 4],
    [Requirement("experience", "must_have", 2, FALSE) EXCEPT !.minimum = 8]>>
OfficeJob == <<
    [Requirement("language", "nice_to_have", 1, TRUE) EXCEPT !.tokens = {"english"}],
    [Requirement("education", "must_have", 2, FALSE) EXCEPT !.tokens = {"computer", "science"}],
    [Requirement("certification", "nice_to_have", 1, FALSE) EXCEPT !.tokens = {"aws"}]>>
AnyJob == <<
    [Requirement("other", "nice_to_have", 1, FALSE) EXCEPT !.tokens = {"backend"}],
    [Requirement("skill", "must_have", 1, FALSE) EXCEPT !.skill = "SQL"],
    Requirement("experience", "nice_to_have", 1, FALSE)>>

Jobs == {FrontendJob, OfficeJob, AnyJob}

Empty == [skills |-> << >>, years |-> None, educations |-> << >>,
          certifications |-> << >>, languages |-> << >>, title |-> None]
Has(name, years) == [name |-> name, years |-> years, evidence |-> years # None]

Senior == [Empty EXCEPT !.skills = <<Has("Next.js", 5), Has("React", 5)>>, !.years = 8,
                        !.languages = <<[tokens |-> {"english"}, level |-> "native"]>>,
                        !.educations = <<{"history"}, {"computer", "arts"}>>,
                        !.title = {"backend"}]
Almost == [Senior EXCEPT !.years = 7]
Junior == [Empty EXCEPT !.skills = <<Has("React", 2), Has("SQL", None)>>, !.years = 1,
                        !.languages = <<[tokens |-> {"german"}, level |-> "native"],
                                        [tokens |-> {"english"}, level |-> "basic"]>>,
                        !.educations = <<{"computer", "science"}>>,
                        !.certifications = <<{"aws", "architect"}>>,
                        !.title = {"frontend"}]
Other  == [Empty EXCEPT !.skills = <<Has("Next.js", None), Has("PostgreSQL", 3)>>,
                        !.languages = <<[tokens |-> {"german"}, level |-> "intermediate"]>>,
                        !.educations = <<{"computer", "science"}>>,
                        !.certifications = <<{"driving"}, {"aws"}>>]

(* Two keys that are given twice, and empty places; the limit 0.5 is cut to 0. *)
TwoKeys == [GEMINI_API_KEY |-> <<"k2", "">>, GEMINI_API_KEYS |-> <<"k1", "k2">>,
            numbered |-> 10 :> <<"k2">> @@ 9 :> <<"", "k1">>,
            groq |-> TRUE, limit |-> NoNumber]
NoKeys  == [TwoKeys EXCEPT !.GEMINI_API_KEY = <<"">>, !.GEMINI_API_KEYS = <<"">>,
                           !.numbered = << >>]

Environments == {
    TwoKeys, NoKeys,
    [TwoKeys EXCEPT !.groq = FALSE, !.limit = 100],
    [TwoKeys EXCEPT !.limit = 50],
    [NoKeys EXCEPT !.groq = FALSE]}

Profiles == {Senior, Almost, Junior, Other, Empty}

Remarks == {
    [score |-> 2000000, confidence |-> NoNumber, eligibility |-> "strong", assessments |-> << >>],
    [score |-> 400000, confidence |-> 900000, eligibility |-> "constraint_failed",
     assessments |-> <<-1>>],
    [score |-> NoNumber, confidence |-> 900000, eligibility |-> "eligible", assessments |-> <<12000>>]}

=============================================================================
