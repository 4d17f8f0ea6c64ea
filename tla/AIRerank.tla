------------------------------ MODULE AIRerank ------------------------------
(***************************************************************************)
(* rankJob of the ranking demo (frontend/app/api/ranking-test): the AI     *)
(* service ranks the candidates (BaselineRanking), then a language model   *)
(* may rank them again: Gemini with each of its keys in turn, else Groq    *)
(* with up to three attempts, else the baseline stays.  Candidate ids are  *)
(* distinct here; module DemoStore says when they are.                     *)
(***************************************************************************)
EXTENDS BaselineRanking

CONSTANTS
    Environment,  \* the settings of the process, see env
    Requirements, \* the jobs: sequences of requirements
    Profile,      \* what CVs contain
    Remark,       \* what a model may answer about a candidate
    NoNumber,     \* a value that is no finite number
    NoRemark      \* nothing about a candidate

ASSUME RequirementsAssumption ==
    /\ Requirements \subseteq Seq(JobRequirement) \ {<< >>}
    /\ \A r \in UNION {ToSet(job) : job \in Requirements} :
         /\ IsFiniteSet(r.tokens)
         /\ r.type = "experience" => Minimum(r) \in DOMAIN Concave

ASSUME InputsAssumption ==
    /\ Profile \subseteq RankingCandidate
    /\ NoRemark \notin Remark
    /\ \A r \in Remark :
         /\ {r.score, r.confidence} \subseteq Int \cup {NoNumber}
         /\ \A k \in DOMAIN r.assessments : r.assessments[k] \in Int \cup {NoNumber}
    /\ \A e \in Environment :
         /\ {e.GEMINI_API_KEY, e.GEMINI_API_KEYS} \subseteq Seq(STRING)
         /\ DOMAIN e.numbered \subseteq Nat /\ IsFiniteSet(DOMAIN e.numbered)
         /\ \A n \in DOMAIN e.numbered : e.numbered[n] \in Seq(STRING)
         /\ e.groq \in BOOLEAN
         /\ e.limit \in Int \cup {NoNumber}

VARIABLES
    requirements, payload,     \* the job, and its candidates
    env,                       \* the environment variables: the keys in those of
                               \* Gemini, whether Groq's is set, and the limit on
                               \* candidates in hundredths
    pc,
    cursor, attempt,           \* startCursor, and attempts of the provider
    baseline,                  \* the answer of the AI service
    outcome, result,           \* which ranking is saved
    answer,                    \* history: the answer that was used
    tried, refused             \* history: keys tried; Groq gave up or is not there

inputs == <<requirements, payload, env>>
vars   == <<inputs, pc, cursor, attempt, baseline, outcome, result, answer, tried, refused>>

Entry == [id : Candidate, profile : Profile]
Ids(s) == {s[k].id : k \in DOMAIN s}

(* The keys of all variables, the numbered ones by their number, each key  *)
(* once.                                                                   *)
geminiKeys ==
    LET numbers == InOrder(SetToSeq(DOMAIN env.numbered), <)
        all == env.GEMINI_API_KEY
                 \o FlattenSeq([k \in DOMAIN numbers |-> env.numbered[numbers[k]]])
                 \o env.GEMINI_API_KEYS
        first == {k \in DOMAIN all : all[k] # "" /\ \A j \in 1..(k - 1) : all[j] # all[k]}
        kept == InOrder(SetToSeq(first), <)
    IN  [k \in DOMAIN kept |-> all[kept[k]]]

(* Which provider the page says will rank. *)
aiRerankStatus ==
    IF geminiKeys # << >> THEN "gemini" ELSE IF env.groq THEN "groq" ELSE "none"

(* Without a number above 0 it is 25; a number below 1 is cut to 0.        *)
aiCandidateLimit ==
    IF env.limit = NoNumber \/ env.limit <= 0 THEN 25
    ELSE IF env.limit < 20100 THEN env.limit \div 100 ELSE 200

(* The best of the baseline are sent to the model. *)
Sent(ranking) ==
    SubSeq(ranking, 1, IF Len(ranking) < aiCandidateLimit THEN Len(ranking) ELSE aiCandidateLimit)

(* An answer may have a remark on each candidate, those that were not sent *)
(* too: the code looks up all of the baseline in it.  Remarks on no one's  *)
(* id are dropped.                                                         *)
Answer == [Ids(payload) -> Remark \cup {NoRemark}]

Eligibilities == {"eligible", "potentially_eligible", "constraint_unknown", "constraint_failed"}

IsResult(x) ==
    /\ x.id \in Ids(payload)
    /\ x.score \in Finals /\ x.confidence \in Finals
    /\ x.eligibility \in Eligibilities
    /\ \A k \in DOMAIN x.assessments : x.assessments[k].score \in Scores

TypeOK ==
    /\ requirements \in Requirements
    /\ payload \in Seq(Entry) /\ Cardinality(Ids(payload)) = Len(payload)
    /\ env \in Environment /\ refused \in BOOLEAN
    /\ pc \in {"score", "gemini", "groq", "ended"}
    /\ cursor \in 0..Len(geminiKeys) /\ attempt \in Nat
    /\ pc = "gemini" => attempt < Len(geminiKeys)
    /\ pc = "groq" => attempt < 3
    /\ outcome \in {"none", "error", "gemini", "groq", "baseline"}
    /\ \A s \in {baseline, result} : \A k \in DOMAIN s : IsResult(s[k])
    /\ tried \in Seq(ToSet(geminiKeys))

Init ==
    /\ requirements \in Requirements
    /\ \E profiles \in [Candidate -> Profile] :
         payload = [k \in 1..Cardinality(Candidate) |->
                       LET c == SetToSeq(Candidate)[k] IN [id |-> c, profile |-> profiles[c]]]
    /\ env \in Environment /\ refused = ~env.groq
    /\ pc = "score"
    /\ cursor = 0 /\ attempt = 0
    /\ baseline = << >> /\ outcome = "none" /\ result = << >>
    /\ answer = [c \in Ids(payload) |-> NoRemark]
    /\ tried = << >>

-----------------------------------------------------------------------------
(* buildAIRankingResponse; texts, and the statuses and confidences of the   *)
(* single requirements, are left out.                                      *)

(* clampScore *)
Clamped(value, fallback, one) ==
    IF value = NoNumber THEN fallback
    ELSE IF value < 0 THEN 0 ELSE IF value > one THEN one ELSE value

(* normalizeEligibility *)
Eligible(value, fallback) == IF value \in Eligibilities THEN value ELSE fallback

(* No fallback to the baseline for those the answer does not mention. *)
MutantMerged(x, remark) ==
    IF remark = NoRemark THEN [x EXCEPT !.score = 0] ELSE
    [x EXCEPT !.score = Clamped(remark.score, x.score, Whole)]

Merged(x, remark) ==
    IF remark = NoRemark THEN x ELSE
    [x EXCEPT !.score = Clamped(remark.score, x.score, Whole),
              !.confidence = Clamped(remark.confidence, x.confidence, Whole),
              !.eligibility = Eligible(remark.eligibility, x.eligibility),
              !.assessments = [k \in DOMAIN x.assessments |->
                  IF k \notin DOMAIN remark.assessments THEN x.assessments[k]
                  ELSE [x.assessments[k] EXCEPT !.score =
                           Clamped(remark.assessments[k], x.assessments[k].score, Unit)]]]

(* The baseline's place decides between equals: x comes before y. *)
RerankBefore(x, y) ==
    LET place(z) == CHOOSE k \in DOMAIN baseline : baseline[k].id = z.id
    IN  \/ x.score > y.score
        \/ x.score = y.score /\ x.confidence > y.confidence
        \/ x.score = y.score /\ x.confidence = y.confidence /\ place(x) < place(y)

Reranked(a) ==
    InOrder([k \in DOMAIN baseline |-> Merged(baseline[k], a[baseline[k].id])], RerankBefore)

-----------------------------------------------------------------------------
End(o, s) == pc' = "ended" /\ outcome' = o /\ result' = s

(* The next provider that is configured; without one, or without anybody   *)
(* to send, the baseline stays.                                            *)
AskGroq ==
    IF env.groq /\ Sent(baseline') # << >>
    THEN pc' = "groq" /\ attempt' = 0 /\ UNCHANGED <<outcome, result>>
    ELSE End("baseline", baseline') /\ UNCHANGED attempt

Score ==
    /\ pc = "score"
    /\ baseline' = RankCandidates(requirements, payload)
    /\ IF geminiKeys = << >> \/ Sent(baseline') = << >> THEN AskGroq /\ UNCHANGED cursor
       ELSE /\ pc' = "gemini" /\ attempt' = 0
            /\ cursor' \in 0..(Len(geminiKeys) - 1)
            /\ UNCHANGED <<outcome, result>>
    /\ UNCHANGED <<inputs, answer, tried, refused>>

(* The AI service fails: the request ends with 502. *)
ScoreFails ==
    /\ pc = "score"
    /\ End("error", << >>)
    /\ UNCHANGED <<inputs, cursor, attempt, baseline, answer, tried, refused>>

(* The same key again and again. *)
MutantCurrentKey == geminiKeys[1 + cursor]

CurrentKey == geminiKeys[1 + ((cursor + attempt) % Len(geminiKeys))]

Use(provider, a) ==
    /\ End(provider, Reranked(a))
    /\ answer' = a
    /\ UNCHANGED <<inputs, cursor, attempt, baseline, refused>>

GeminiAnswers(a) ==
    /\ pc = "gemini"
    /\ tried' = Append(tried, CurrentKey)
    /\ Use("gemini", a)

(* An error, an answer without text, without JSON or without results.      *)
GeminiFails ==
    /\ pc = "gemini"
    /\ UNCHANGED <<inputs, cursor, baseline, answer, refused>>
    /\ tried' = Append(tried, CurrentKey)
    /\ IF attempt + 1 < Len(geminiKeys)
       THEN attempt' = attempt + 1 /\ UNCHANGED <<pc, outcome, result>>
       ELSE AskGroq

GroqAnswers(a) ==
    /\ pc = "groq"
    /\ Use("groq", a)
    /\ UNCHANGED tried

(* HTTP 429, no connection, or no JSON. *)
GroqRetries ==
    /\ pc = "groq"
    /\ attempt < 2
    /\ attempt' = attempt + 1
    /\ UNCHANGED <<inputs, pc, cursor, baseline, outcome, result, answer, tried, refused>>

(* Any other error and an empty answer are final, the third one always is. *)
GroqFails ==
    /\ pc = "groq"
    /\ End("baseline", baseline)
    /\ refused' = TRUE
    /\ UNCHANGED <<inputs, cursor, attempt, baseline, answer, tried>>

Next ==
    \/ Score \/ ScoreFails
    \/ GeminiFails \/ GroqRetries \/ GroqFails
    \/ \E a \in Answer : GeminiAnswers(a) \/ GroqAnswers(a)

Spec == Init /\ [][Next]_vars

-----------------------------------------------------------------------------
Ahead(s, c, d) ==
    \E k, l \in DOMAIN s : k < l /\ s[k].id = c /\ s[l].id = d
Of(s, c) == s[CHOOSE k \in DOMAIN s : s[k].id = c]

(* The CVs in another order: the one at p[k] is uploaded at k. *)
Uploaded(p) == [k \in DOMAIN payload |-> [payload[k] EXCEPT !.profile = payload[p[k]].profile]]

Ranked == outcome \in {"gemini", "groq", "baseline"}

(* README: the ranking is "deterministic".  The order in which candidates  *)
(* are sent to the service does not matter.  Ids are places in the upload, *)
(* so uploading the same CVs in another order gives them other ids: then   *)
(* two CVs change places only if they score the same with the same         *)
(* confidence, and their ids, by which equals are ordered, changed places. *)
UploadDecidesTiesOnly ==
    baseline # << >> /\ ~Ranked =>
        \A p \in Bijection(DOMAIN payload, DOMAIN payload) :
            LET again == RankCandidates(requirements, Uploaded(p))
            IN  /\ RankCandidates(requirements, [k \in DOMAIN payload |-> payload[p[k]]]) = baseline
                /\ \A k, l \in DOMAIN payload :
                     LET c == payload[p[k]].id  d == payload[p[l]].id
                     IN  Ahead(baseline, c, d) /\ Ahead(again, payload[l].id, payload[k].id) =>
                           /\ Of(baseline, c).score = Of(baseline, d).score
                           /\ Of(baseline, c).confidence = Of(baseline, d).confidence
                           /\ c < d /\ payload[l].id < payload[k].id

OfYears(requirement, y) == AssessExperience(requirement, [years |-> y]).score

(* More years score no less, but for those that reach the minimum: 7 of 8  *)
(* years score more than 8 (baseline.py:160).  Even they leave no less     *)
(* than the 0.92 of whoever has just the minimum.                          *)
MoreYearsNeverHurt(requirement) ==
    \A y, z \in 0..(2 * Minimum(requirement)) :
        y <= z => \/ OfYears(requirement, y) <= OfYears(requirement, z)
                  \/ /\ y < Minimum(requirement) /\ z >= Minimum(requirement)
                     /\ OfYears(requirement, z) >= 9200

(* A candidate that the baseline finds at least as good on every           *)
(* requirement has at least the score, and more years are no worse but at  *)
(* the minimum.                                                            *)
BetterNeverScoresLess ==
    /\ \A k \in DOMAIN requirements :
         requirements[k].type = "experience" =>
             MoreYearsNeverHurt(requirements[k])
    /\ \A x, y \in ToSet(baseline) :
         (\A k \in DOMAIN requirements : x.assessments[k].score >= y.assessments[k].score)
             => x.score >= y.score

(* Whatever the model answers, the run ranks each candidate once, by       *)
(* falling score, and the order of two candidates is changed only by what  *)
(* the model says of one of them: it made the one rise or the other fall.  *)
ModelOnlyReorders ==
    Ranked =>
        /\ Ids(result) = Ids(payload) /\ Len(result) = Len(payload)
        /\ \A k, l \in DOMAIN result : k < l => result[k].score >= result[l].score
        /\ \A c, d \in Ids(payload) :
             Ahead(baseline, c, d) /\ Ahead(result, d, c) =>
                 \/ /\ answer[d] # NoRemark
                    /\ \/ Of(result, d).score > Of(baseline, d).score
                       \/ Of(result, d).confidence > Of(baseline, d).confidence
                 \/ /\ answer[c] # NoRemark
                    /\ \/ Of(result, c).score < Of(baseline, c).score
                       \/ Of(result, c).confidence < Of(baseline, c).confidence

(* Besides the types: no key is tried twice; Groq is asked, and the        *)
(* baseline kept, only after every key failed, the baseline only if Groq   *)
(* cannot help either, or if nobody is sent.  No provider ranks when none  *)
(* was announced, and only an announced one is asked first.                *)
ProvidersInTurn ==
    /\ TypeOK
    /\ IsInjective(tried)
    /\ pc = "groq" \/ outcome \in {"groq", "baseline"} =>
         ToSet(tried) = ToSet(geminiKeys) \/ aiCandidateLimit = 0
    /\ outcome = "baseline" => refused \/ aiCandidateLimit = 0
    /\ pc = "groq" /\ tried = << >> => aiRerankStatus = "groq"
    /\ tried # << >> \/ outcome \in {"gemini", "groq"} => aiRerankStatus # "none"

=============================================================================
