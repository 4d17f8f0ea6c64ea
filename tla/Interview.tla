------------------------------ MODULE Interview ------------------------------
(***************************************************************************)
(* The page of the interview copilot: what is heard or typed goes into the *)
(* transcript under a speaker, who may have to be asked of the AI service, *)
(* and calls of the AI service suggest questions, evaluate answers and     *)
(* write the final report.  The answers come when they come, also after    *)
(* the interview was reset.  Texts still being said are left out.          *)
(***************************************************************************)
EXTENDS Naturals, SequencesExt

CONSTANTS
    MaxSaid,      \* bound on the texts heard and typed
    Call,         \* bound on the calls of the AI service under way at a time
    None,         \* nothing
    Past          \* stands for what belongs to an interview that was reset

ASSUME InterviewAssumption == MaxSaid \in Nat /\ None # Past

VARIABLES
    transcript, questions, evaluations, finalReport,
    isAnalyzing, aiError, isGeneratingReport, isSummaryOpen,
    currentSpeaker, autoDetectSpeaker,
    hearing, detects,  \* speechService, and autoDetectSpeaker of its callback
    call,              \* the calls of the AI service under way
    (* history *)
    said,              \* number of texts heard and typed
    waited,            \* texts that were being classified when another came in
    cleared,           \* texts of interviews that were reset
    relabelled,        \* texts whose speaker was changed
    awaited            \* a report was asked for, and nothing wiped its error away

shown   == <<transcript, questions, evaluations, finalReport>>
work    == <<isAnalyzing, aiError, awaited>>
flags   == <<work, isGeneratingReport, isSummaryOpen>>
speakers   == <<currentSpeaker, autoDetectSpeaker>>
service == <<hearing, detects>>
ihistory == <<said, waited, cleared, relabelled>>
ivars    == <<shown, flags, speakers, service, call, ihistory>>

Text == 1..MaxSaid
Speaker == {"interviewer", "candidate"}
OtherSpeaker(s) == IF s = "interviewer" THEN "candidate" ELSE "interviewer"

(* Of which texts a call or its answer is. *)
Basis == Seq(Text) \cup {Past}

(* The texts as the panel lists them. *)
Texts == [k \in DOMAIN transcript |-> transcript[k].text]

Busy == {c \in Call : call[c] # None}
Underway(kinds) == {c \in Busy : call[c].kind \in kinds}
Analyses == Underway({"questions", "evaluation"})
Reports  == Underway({"report"})
Unheard  == {call[c].text : c \in Underway({"heard"})}

CallRecord ==
    [kind : {"questions", "evaluation"}, of : Basis, answer : Text \cup {None, Past},
     overtaken : BOOLEAN]
    \cup [kind : {"report"}, of : Basis, overtaken : BOOLEAN]
    \cup [kind : {"heard", "typed"}, text : Text, guess : Speaker]

ASSUME NoneAssumption ==
    \A n \in {None, Past} : n \notin Text /\ n \notin Seq(Text) /\ n \notin CallRecord

ITypeOK ==
    /\ transcript \in Seq([text : Text, speaker : Speaker])
    /\ questions \in Basis \cup {None} /\ finalReport \in Basis \cup {None}
    /\ evaluations \subseteq Text \cup {Past}
    /\ {isAnalyzing, aiError, isGeneratingReport, isSummaryOpen, autoDetectSpeaker,
        detects, awaited} \subseteq BOOLEAN
    /\ currentSpeaker \in Speaker
    /\ hearing \in {"off", "on", "ending"}
    /\ call \in [Call -> {None} \cup CallRecord]
    /\ said \in 0..MaxSaid
    /\ waited \cup cleared \cup relabelled \subseteq 1..said

IInit ==
    /\ transcript = << >> /\ questions = None /\ evaluations = {} /\ finalReport = None
    /\ isAnalyzing = FALSE /\ aiError = FALSE
    /\ isGeneratingReport = FALSE /\ isSummaryOpen = FALSE
    /\ currentSpeaker = "interviewer" /\ autoDetectSpeaker = TRUE
    /\ hearing = "off" /\ detects = TRUE
    /\ call = [c \in Call |-> None]
    /\ said = 0 /\ waited = {} /\ cleared = {} /\ relabelled = {}
    /\ awaited = FALSE

-----------------------------------------------------------------------------
(* Calls of the AI service *)

Begin(c, x) == c \notin Busy /\ call' = [call EXCEPT ![c] = x]

(* A call ends; those of the same kind that go on are marked.              *)
EndOf(c, same) ==
    call' = [d \in Call |->
        IF d = c THEN None
        ELSE IF d \in same THEN [call[d] EXCEPT !.overtaken = TRUE] ELSE call[d]]

(* The last text of anybody's. *)
MutantLastAnswer(items) == IF items = << >> THEN None ELSE Last(items).text

(* The last text of the candidate's in items. *)
LastAnswer(items) ==
    LET k == SelectLastInSeq(items, LAMBDA x : x.speaker = "candidate")
    IN  IF k = 0 THEN None ELSE items[k].text

(* setAiError(null): an error shown goes. *)
WipeError ==
    /\ aiError' = FALSE
    /\ awaited' = (awaited /\ (isGeneratingReport \/ ~aiError))

(* triggerAiAnalysis: an answer is evaluated from the "standard" angle.    *)
Trigger(c, items, standard) ==
    /\ Begin(c, [kind |-> "questions", of |-> [k \in DOMAIN items |-> items[k].text],
                 answer |-> IF standard THEN LastAnswer(items) ELSE None,
                 overtaken |-> FALSE])
    /\ isAnalyzing' = TRUE /\ WipeError

(* finally: the flag is cleared, whoever else is still at work. *)
AnalysisEnds(c) == EndOf(c, Analyses) /\ isAnalyzing' = FALSE /\ UNCHANGED awaited

(* Nothing clears the flag when there is no answer to evaluate. *)
MutantQuestionsArrive(c) ==
    /\ c \in Analyses /\ call[c].kind = "questions"
    /\ questions' = call[c].of
    /\ IF call[c].answer = None THEN EndOf(c, Analyses)
       ELSE call' = [call EXCEPT ![c].kind = "evaluation"]
    /\ UNCHANGED <<transcript, evaluations, finalReport, flags, speakers, service, ihistory>>

QuestionsArrive(c) ==
    /\ c \in Analyses /\ call[c].kind = "questions"
    /\ questions' = call[c].of
    /\ IF call[c].answer = None THEN AnalysisEnds(c)
       ELSE call' = [call EXCEPT ![c].kind = "evaluation"] /\ UNCHANGED <<isAnalyzing, awaited>>
    /\ UNCHANGED <<transcript, evaluations, finalReport, aiError, isGeneratingReport, isSummaryOpen,
                   speakers, service, ihistory>>

(* How often an answer was evaluated, and which came last, is left out.    *)
EvaluationArrives(c) ==
    /\ c \in Analyses /\ call[c].kind = "evaluation"
    /\ evaluations' = evaluations \cup {call[c].answer}
    /\ AnalysisEnds(c)
    /\ UNCHANGED <<transcript, questions, finalReport, aiError, isGeneratingReport, isSummaryOpen,
                   speakers, service, ihistory>>

AnalysisFails(c) ==
    /\ c \in Analyses
    /\ AnalysisEnds(c)
    /\ aiError' = TRUE
    /\ UNCHANGED <<shown, isGeneratingReport, isSummaryOpen, speakers, service, ihistory>>

(* The copilot panel: during an analysis its buttons are dead or not there, *)
(* after an error there is one to try again, under the summary all are out *)
(* of reach.  Its tabs are left out.                                       *)
CopilotShown ==
    IF isSummaryOpen THEN "covered"
    ELSE IF isAnalyzing THEN "working" ELSE IF aiError THEN "error" ELSE "tabs"

AskAnalysis(c, standard) ==
    /\ CopilotShown \in {"error", "tabs"}
    /\ Trigger(c, transcript, standard)
    /\ UNCHANGED <<shown, isGeneratingReport, isSummaryOpen, speakers, service, ihistory>>

-----------------------------------------------------------------------------
(* Into the transcript *)

(* handleFinalInsert, and the end of handleAddManualMessage.  After an     *)
(* answer the interviewer speaks; after a question the candidate does if   *)
(* the speakers are detected.  Page and service are told alike.            *)
Insert(t, s, detected) ==
    LET updated == Append(transcript, [text |-> t, speaker |-> s])
    IN  /\ transcript' = updated
        /\ currentSpeaker' = IF s = "candidate" \/ detected THEN OtherSpeaker(s) ELSE currentSpeaker
        /\ waited' = waited \cup (Unheard \ {t})

(* An answer, and every second text, is analyzed. *)
Analyzed == Last(transcript').speaker = "candidate" \/ Len(transcript') % 2 = 0

(* What the words tell of the speaker: a question mark or a phrase of the   *)
(* interviewer's, a phrase of the candidate's, or neither (or both).       *)
Words == Speaker \cup {None}

Kept == <<questions, evaluations, finalReport, isGeneratingReport, isSummaryOpen,
          autoDetectSpeaker, service, cleared>>

(* A final text comes from the service, as long as its recogniser has not  *)
(* ended; the page's callback has autoDetectSpeaker of when it was set.    *)
Heard(c, words) ==
    /\ hearing # "off"
    /\ said < MaxSaid
    /\ said' = said + 1
    /\ IF detects /\ words = None
       THEN /\ Begin(c, [kind |-> "heard", text |-> said + 1, guess |-> currentSpeaker])
            /\ UNCHANGED <<transcript, work, currentSpeaker, waited>>
       ELSE /\ Insert(said + 1, IF detects THEN words ELSE currentSpeaker, detects)
            /\ IF Analyzed THEN Trigger(c, transcript', TRUE)
               ELSE UNCHANGED <<call, work>>
    /\ UNCHANGED <<Kept, relabelled>>

(* Put into the transcript as it was when the text was heard. *)
MutantHeardAnswer(c, s) ==
    /\ c \in Underway({"heard"})
    /\ transcript' = <<[text |-> call[c].text, speaker |-> s]>>
    /\ call' = [call EXCEPT ![c] = None]
    /\ currentSpeaker' = OtherSpeaker(s)
    /\ UNCHANGED <<Kept, work, said, waited, relabelled>>

(* classifySpeaker answers about a text that was heard, or fails and the   *)
(* text gets the speaker that the service had (s is the guess).  The       *)
(* analysis that follows takes the place of the call.                      *)
HeardAnswer(c, s) ==
    /\ c \in Underway({"heard"})
    /\ Insert(call[c].text, s, TRUE)
    /\ IF Analyzed
       THEN /\ isAnalyzing' = TRUE /\ WipeError
            /\ call' = [call EXCEPT ![c] =
                   [kind |-> "questions", of |-> [k \in DOMAIN transcript' |-> transcript'[k].text],
                    answer |-> LastAnswer(transcript'), overtaken |-> FALSE]]
       ELSE call' = [call EXCEPT ![c] = None] /\ UNCHANGED work
    /\ UNCHANGED <<Kept, said, relabelled>>

(* Two calls begin at a time when a typed text is classified and analyzed. *)
BeginBoth(c, d, s, items) ==
    /\ c # d /\ {c, d} \cap Busy = {}
    /\ isAnalyzing' = TRUE /\ WipeError
    /\ call' = [call EXCEPT
           ![c] = [kind |-> "typed", text |-> said + 1, guess |-> s],
           ![d] = [kind |-> "questions", of |-> [k \in DOMAIN items |-> items[k].text],
                   answer |-> LastAnswer(items), overtaken |-> FALSE]]

(* The form: while speakers are detected the choice of one springs back to *)
(* "auto".                                                                 *)
SpeakerOf(words, chosen) ==
    IF ~autoDetectSpeaker THEN chosen
    ELSE IF words = None THEN currentSpeaker ELSE words

(* handleAddManualMessage *)
Typed(c, d, words, chosen) ==
    /\ ~isSummaryOpen
    /\ said < MaxSaid
    /\ said' = said + 1
    /\ LET s == SpeakerOf(words, chosen)
           asked == autoDetectSpeaker /\ words = None
       IN  /\ Insert(said + 1, s, autoDetectSpeaker)
           /\ \/ asked /\ Analyzed /\ BeginBoth(c, d, s, transcript')
              \/ /\ asked /\ ~Analyzed
                 /\ Begin(c, [kind |-> "typed", text |-> said + 1, guess |-> s])
                 /\ UNCHANGED work
              \/ ~asked /\ Analyzed /\ Trigger(c, transcript', TRUE)
              \/ ~asked /\ ~Analyzed /\ UNCHANGED <<call, work>>
    /\ UNCHANGED <<Kept, relabelled>>

(* handleSelectQuestionToAsk *)
SelectQuestion(c) ==
    /\ questions # None /\ CopilotShown = "tabs"
    /\ said < MaxSaid
    /\ said' = said + 1
    /\ Insert(said + 1, "interviewer", TRUE)
    /\ IF Analyzed THEN Trigger(c, transcript', TRUE) ELSE UNCHANGED <<call, work>>
    /\ UNCHANGED <<Kept, relabelled>>

(* classifySpeaker answers about a text that was typed: if it knows better *)
(* than the guess, the last text of the transcript gets the speaker.       *)
TypedAnswer(c, s) ==
    /\ c \in Underway({"typed"})
    /\ call' = [call EXCEPT ![c] = None]
    /\ LET n == Len(transcript)
       IN  IF s = call[c].guess
           THEN UNCHANGED <<transcript, relabelled, currentSpeaker>>
           ELSE /\ transcript' = IF n = 0 THEN << >> ELSE [transcript EXCEPT ![n].speaker = s]
                /\ relabelled' = relabelled \cup {x.text : x \in {transcript[k] : k \in {n} \ {0}}}
                /\ currentSpeaker' = OtherSpeaker(s)
    /\ UNCHANGED <<Kept, work, said, waited>>

TypedFails(c) ==
    /\ c \in Underway({"typed"})
    /\ call' = [call EXCEPT ![c] = None]
    /\ UNCHANGED <<shown, flags, speakers, service, ihistory>>

-----------------------------------------------------------------------------
(* Switches *)

(* handleToggleListen; a recogniser that is stopped still brings what it   *)
(* has heard.                                                              *)
ToggleListen ==
    /\ ~isSummaryOpen
    /\ IF hearing = "on" THEN hearing' = "ending" /\ UNCHANGED detects
       ELSE hearing' = "on" /\ detects' = autoDetectSpeaker
    /\ UNCHANGED <<shown, flags, speakers, call, ihistory>>

RecognitionEnds ==
    /\ hearing = "ending"
    /\ hearing' = "off" /\ detects' = TRUE      \* set again by the next callback
    /\ UNCHANGED <<shown, flags, speakers, call, ihistory>>

(* handleToggleSpeaker *)
SwitchSpeaker ==
    /\ ~isSummaryOpen
    /\ currentSpeaker' = OtherSpeaker(currentSpeaker)
    /\ UNCHANGED <<shown, flags, autoDetectSpeaker, service, call, ihistory>>

ToggleAutoDetect ==
    /\ ~isSummaryOpen
    /\ autoDetectSpeaker' = ~autoDetectSpeaker
    /\ UNCHANGED <<shown, flags, currentSpeaker, service, call, ihistory>>

-----------------------------------------------------------------------------
(* handleSaveKey, in the settings *)
SaveKey ==
    /\ ~isSummaryOpen
    /\ WipeError
    /\ UNCHANGED <<shown, isAnalyzing, isGeneratingReport, isSummaryOpen, speakers, service,
                   call, ihistory>>

-----------------------------------------------------------------------------
(* The end of the interview *)

(* handleOpenSummaryAndEvaluate; the summary covers the page. *)
OpenSummary(c) ==
    /\ ~isSummaryOpen
    /\ isSummaryOpen' = TRUE
    /\ IF transcript = << >> THEN UNCHANGED <<call, isGeneratingReport, aiError, awaited>>
       ELSE /\ isGeneratingReport' = TRUE /\ aiError' = FALSE /\ awaited' = TRUE
            /\ Begin(c, [kind |-> "report", of |-> Texts, overtaken |-> FALSE])
    /\ UNCHANGED <<shown, isAnalyzing, speakers, service, ihistory>>

CloseSummary ==
    /\ isSummaryOpen
    /\ isSummaryOpen' = FALSE
    /\ UNCHANGED <<shown, work, isGeneratingReport, speakers, service, call, ihistory>>

(* The report comes, or its call fails. *)
ReportEnds(c) ==
    /\ c \in Reports
    /\ EndOf(c, Reports)
    /\ isGeneratingReport' = FALSE
    /\ \/ finalReport' = call[c].of /\ UNCHANGED aiError
       \/ aiError' = TRUE /\ UNCHANGED finalReport
    /\ UNCHANGED <<transcript, questions, evaluations, isAnalyzing, awaited, isSummaryOpen, speakers,
                   service, ihistory>>

(* The summary: the report, or what can be had without it. *)
SummaryShown ==
    IF ~isSummaryOpen THEN "closed"
    ELSE IF isGeneratingReport THEN "generating" ELSE IF aiError THEN "error" ELSE "values"

(* What score, strengths and weaknesses in it come from; if from nothing,  *)
(* the score is 8.5.                                                       *)
Displayed == IF finalReport # None THEN {finalReport} ELSE evaluations

(* The evaluations stay. *)
MutantCleared ==
    /\ transcript' = << >> /\ questions' = None /\ finalReport' = None
    /\ UNCHANGED evaluations

Cleared ==
    transcript' = << >> /\ questions' = None /\ evaluations' = {} /\ finalReport' = None

(* The buttons to start over: in the summary, and over a transcript. *)
MayReset == isSummaryOpen \/ transcript # << >>

(* handleResetInterview: the calls under way go on and their answers will  *)
(* be shown.                                                               *)
ResetInterview ==
    /\ MayReset
    /\ Cleared
    /\ isSummaryOpen' = FALSE /\ aiError' = FALSE /\ awaited' = FALSE
    /\ hearing' = IF hearing = "on" THEN "ending" ELSE hearing
    /\ call' = [c \in Call |->
           IF c \in Analyses
           THEN [call[c] EXCEPT !.of = Past, !.answer = IF @ = None THEN None ELSE Past]
           ELSE IF c \in Reports THEN [call[c] EXCEPT !.of = Past] ELSE call[c]]
    /\ cleared' = cleared \cup ToSet(Texts)
    /\ waited' = waited \ ToSet(Texts) /\ relabelled' = {}
    /\ UNCHANGED <<isAnalyzing, isGeneratingReport, speakers, detects, said>>

-----------------------------------------------------------------------------
INext ==
    \/ \E c \in Call :
         \/ QuestionsArrive(c) \/ EvaluationArrives(c) \/ AnalysisFails(c)
         \/ \E standard \in BOOLEAN : AskAnalysis(c, standard)
         \/ \E words \in Words :
              Heard(c, words) \/ \E d \in Call, s \in Speaker : Typed(c, d, words, s)
         \/ SelectQuestion(c)
         \/ \E s \in Speaker : HeardAnswer(c, s) \/ TypedAnswer(c, s)
         \/ TypedFails(c)
         \/ OpenSummary(c) \/ ReportEnds(c)
    \/ ToggleListen \/ RecognitionEnds \/ SwitchSpeaker \/ ToggleAutoDetect
    \/ SaveKey \/ CloseSummary \/ ResetInterview

ISpec == IInit /\ [][INext]_ivars

-----------------------------------------------------------------------------
(* Questions, evaluations and the report are about the beginning of the    *)
(* transcript that is shown with them, as is every call under way, unless  *)
(* the call was under way when the interview was reset.                    *)
ShownIsOfThisInterview ==
    /\ \A of \in {questions, finalReport} \cup {call[c].of : c \in Analyses \cup Reports} :
         of \notin {None, Past} => IsPrefix(of, Texts)
    /\ evaluations \ {Past} \subseteq ToSet(Texts)

(* What was evaluated as an answer stands as the candidate's in the        *)
(* transcript, unless its speaker was changed later on.                    *)
AnswersAreEvaluated ==
    \A k \in DOMAIN transcript : transcript[k].text \in evaluations =>
        transcript[k].speaker = "candidate" \/ transcript[k].text \in relabelled

(* Besides the types: nobody is told that the AI works when it does not,   *)
(* and the buttons are not dead for ever: an analysis, or a report, shows  *)
(* as under way from beginning to end, unless another one ended meanwhile. *)
(* And who asked for a report sees an error, or values of a report and not *)
(* what can be had without it, unless the error was wiped away by another  *)
(* analysis.                                                               *)
BusyWhileWorking ==
    /\ ITypeOK
    /\ isAnalyzing => Analyses # {}
    /\ \A c \in Analyses : call[c].overtaken \/ isAnalyzing
    /\ isGeneratingReport => Reports # {}
    /\ \A c \in Reports : call[c].overtaken \/ isGeneratingReport
    /\ awaited /\ SummaryShown = "values" => Displayed = {finalReport}

(* Every text is in the transcript once, or on its way, or of an interview *)
(* that was reset; and the transcript is in the order in which the texts    *)
(* were said, but for those whose speaker had to be asked for while others *)
(* came in.                                                                *)
TranscriptComplete ==
    /\ IsInjective(Texts)
    /\ 1..said = ToSet(Texts) \cup cleared \cup Unheard
    /\ \A i, j \in DOMAIN Texts : i < j /\ Texts[i] > Texts[j] => Texts[j] \in waited

=============================================================================
