---------------------------- MODULE SpeechCapture ----------------------------
(***************************************************************************)
(* The interview copilot's SpeechService: the browser's speech recogniser  *)
(* reports guesses at what is being said (interim results) and final       *)
(* texts; the service turns a guess into a final text itself when nothing  *)
(* follows it for 800 ms, and restarts the recogniser.                     *)
(***************************************************************************)
EXTENDS Naturals, SequencesExt

CONSTANTS
    Wording,      \* what can be understood
    MaxSpoken,    \* bound on the phrases said
    MaxFinals,    \* bound on the final texts passed on
    NoText

ASSUME SpeechAssumption == MaxSpoken \in Nat /\ MaxFinals \in Nat /\ NoText \notin Wording

VARIABLES
    listening, currentInterim, lastFinal,   \* isListening and other fields of the service
    timer,        \* debounceTimer is set
    recogniser,   \* what the browser's recogniser does
    heard,        \* the phrase it is working on, 0 for none
    spoken,       \* number of phrases begun
    interimOf,    \* history: the phrase that currentInterim is a guess at
    finals,       \* history: the phrases passed on as final, in order
    unaborted     \* history: phrases flushed while not listening

fields   == <<listening, currentInterim, lastFinal, timer>>
engine   == <<recogniser, heard, spoken>>
shistory == <<interimOf, finals, unaborted>>
svars    == <<fields, engine, shistory>>

Phrase == 1..MaxSpoken

STypeOK ==
    /\ listening \in BOOLEAN /\ timer \in BOOLEAN
    /\ currentInterim \in Wording \cup {NoText}
    /\ lastFinal \in Wording \cup {NoText}
    /\ recogniser \in {"idle", "running", "stopping", "aborting"}
    /\ spoken \in 0..MaxSpoken /\ heard \in 0..spoken
    /\ interimOf \in 0..spoken
    /\ interimOf = 0 <=> currentInterim = NoText
    /\ finals \in Seq(1..spoken)
    /\ unaborted \subseteq 1..spoken
    \* the timer's callback need not have looked for a guess
    /\ timer => currentInterim # NoText

SInit ==
    /\ listening = FALSE /\ currentInterim = NoText /\ lastFinal = NoText
    /\ timer = FALSE
    /\ recogniser = "idle" /\ heard = 0 /\ spoken = 0
    /\ interimOf = 0 /\ finals = << >> /\ unaborted = {}

-----------------------------------------------------------------------------
(* The recogniser *)

Started(p) == IF p = "idle" THEN "running" ELSE p       \* else start() throws
StoppedBy(p) == IF p = "running" THEN "stopping" ELSE p
Aborted(p) == IF p = "idle" THEN p ELSE "aborting"

Speak ==
    /\ recogniser = "running" /\ heard = 0 /\ spoken < MaxSpoken
    /\ heard' = spoken + 1 /\ spoken' = spoken + 1
    /\ UNCHANGED <<fields, recogniser, shistory>>

(* Results come until the end, also after stop(), but not after abort().   *)
Reporting == recogniser \in {"running", "stopping"} /\ heard # 0

(* No restart after an abort. *)
MutantEnd ==
    /\ recogniser # "idle"
    /\ heard' = 0
    /\ recogniser' = IF listening /\ recogniser # "aborting" THEN "running" ELSE "idle"
    /\ UNCHANGED <<fields, spoken, shistory>>

(* onend, also when the recogniser ends without being asked to.            *)
End ==
    /\ recogniser # "idle"
    /\ heard' = 0
    /\ recogniser' = IF listening THEN Started("idle") ELSE "idle"
    /\ UNCHANGED <<fields, spoken, shistory>>

-----------------------------------------------------------------------------
(* onresult *)

(* Once stopped, a phrase can be flushed again and again (no abort): the   *)
(* bound on finals ends that here.                                         *)
Guessing == Reporting /\ Len(finals) < MaxFinals

(* A guess t at phrase p is shown and the debounce starts over. *)
Shown(t, p) ==
    /\ currentInterim' = t /\ interimOf' = p
    /\ lastFinal' = IF currentInterim = NoText THEN NoText ELSE lastFinal
    /\ timer' = TRUE

(* lastFinal not reset. *)
MutantInterim(t) ==
    /\ Guessing
    /\ currentInterim' = t /\ interimOf' = heard
    /\ timer' = TRUE
    /\ UNCHANGED <<listening, lastFinal, engine, finals, unaborted>>

Interim(t) ==
    /\ Guessing
    /\ Shown(t, heard)
    /\ UNCHANGED <<listening, engine, finals, unaborted>>

(* t becomes the final text of phrase p unless it repeats the one before.  *)
PassOn(t, p, last) ==
    /\ currentInterim' = NoText /\ interimOf' = 0
    /\ timer' = FALSE
    /\ lastFinal' = t
    /\ finals' = IF t = last THEN finals ELSE Append(finals, p)

Final(t) ==
    /\ Reporting
    /\ heard' = 0
    /\ PassOn(t, heard, lastFinal)
    /\ UNCHANGED <<listening, recogniser, spoken, unaborted>>

(* One event with the final text of a phrase and a guess at the next: the  *)
(* guess is looked at first, so that the final text clears it.             *)
FinalAndInterim(t) ==
    /\ Reporting
    /\ spoken < MaxSpoken
    /\ heard' = spoken + 1 /\ spoken' = spoken + 1
    /\ PassOn(t, heard, IF currentInterim = NoText THEN NoText ELSE lastFinal)
    /\ UNCHANGED <<listening, recogniser, unaborted>>

(* flushFinal without the abort. *)
MutantTimeout ==
    /\ timer
    /\ PassOn(currentInterim, interimOf, lastFinal)
    /\ UNCHANGED <<listening, engine, unaborted>>

(* The debounce timer fires: flushFinal, and while listening the           *)
(* recogniser is made to drop what it has of the phrase.                   *)
Timeout ==
    /\ timer
    /\ PassOn(currentInterim, interimOf, lastFinal)
    /\ IF listening
       THEN recogniser' = Aborted(recogniser) /\ heard' = 0 /\ UNCHANGED unaborted
       ELSE unaborted' = unaborted \cup {interimOf} /\ UNCHANGED <<recogniser, heard>>
    /\ UNCHANGED <<listening, spoken>>

-----------------------------------------------------------------------------
(* The calls of the page *)

StartListening ==
    /\ ~listening
    /\ listening' = TRUE
    /\ recogniser' = Started(recogniser)
    /\ UNCHANGED <<currentInterim, lastFinal, timer, heard, spoken, shistory>>

(* stopListening, which onerror calls as well for "not-allowed".           *)
StopListening ==
    /\ listening' = FALSE
    /\ timer' = FALSE
    /\ recogniser' = StoppedBy(recogniser)
    /\ UNCHANGED <<currentInterim, lastFinal, heard, spoken, shistory>>

ChangeLanguage ==
    /\ listening
    /\ recogniser' = StoppedBy(recogniser)
    /\ UNCHANGED <<fields, heard, spoken, shistory>>

-----------------------------------------------------------------------------
SNext ==
    \/ Speak \/ End
    \/ \E t \in Wording : Interim(t) \/ Final(t) \/ FinalAndInterim(t)
    \/ Timeout
    \/ StartListening \/ StopListening \/ ChangeLanguage

SSpec == SInit /\ [][SNext]_svars

(* The browser ends a recognition that was stopped or aborted. *)
FairSpec == SSpec /\ WF_svars(recogniser \in {"stopping", "aborting"} /\ End)

-----------------------------------------------------------------------------
(* Besides the types: while the service listens the recogniser runs, or is *)
(* about to end and will be restarted; when it does not, the recogniser    *)
(* does not run on.                                                        *)
EngineFollows ==
    /\ STypeOK
    /\ IF listening THEN recogniser # "idle" ELSE recogniser # "running"

(* A flush or a change of language interrupts the recogniser, it comes     *)
(* back ("onend will trigger a restart").                                  *)
RestartsWhileListening ==
    (listening /\ recogniser # "running") ~> (recogniser = "running" \/ ~listening)

(* Through timeouts, restarts and stops, phrases are passed on in the      *)
(* order in which they were said, and each of them once, unless its guess  *)
(* was flushed while the service did not listen (flushFinal aborts the     *)
(* recogniser only while it does).                                         *)
EachOnceInOrder ==
    \A i, j \in DOMAIN finals : i < j =>
        \/ finals[i] < finals[j]
        \/ finals[i] = finals[j] /\ finals[i] \in unaborted

(* A phrase of which a guess is pending is never taken for a repetition    *)
(* of an earlier one.                                                      *)
ShownIsKept ==
    [][\A t \in Wording :
         Final(t) /\ currentInterim # NoText => heard \in Range(finals')]_svars

=============================================================================
