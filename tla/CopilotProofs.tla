---------------------------- MODULE CopilotProofs ----------------------------
(***************************************************************************)
(* The interview copilot: what listens (AudioCapture), the speech service  *)
(* (SpeechCapture) and what becomes of the texts (Interview).              *)
(*                                                                         *)
(* For any number of starts and any languages, what the page switched on   *)
(* is off when it does not listen, and the page shows what the speech      *)
(* service does.  CaptureInv is inductive: TypeOK and what is said of      *)
(* starts to come (Fresh), of the equaliser and the field ws (Quiet), of   *)
(* the page and the speech service (PageTellsTruth), and of streams and    *)
(* sockets as long as nothing untimely happened (Settled).                 *)
(*                                                                         *)
(* For any number of texts and calls, the transcript is complete, and what *)
(* is shown with it is about it.  InterviewInv is inductive: the types,    *)
(* the flags and the calls (Working), where each text is (Complete,        *)
(* Waiting), and what the calls and what is shown are about (About,        *)
(* Answered).                                                              *)
(*                                                                         *)
(* Whatever is said, however often the recogniser is stopped, restarted    *)
(* and interrupted: the recogniser follows the service, phrases are passed *)
(* on in order and once, and none that is shown is taken for a repetition. *)
(* SpeechInv is inductive: besides the first two (EngineFollows,           *)
(* EachOnceInOrder) it says that what is still heard, or shown as a guess, *)
(* comes after all that was passed on (Later), and that the final text     *)
(* before a guess is forgotten (Forgotten).                                *)
(***************************************************************************)
EXTENDS AudioCapture, SpeechCapture, Interview, FiniteSetTheorems, SequenceTheorems,
        WellFoundedInduction, TLAPS

(* Nothing is there of a start that is still to come. *)
Fresh ==
    /\ ws <= starts
    /\ \A n \in Start : n > starts =>
         /\ phase[n] = "none" /\ socket[n] = "none" /\ greeted[n] = 0
         /\ context[n] = NoStart /\ equaliser[n] = "off"

Quiet ==
    /\ ws # NoStart => isListening \/ wasReset
    /\ \A n \in Start : equaliser[n] = "on" => isListening /\ n = starts

(* All is off. *)
AllOff ==
    /\ open = {} /\ mediaStream = NoStart /\ ws = NoStart
    /\ \A n \in Start : phase[n] \in {"none", "done"} /\ socket[n] \in {"none", "closed"}

(* Only what the last start made is there, as far as that has come. *)
OnlyLast ==
    /\ starts \in Start /\ ws = starts
    /\ mediaStream \in {NoStart, starts}
    /\ open = IF mediaStream = NoStart THEN {} ELSE {starts}
    /\ \A n \in Start :
         /\ phase[n] = "asking" => n = starts /\ mediaStream = NoStart
         /\ phase[n] = "loading" => n = starts /\ mediaStream = starts
         /\ n # starts => socket[n] \in {"none", "closed"}
    /\ socket[starts] = "connecting" => greeted[starts] = 0
    /\ socket[starts] = "open" => greeted[starts] = 1

Settled ==
    ~untimely =>
        /\ IF isListening THEN OnlyLast ELSE AllOff
        /\ \A n \in Start : context[n] \in {NoStart, n}

CaptureInv == TypeOK /\ Fresh /\ Quiet /\ PageTellsTruth /\ Settled

-----------------------------------------------------------------------------
(* A step preserves the types. *)
LEMMA CaptureTypeStep ==
    ASSUME CaptureInv, [Next]_vars
    PROVE  TypeOK'
<1> USE CaptureAssumption DEF CaptureInv, TypeOK, Fresh, Role, Start, NoStart, vars, streamer, live, roles, languages, history
<1>1. ASSUME NEW n \in Start, Granted(n) PROVE TypeOK'
  BY <1>1 DEF Granted
<1>2. ASSUME NEW n \in Start, Loaded(n) PROVE TypeOK'
  <2>1. n \in 1..starts
    BY <1>2 DEF Loaded
  <2>2. loaded' \subseteq 1..starts' /\ phase' \in [Start -> {"none", "asking", "loading", "done"}]
    BY <1>2, <2>1 DEF Loaded
  <2>3. context' \in [Start -> Start \cup {NoStart}] /\ isRecording' \in BOOLEAN
    BY <1>2 DEF Loaded
  <2>. QED
    BY <1>2, <2>2, <2>3 DEF Loaded
<1>3. ASSUME NEW n \in Start, StartFails(n) PROVE TypeOK'
  BY <1>3 DEF StartFails, Starting
<1>4. ASSUME NEW n \in Start, SocketOpens(n) PROVE TypeOK'
  BY <1>4 DEF SocketOpens
<1>5. ASSUME NEW n \in Start, SocketEnds(n) PROVE TypeOK'
  BY <1>5 DEF SocketEnds
<1>6. ASSUME NEW n \in Start, EqualiserGranted(n) PROVE TypeOK'
  BY <1>6 DEF EqualiserGranted
<1>7. ASSUME NEW n \in Start, EqualiserDenied(n) PROVE TypeOK'
  BY <1>7 DEF EqualiserDenied
<1>8. CASE SwitchOn
  <2>1. starts' \in 0..MaxStarts /\ starts' \in Start /\ 1..starts \subseteq 1..starts'
    BY <1>8 DEF SwitchOn
  <2>2. /\ socket' \in [Start -> {"none", "connecting", "open", "closed"}]
        /\ phase' \in [Start -> {"none", "asking", "loading", "done"}]
        /\ equaliser' \in [Start -> {"off", "asking", "on"}]
        /\ ws' \in Start \cup {NoStart}
    BY <1>8, <2>1 DEF SwitchOn
  <2>. QED
    BY <1>8, <2>1, <2>2 DEF SwitchOn
<1>9. CASE SwitchOff
  BY <1>9 DEF SwitchOff, AllStopped, StreamerStopped, Disconnected, EqualiserCleanup
<1>10. CASE Leave
  BY <1>10 DEF Leave, AllStopped, StreamerStopped, Disconnected, EqualiserCleanup
<1>11. CASE Reset
  BY <1>11 DEF Reset, EqualiserCleanup
<1>12. CASE NotAllowed
  BY <1>12 DEF NotAllowed
<1>13. CASE ToggleSpeaker
  BY <1>13 DEF ToggleSpeaker, Other
<1>14. ASSUME NEW r \in Role, NEW here \in BOOLEAN, SetSpeaker(r, here) PROVE TypeOK'
  BY <1>14 DEF SetSpeaker
<1>15. ASSUME NEW l \in Language, SetLanguage(l) PROVE TypeOK'
  BY <1>15 DEF SetLanguage
<1>16. CASE UNCHANGED vars
  BY <1>16
<1>. QED
  BY <1>1, <1>2, <1>3, <1>4, <1>5, <1>6, <1>7, <1>8, <1>9,
     <1>10, <1>11, <1>12, <1>13, <1>14, <1>15, <1>16 DEF Next

(* A step makes nothing of a start that is still to come. *)
LEMMA FreshStep ==
    ASSUME CaptureInv, [Next]_vars
    PROVE  Fresh'
<1> USE CaptureAssumption DEF CaptureInv, TypeOK, Fresh, Start, NoStart, vars, streamer, live, roles, languages, history
<1>1. ASSUME NEW n \in Start, Granted(n) PROVE Fresh'
  BY <1>1 DEF Granted
<1>2. ASSUME NEW n \in Start, Loaded(n) PROVE Fresh'
  BY <1>2 DEF Loaded
<1>3. ASSUME NEW n \in Start, StartFails(n) PROVE Fresh'
  BY <1>3 DEF StartFails, Starting
<1>4. ASSUME NEW n \in Start, SocketOpens(n) PROVE Fresh'
  BY <1>4 DEF SocketOpens
<1>5. ASSUME NEW n \in Start, SocketEnds(n) PROVE Fresh'
  BY <1>5 DEF SocketEnds
<1>6. ASSUME NEW n \in Start, EqualiserGranted(n) PROVE Fresh'
  BY <1>6 DEF EqualiserGranted
<1>7. ASSUME NEW n \in Start, EqualiserDenied(n) PROVE Fresh'
  BY <1>7 DEF EqualiserDenied
<1>8. CASE SwitchOn
  BY <1>8 DEF SwitchOn
<1>9. CASE SwitchOff
  BY <1>9 DEF SwitchOff, AllStopped, StreamerStopped, Disconnected, EqualiserCleanup
<1>10. CASE Leave
  BY <1>10 DEF Leave, AllStopped, StreamerStopped, Disconnected, EqualiserCleanup
<1>11. CASE Reset
  BY <1>11 DEF Reset, EqualiserCleanup
<1>12. CASE NotAllowed
  BY <1>12 DEF NotAllowed
<1>13. CASE ToggleSpeaker
  BY <1>13 DEF ToggleSpeaker, Other
<1>14. ASSUME NEW r \in Role, NEW here \in BOOLEAN, SetSpeaker(r, here) PROVE Fresh'
  BY <1>14 DEF SetSpeaker
<1>15. ASSUME NEW l \in Language, SetLanguage(l) PROVE Fresh'
  BY <1>15 DEF SetLanguage
<1>16. CASE UNCHANGED vars
  BY <1>16
<1>. QED
  BY <1>1, <1>2, <1>3, <1>4, <1>5, <1>6, <1>7, <1>8, <1>9,
     <1>10, <1>11, <1>12, <1>13, <1>14, <1>15, <1>16 DEF Next

(* Equaliser and field ws are used only while the page listens. *)
LEMMA QuietStep ==
    ASSUME CaptureInv, [Next]_vars
    PROVE  Quiet'
<1> USE CaptureAssumption DEF CaptureInv, TypeOK, Quiet, Start, NoStart, vars, streamer, live, roles, languages, history
<1>1. ASSUME NEW n \in Start, Granted(n) PROVE Quiet'
  BY <1>1 DEF Granted
<1>2. ASSUME NEW n \in Start, Loaded(n) PROVE Quiet'
  BY <1>2 DEF Loaded
<1>3. ASSUME NEW n \in Start, StartFails(n) PROVE Quiet'
  BY <1>3 DEF StartFails, Starting
<1>4. ASSUME NEW n \in Start, SocketOpens(n) PROVE Quiet'
  BY <1>4 DEF SocketOpens
<1>5. ASSUME NEW n \in Start, SocketEnds(n) PROVE Quiet'
  BY <1>5 DEF SocketEnds
<1>6. ASSUME NEW n \in Start, EqualiserGranted(n) PROVE Quiet'
  BY <1>6 DEF EqualiserGranted
<1>7. ASSUME NEW n \in Start, EqualiserDenied(n) PROVE Quiet'
  BY <1>7 DEF EqualiserDenied
<1>8. CASE SwitchOn
  BY <1>8 DEF SwitchOn
<1>9. CASE SwitchOff
  BY <1>9 DEF SwitchOff, AllStopped, StreamerStopped, Disconnected, EqualiserCleanup
<1>10. CASE Leave
  BY <1>10 DEF Leave, AllStopped, StreamerStopped, Disconnected, EqualiserCleanup
<1>11. CASE Reset
  BY <1>11 DEF Reset, EqualiserCleanup
<1>12. CASE NotAllowed
  BY <1>12 DEF NotAllowed
<1>13. CASE ToggleSpeaker
  BY <1>13 DEF ToggleSpeaker, Other
<1>14. ASSUME NEW r \in Role, NEW here \in BOOLEAN, SetSpeaker(r, here) PROVE Quiet'
  BY <1>14 DEF SetSpeaker
<1>15. ASSUME NEW l \in Language, SetLanguage(l) PROVE Quiet'
  BY <1>15 DEF SetLanguage
<1>16. CASE UNCHANGED vars
  BY <1>16
<1>. QED
  BY <1>1, <1>2, <1>3, <1>4, <1>5, <1>6, <1>7, <1>8, <1>9,
     <1>10, <1>11, <1>12, <1>13, <1>14, <1>15, <1>16 DEF Next

(* Page and speech service change together. *)
LEMMA PageStep ==
    ASSUME CaptureInv, [Next]_vars
    PROVE  PageTellsTruth'
<1> USE CaptureAssumption DEF CaptureInv, TypeOK, PageTellsTruth, vars, streamer, live, roles, languages, history
<1>1. ASSUME NEW n \in Start, Granted(n) PROVE PageTellsTruth'
  BY <1>1 DEF Granted
<1>2. ASSUME NEW n \in Start, Loaded(n) PROVE PageTellsTruth'
  BY <1>2 DEF Loaded
<1>3. ASSUME NEW n \in Start, StartFails(n) PROVE PageTellsTruth'
  BY <1>3 DEF StartFails, Starting
<1>4. ASSUME NEW n \in Start, SocketOpens(n) PROVE PageTellsTruth'
  BY <1>4 DEF SocketOpens
<1>5. ASSUME NEW n \in Start, SocketEnds(n) PROVE PageTellsTruth'
  BY <1>5 DEF SocketEnds
<1>6. ASSUME NEW n \in Start, EqualiserGranted(n) PROVE PageTellsTruth'
  BY <1>6 DEF EqualiserGranted
<1>7. ASSUME NEW n \in Start, EqualiserDenied(n) PROVE PageTellsTruth'
  BY <1>7 DEF EqualiserDenied
<1>8. CASE SwitchOn
  BY <1>8 DEF SwitchOn
<1>9. CASE SwitchOff
  BY <1>9 DEF SwitchOff, AllStopped, StreamerStopped, Disconnected, EqualiserCleanup
<1>10. CASE Leave
  BY <1>10 DEF Leave, AllStopped, StreamerStopped, Disconnected, EqualiserCleanup
<1>11. CASE Reset
  BY <1>11 DEF Reset, EqualiserCleanup
<1>12. CASE NotAllowed
  BY <1>12 DEF NotAllowed
<1>13. CASE ToggleSpeaker
  BY <1>13 DEF ToggleSpeaker, Other
<1>14. ASSUME NEW r \in Role, NEW here \in BOOLEAN, SetSpeaker(r, here) PROVE PageTellsTruth'
  BY <1>14 DEF SetSpeaker
<1>15. ASSUME NEW l \in Language, SetLanguage(l) PROVE PageTellsTruth'
  BY <1>15 DEF SetLanguage
<1>16. CASE UNCHANGED vars
  BY <1>16
<1>. QED
  BY <1>1, <1>2, <1>3, <1>4, <1>5, <1>6, <1>7, <1>8, <1>9,
     <1>10, <1>11, <1>12, <1>13, <1>14, <1>15, <1>16 DEF Next

(* After a stop at which nothing was starting all is off. *)
LEMMA StopSettles ==
    ASSUME CaptureInv, AllStopped
    PROVE  Settled'
<1> USE CaptureAssumption DEF CaptureInv, TypeOK, Settled, Start, NoStart
<1> SUFFICES ASSUME ~untimely'
             PROVE  Settled'
  OBVIOUS
<1>1. ~untimely /\ ~isListening' /\ \A n \in Start : phase[n] \in {"none", "done"}
  BY DEF AllStopped, Starting
<1>2. open' = {} /\ mediaStream' = NoStart /\ phase' = phase /\ context' = context
  <2>1. CASE isListening
    BY <1>1, <2>1 DEF AllStopped, StreamerStopped, OnlyLast
  <2>2. CASE ~isListening
    BY <1>1, <2>2 DEF AllStopped, StreamerStopped, AllOff
  <2>. QED
    BY <2>1, <2>2
<1>3. ws' = NoStart /\ \A n \in Start : socket'[n] \in {"none", "closed"}
  <2>1. CASE isListening
    BY <1>1, <2>1 DEF AllStopped, Disconnected, OnlyLast
  <2>2. CASE ~isListening
    BY <1>1, <2>2 DEF AllStopped, Disconnected, AllOff
  <2>. QED
    BY <2>1, <2>2
<1>. QED
  BY <1>1, <1>2, <1>3 DEF AllOff

(* Without anything untimely, streams and sockets are off or of the last start. *)
LEMMA SettledStep ==
    ASSUME CaptureInv, [Next]_vars
    PROVE  Settled'
<1> USE CaptureAssumption DEF CaptureInv, TypeOK, Fresh, Settled, OnlyLast, AllOff, Starting, Start, NoStart, vars, streamer, live, roles, languages, history
<1>1. ASSUME NEW n \in Start, Granted(n) PROVE Settled'
  <2>. SUFFICES ASSUME ~untimely'
                PROVE  Settled'
    OBVIOUS
  <2>1. isListening /\ OnlyLast /\ n = starts /\ mediaStream = NoStart
    BY <1>1 DEF Granted
  <2>2. /\ open' = {starts} /\ mediaStream' = starts
        /\ \A m \in Start : phase'[m] = IF m = n THEN "loading" ELSE phase[m]
    BY <1>1, <2>1 DEF Granted
  <2>3. OnlyLast'
    BY <1>1, <2>1, <2>2 DEF Granted
  <2>. QED
    BY <1>1, <2>1, <2>3 DEF Granted
<1>2. ASSUME NEW n \in Start, Loaded(n) PROVE Settled'
  BY <1>2 DEF Loaded
<1>3. ASSUME NEW n \in Start, StartFails(n) PROVE Settled'
  BY <1>3 DEF StartFails, Starting
<1>4. ASSUME NEW n \in Start, SocketOpens(n) PROVE Settled'
  BY <1>4 DEF SocketOpens
<1>5. ASSUME NEW n \in Start, SocketEnds(n) PROVE Settled'
  BY <1>5 DEF SocketEnds
<1>6. ASSUME NEW n \in Start, EqualiserGranted(n) PROVE Settled'
  BY <1>6 DEF EqualiserGranted
<1>7. ASSUME NEW n \in Start, EqualiserDenied(n) PROVE Settled'
  BY <1>7 DEF EqualiserDenied
<1>8. CASE SwitchOn
  BY <1>8 DEF SwitchOn
<1>9. CASE SwitchOff
  BY <1>9, StopSettles DEF SwitchOff
<1>10. CASE Leave
  BY <1>10, StopSettles DEF Leave
<1>11. CASE Reset
  BY <1>11 DEF Reset, EqualiserCleanup
<1>12. CASE NotAllowed
  BY <1>12 DEF NotAllowed
<1>13. CASE ToggleSpeaker
  BY <1>13 DEF ToggleSpeaker, Other
<1>14. ASSUME NEW r \in Role, NEW here \in BOOLEAN, SetSpeaker(r, here) PROVE Settled'
  BY <1>14 DEF SetSpeaker
<1>15. ASSUME NEW l \in Language, SetLanguage(l) PROVE Settled'
  BY <1>15 DEF SetLanguage
<1>16. CASE UNCHANGED vars
  BY <1>16
<1>. QED
  BY <1>1, <1>2, <1>3, <1>4, <1>5, <1>6, <1>7, <1>8, <1>9,
     <1>10, <1>11, <1>12, <1>13, <1>14, <1>15, <1>16 DEF Next

-----------------------------------------------------------------------------
(* The invariant holds when the page is opened: nothing is on yet. *)
LEMMA CaptureInit == Init => CaptureInv
<1> USE CaptureAssumption DEF Init, Start, NoStart
<1>1. ASSUME Init
      PROVE  TypeOK
  <2>1. /\ {isListening, isRecording, speech} \cup {untimely, wasReset, refused, left} \subseteq BOOLEAN
        /\ {role, serviceRole} \subseteq Role /\ {language, serviceLanguage} \subseteq Language
    BY <1>1 DEF Role
  <2>2. /\ phase \in [Start -> {"none", "asking", "loading", "done"}]
        /\ context \in [Start -> Start \cup {NoStart}]
        /\ socket \in [Start -> {"none", "connecting", "open", "closed"}]
        /\ greeted \in [Start -> Nat]
        /\ equaliser \in [Start -> {"off", "asking", "on"}]
    BY <1>1
  <2>3. /\ starts \in 0..MaxStarts
        /\ mediaStream \in Start \cup {NoStart} /\ ws \in Start \cup {NoStart}
        /\ open \subseteq 1..starts /\ loaded \subseteq 1..starts
    BY <1>1
  <2>. QED
    BY <2>1, <2>2, <2>3 DEF TypeOK
<1>2. Init => Fresh /\ Quiet
  BY DEF Fresh, Quiet
<1>3. Init => PageTellsTruth
  BY DEF PageTellsTruth
<1>4. Init => Settled
  BY DEF Settled, AllOff
<1>. QED
  BY <1>1, <1>2, <1>3, <1>4 DEF CaptureInv

(* What the theorems below rest on, in every reachable state. *)
THEOREM CaptureInductive == Spec => []CaptureInv
<1>1. CaptureInv /\ [Next]_vars => CaptureInv'
  <2> SUFFICES ASSUME CaptureInv, [Next]_vars
               PROVE  CaptureInv'
    OBVIOUS
  <2>. QED
    BY CaptureTypeStep, FreshStep, QuietStep, PageStep, SettledStep DEF CaptureInv
<1>. QED
  BY CaptureInit, <1>1, PTL DEF Spec

(* At most the last start's node delivers, while nothing untimely happened. *)
LEMMA OneNode ==
    ASSUME CaptureInv, ~untimely
    PROVE  Cardinality(Delivering) <= 1
<1> USE DEF CaptureInv, TypeOK, Settled
<1>1. open \subseteq {starts} /\ starts \in Nat /\ \A n \in Start : context[n] \in {NoStart, n}
  BY CaptureAssumption DEF OnlyLast, AllOff
<1>2. Delivering \subseteq {starts}
  <2> SUFFICES ASSUME NEW n \in Start, context[n] \in open
               PROVE  n = starts
    BY DEF Delivering
  <2>1. NoStart \notin open
    BY CaptureAssumption DEF NoStart
  <2>. QED
    BY <1>1, <2>1
<1>3. Delivering = {} \/ Delivering = {starts}
  BY <1>2
<1>4. Cardinality({}) = 0 /\ Cardinality({starts}) = 1
  BY FS_EmptySet, FS_Singleton
<1>. QED
  BY <1>3, <1>4

(* Nothing that was switched on is left on, or on twice, as long as nothing *)
(* was switched off while starting and no interview reset while listening: *)
(* stop and disconnect release what start and connect took.                *)
THEOREM NothingLeftOn == Spec => []SwitchedOff
<1>1. CaptureInv => SwitchedOff
  <2> SUFFICES ASSUME CaptureInv
               PROVE  SwitchedOff
    OBVIOUS
  <2>1. CASE untimely
    BY <2>1 DEF SwitchedOff, CaptureInv
  <2>2. CASE ~untimely
    <3>1. Cardinality(Delivering) <= 1
      BY <2>2, OneNode
    <3>2. /\ open \subseteq (IF isListening THEN {starts} ELSE {})
          /\ \A n \in Start : socket[n] \in {"connecting", "open"} => isListening /\ n = starts
          /\ \A n \in Start : socket[n] = "open" => greeted[n] = 1
      BY <2>2 DEF CaptureInv, TypeOK, Settled, OnlyLast, AllOff
    <3>. QED
      BY <3>1, <3>2 DEF SwitchedOff, CaptureInv
  <2>. QED
    BY <2>1, <2>2 DEF CaptureInv, TypeOK
<1>. QED
  BY CaptureInductive, <1>1, PTL

(* Nothing said is sent while the page does not listen, but after a reset; *)
(* and the equaliser's microphone is off then: its cleanup and the look at *)
(* isActive after getUserMedia see to it in any order.                     *)
THEOREM NothingSent == Spec => []QuietWhenOff
<1>1. CaptureInv => QuietWhenOff
  BY DEF CaptureInv, Quiet, QuietWhenOff, Sending
<1>. QED
  BY CaptureInductive, <1>1, PTL

(* What the page shows is what the speech service does, until the browser  *)
(* refuses the recogniser or the page is left.                             *)
THEOREM PageIsRight == Spec => []PageTellsTruth
  BY CaptureInductive, PTL DEF CaptureInv

-----------------------------------------------------------------------------
(* The interview. *)
Item == [text : Text, speaker : Speaker]
TextsOf(items) == [k \in DOMAIN items |-> items[k].text]

(* The texts in the transcript, and what was or will be evaluated.         *)
Spoken  == {transcript[k].text : k \in DOMAIN transcript}
Answers == evaluations \cup {call[c].answer : c \in Analyses}

(* What of tells is about the beginning of items, or of nothing in this    *)
(* interview.                                                              *)
Begins(of, items) ==
    \/ of \in {None, Past}
    \/ /\ of \in Seq(Text) /\ Len(of) <= Len(items)
       /\ \A k \in 1..Len(of) : of[k] = items[k].text

(* Flags and calls: what BusyWhileWorking says, and what a report leaves   *)
(* behind when it ends.                                                     *)
Working ==
    /\ isAnalyzing => Analyses # {}
    /\ \A c \in Analyses : call[c].overtaken \/ isAnalyzing
    /\ isGeneratingReport => Reports # {}
    /\ \A c \in Reports : call[c].overtaken \/ isGeneratingReport
    /\ \A c \in Analyses : call[c].kind = "evaluation" => call[c].answer # None
    /\ awaited => isGeneratingReport \/ aiError \/ finalReport # None

(* Every text is in its place (TranscriptComplete).                        *)
Complete ==
    /\ \A i, j \in DOMAIN transcript : transcript[i].text = transcript[j].text => i = j
    /\ 1..said = Spoken \cup cleared \cup Unheard
    /\ \A i, j \in DOMAIN transcript :
         i < j /\ transcript[i].text > transcript[j].text => transcript[j].text \in waited

(* A text whose speaker is asked for is not in the transcript yet, and if  *)
(* a later one is, it had to wait.                                         *)
Waiting ==
    /\ \A c, d \in Underway({"heard"}) : call[c].text = call[d].text => c = d
    /\ Unheard \cap Spoken = {}
    /\ \A t \in Unheard : \A k \in DOMAIN transcript : transcript[k].text > t => t \in waited

(* Calls and what is shown are about the beginning of the transcript.      *)
About ==
    /\ Begins(questions, transcript) /\ Begins(finalReport, transcript)
    /\ \A c \in Analyses \cup Reports : Begins(call[c].of, transcript)

(* What is or will be evaluated is in the transcript, as the candidate's.  *)
Answered ==
    /\ Answers \ {None, Past} \subseteq Spoken
    /\ \A k \in DOMAIN transcript : transcript[k].text \in Answers =>
         transcript[k].speaker = "candidate" \/ transcript[k].text \in relabelled

InterviewInv == ITypeOK /\ Working /\ Complete /\ Waiting /\ About /\ Answered

-----------------------------------------------------------------------------
(* A set of positions that is not empty has a last one. *)
LEMMA HasLast ==
    ASSUME NEW n \in Nat, NEW I \in SUBSET (1..n), I # {}
    PROVE  \E m \in I : \A k \in I : m >= k
<1> DEFINE R == OpToRel(<, Nat)
           J == {n - k : k \in I}
<1>1. J \subseteq Nat /\ J # {}
  <2>1. \A k \in I : n - k \in Nat
    OBVIOUS
  <2> QED
    BY <2>1
<1>2. IsWellFoundedOn(R, Nat)
  BY NatLessThanWellFounded
<1> HIDE DEF J
<1>3. PICK x \in J : \A y \in J : ~(<<y, x>> \in R)
  BY <1>1, <1>2, WFMin
<1>4. \A y \in J : ~(y < x)
  BY <1>1, <1>3 DEF OpToRel
<1>5. PICK m \in I : x = n - m
  BY DEF J
<1>6. ASSUME NEW k \in I PROVE m >= k
  <2>1. ~(n - k < n - m)
    BY <1>4, <1>5 DEF J
  <2> QED
    BY <2>1
<1> QED
  BY <1>6

(* The last answer is a text of the candidate's. *)
LEMMA LastAnswerIs ==
    ASSUME NEW items \in Seq(Item)
    PROVE  \/ LastAnswer(items) = None
           \/ \E k \in 1..Len(items) :
                items[k].speaker = "candidate" /\ LastAnswer(items) = items[k].text
<1> DEFINE I == {k \in 1..Len(items) : items[k].speaker = "candidate"}
           j == SelectLastInSeq(items, LAMBDA x : x.speaker = "candidate")
<1>1. j = IF I # {} THEN Max(I) ELSE 0
  BY DEF SelectLastInSeq
<1>2. LastAnswer(items) = IF j = 0 THEN None ELSE items[j].text
  BY DEF LastAnswer
<1>3. CASE I = {}
  BY <1>1, <1>2, <1>3
<1>4. CASE I # {}
  <2>1. Len(items) \in Nat /\ I \in SUBSET (1..Len(items))
    OBVIOUS
  <2> HIDE DEF I
  <2>3. \E m \in I : \A k \in I : m >= k
    BY <1>4, <2>1, HasLast
  <2>2. Max(I) \in I
    BY <2>3 DEF Max
  <2>4. j = Max(I) /\ Max(I) \in 1..Len(items) /\ items[Max(I)].speaker = "candidate"
    BY <1>1, <1>4, <2>2 DEF I
  <2> QED
    BY <1>2, <2>4
<1> QED
  BY <1>3, <1>4

(* What items are made of. *)
LEMMA ItemsAre ==
    ASSUME NEW items \in Seq(Item), NEW k \in 1..Len(items)
    PROVE  items[k] \in Item /\ items[k].text \in Text /\ items[k].speaker \in Speaker
<1>1. items[k] \in Item
  OBVIOUS
<1> QED
  BY <1>1 DEF Item

(* The texts of items. *)
LEMMA TextsAre ==
    ASSUME NEW items \in Seq(Item)
    PROVE  /\ TextsOf(items) \in Seq(Text)
           /\ Len(TextsOf(items)) = Len(items)
           /\ \A k \in 1..Len(items) : TextsOf(items)[k] = items[k].text
<1>1. \A k \in 1..Len(items) : items[k].text \in Text
  BY ItemsAre
<1> QED
  BY <1>1 DEF TextsOf

(* What an analysis of items is, and what a report and a question are.     *)
LEMMA NewCalls ==
    ASSUME NEW items \in Seq(Item)
    PROVE  /\ LastAnswer(items) \in Text \cup {None}
           /\ \A a \in Text \cup {None} :
                [kind |-> "questions", of |-> TextsOf(items), answer |-> a, overtaken |-> FALSE]
                    \in CallRecord
           /\ [kind |-> "report", of |-> TextsOf(items), overtaken |-> FALSE] \in CallRecord
           /\ \A k \in {"heard", "typed"} : \A t \in Text, s \in Speaker :
                [kind |-> k, text |-> t, guess |-> s] \in CallRecord
<1>1. LastAnswer(items) \in Text \cup {None}
  <2>1. \A k \in 1..Len(items) : items[k].text \in Text
    BY ItemsAre
  <2> QED
    BY <2>1, LastAnswerIs
<1>2. TextsOf(items) \in Basis
  BY TextsAre DEF Basis
<1> QED
  BY <1>1, <1>2 DEF CallRecord

-----------------------------------------------------------------------------
(* What the parts of the actions do to transcript and calls.               *)

(* A text comes last in the transcript; texts that wait are noted.         *)
LEMMA InsertIs ==
    ASSUME transcript \in Seq(Item), NEW t \in Text, NEW s \in Speaker, NEW detected,
           Insert(t, s, detected)
    PROVE  /\ transcript' \in Seq(Item)
           /\ Len(transcript') = Len(transcript) + 1
           /\ \A k \in 1..Len(transcript) : transcript'[k] = transcript[k]
           /\ transcript'[Len(transcript) + 1] = [text |-> t, speaker |-> s]
           /\ currentSpeaker' \in {currentSpeaker} \cup Speaker
           /\ waited' = waited \cup (Unheard \ {t})
<1>1. [text |-> t, speaker |-> s] \in Item
  BY DEF Item
<1>2. transcript' = Append(transcript, [text |-> t, speaker |-> s])
  BY DEF Insert
<1>3. OtherSpeaker(s) \in Speaker
  BY DEF OtherSpeaker, Speaker
<1>4. currentSpeaker' \in {currentSpeaker} \cup Speaker /\ waited' = waited \cup (Unheard \ {t})
  BY <1>3 DEF Insert
<1> QED
  BY <1>1, <1>2, <1>4, AppendProperties

(* An analysis of items begins. *)
LEMMA TriggerIs ==
    ASSUME NEW items \in Seq(Item), NEW c \in Call, NEW standard \in BOOLEAN,
           call \in [Call -> {None} \cup CallRecord], Trigger(c, items, standard)
    PROVE  /\ call[c] = None /\ isAnalyzing' = TRUE /\ WipeError
           /\ \E a \in {None, LastAnswer(items)} :
                call' = [call EXCEPT ![c] =
                    [kind |-> "questions", of |-> TextsOf(items), answer |-> a, overtaken |-> FALSE]]
           /\ call' \in [Call -> {None} \cup CallRecord]
<1> DEFINE a == IF standard THEN LastAnswer(items) ELSE None
           x == [kind |-> "questions", of |-> TextsOf(items), answer |-> a, overtaken |-> FALSE]
<1>1. call[c] = None /\ call' = [call EXCEPT ![c] = x] /\ isAnalyzing' = TRUE /\ WipeError
  BY DEF Trigger, Begin, Busy, TextsOf
<1>2. a \in {None, LastAnswer(items)} /\ a \in Text \cup {None}
  BY NewCalls
<1> HIDE DEF a
<1>3. x \in CallRecord
  BY <1>2, NewCalls
<1>4. call' \in [Call -> {None} \cup CallRecord]
  BY <1>1, <1>3
<1> QED
  BY <1>1, <1>2, <1>4

(* A call ends: it is gone, others of its kind are marked.                 *)
LEMMA EndIs ==
    ASSUME call \in [Call -> {None} \cup CallRecord], NEW c \in Call,
           NEW same \in {Analyses, Reports}, EndOf(c, same)
    PROVE  /\ call' \in [Call -> {None} \cup CallRecord]
           /\ call'[c] = None
           /\ \A d \in Call \ {c} :
                /\ d \notin same => call'[d] = call[d]
                /\ d \in same =>
                     /\ call'[d] # None /\ call'[d].kind = call[d].kind
                     /\ call'[d].of = call[d].of /\ call'[d].overtaken
                     /\ d \in Analyses => call'[d].answer = call[d].answer
<1>1. \A d \in same : call[d] \in CallRecord /\ call[d].kind \in {"questions", "evaluation", "report"}
  BY DEF Analyses, Reports, Underway, Busy
<1>2. ASSUME NEW d \in same
      PROVE  LET x == [call[d] EXCEPT !.overtaken = TRUE] IN
             /\ x \in CallRecord /\ x # None /\ x.kind = call[d].kind /\ x.of = call[d].of
             /\ x.overtaken /\ (d \in Analyses => x.answer = call[d].answer)
  <2>1. CASE d \in Analyses
    <3>1. call[d] \in [kind : {"questions", "evaluation"}, of : Basis,
                       answer : Text \cup {None, Past}, overtaken : BOOLEAN]
      BY <1>1, <2>1 DEF Analyses, Underway, CallRecord
    <3>2. [call[d] EXCEPT !.overtaken = TRUE] \in CallRecord
      BY <3>1 DEF CallRecord
    <3> QED
      BY <3>1, <3>2, NoneAssumption
  <2>2. CASE d \notin Analyses
    <3>1. call[d] \in [kind : {"report"}, of : Basis, overtaken : BOOLEAN]
      BY <1>1, <2>2 DEF Analyses, Reports, Underway, CallRecord
    <3>2. [call[d] EXCEPT !.overtaken = TRUE] \in CallRecord
      BY <3>1 DEF CallRecord
    <3> QED
      BY <2>2, <3>1, <3>2, NoneAssumption
  <2> QED
    BY <2>1, <2>2
<1>3. \A d \in Call : call'[d] = IF d = c THEN None
         ELSE IF d \in same THEN [call[d] EXCEPT !.overtaken = TRUE] ELSE call[d]
  BY DEF EndOf
<1>4. call' = [d \in Call |-> call'[d]]
  BY DEF EndOf
<1>5. \A d \in Call : call'[d] \in {None} \cup CallRecord
  BY <1>2, <1>3
<1>6. call' \in [Call -> {None} \cup CallRecord]
  BY <1>4, <1>5
<1> QED
  BY <1>2, <1>3, <1>6

-----------------------------------------------------------------------------
(* What InterviewInv says of the types, as the steps below need it. *)
Kinds ==
    /\ transcript \in Seq(Item)
    /\ call \in [Call -> {None} \cup CallRecord]
    /\ questions \in Basis \cup {None} /\ finalReport \in Basis \cup {None}
    /\ evaluations \subseteq Text \cup {Past}
    /\ {isAnalyzing, aiError, isGeneratingReport, isSummaryOpen, autoDetectSpeaker,
        detects, awaited} \subseteq BOOLEAN
    /\ currentSpeaker \in Speaker
    /\ hearing \in {"off", "on", "ending"}
    /\ said \in 0..MaxSaid

Counted == waited \cup cleared \cup relabelled \subseteq 1..said

(* The types of the calls. *)
LEMMA CallTypes ==
    ASSUME Kinds, NEW c \in Call
    PROVE  /\ c \in Analyses => call[c].of \in Basis /\ call[c].answer \in Text \cup {None, Past}
                                /\ call[c].kind \in {"questions", "evaluation"}
                                /\ call[c].overtaken \in BOOLEAN
           /\ c \in Reports => call[c].of \in Basis /\ call[c].overtaken \in BOOLEAN
           /\ c \in Underway({"heard", "typed"}) => call[c].text \in Text /\ call[c].guess \in Speaker
BY DEF Kinds, Analyses, Reports, Underway, Busy, CallRecord

(* The text that a call asks the speaker of. *)
HeardBy(c) == IF call[c] # None /\ call[c].kind = "heard" THEN call[c].text ELSE None

AnalysisOf(items) ==
    [kind : {"questions"}, of : {TextsOf(items)}, answer : {None, LastAnswer(items)},
     overtaken : {FALSE}]

(* Calls go on, but for some that are not of an analysis or report and end *)
(* or give way to another; and the flags go with them.                     *)
CallsGo ==
    /\ call' \in [Call -> {None} \cup CallRecord]
    /\ \A d \in Call :
         \/ call'[d] = call[d]
         \/ /\ d \notin Analyses \cup Reports
            /\ \/ call'[d] = None
               \/ call'[d] \in [kind : {"heard", "typed"}, text : Text, guess : Speaker]
               \/ call'[d] \in AnalysisOf(transcript')
    /\ \/ UNCHANGED work /\ Analyses' = Analyses
       \/ isAnalyzing' = TRUE /\ WipeError /\ Analyses' # {}

SameHeard == \A d \in Call : HeardBy(d)' = HeardBy(d)

(* A text t is inserted: one just said, or one that a call was about.      *)
Inserted(t) ==
    /\ t \in Text /\ \E s \in Speaker : \E detected \in BOOLEAN : Insert(t, s, detected)
    /\ \/ t = said + 1 /\ said' = said + 1 /\ SameHeard
       \/ /\ said' = said
          /\ \E c \in Call : /\ HeardBy(c) = t /\ HeardBy(c)' = None
                             /\ \A d \in Call \ {c} : HeardBy(d)' = HeardBy(d)
    /\ CallsGo
    /\ UNCHANGED <<Kept, relabelled>>

(* An analysis that begins. *)
LEMMA TriggerGoes ==
    ASSUME Kinds, transcript' \in Seq(Item), NEW c \in Call, NEW standard \in BOOLEAN,
           Trigger(c, transcript', standard)
    PROVE  CallsGo /\ SameHeard
<1>1. PICK a \in {None, LastAnswer(transcript')} :
        call' = [call EXCEPT ![c] = [kind |-> "questions", of |-> TextsOf(transcript'),
                                     answer |-> a, overtaken |-> FALSE]]
  BY TriggerIs DEF Kinds
<1> DEFINE x == [kind |-> "questions", of |-> TextsOf(transcript'), answer |-> a,
                 overtaken |-> FALSE]
<1>2. /\ call[c] = None /\ isAnalyzing' = TRUE /\ WipeError
      /\ call' \in [Call -> {None} \cup CallRecord]
  BY TriggerIs DEF Kinds
<1>3. x \in AnalysisOf(transcript') /\ x.kind = "questions"
  BY DEF AnalysisOf
<1>4. call'[c] = x /\ \A d \in Call \ {c} : call'[d] = call[d]
  BY <1>1 DEF Kinds
<1>5. x \in CallRecord
  BY <1>1, NewCalls DEF Kinds
<1> HIDE DEF x
<1>6. x # None
  BY <1>5, NoneAssumption
<1>7. c \in Analyses' /\ c \notin Analyses \cup Reports
  BY <1>2, <1>3, <1>4, <1>6 DEF Analyses, Reports, Underway, Busy
<1>8. SameHeard
  BY <1>2, <1>3, <1>4 DEF SameHeard, HeardBy
<1> QED
  BY <1>2, <1>3, <1>4, <1>7, <1>8 DEF CallsGo

(* A call that asks for a speaker begins. *)
LEMMA AskGoes ==
    ASSUME Kinds, NEW c \in Call, NEW k \in {"heard", "typed"}, NEW t \in Text, NEW g \in Speaker,
           Begin(c, [kind |-> k, text |-> t, guess |-> g]), UNCHANGED work
    PROVE  /\ CallsGo
           /\ HeardBy(c) = None /\ HeardBy(c)' = IF k = "heard" THEN t ELSE None
           /\ \A d \in Call \ {c} : HeardBy(d)' = HeardBy(d)
<1> DEFINE x == [kind |-> k, text |-> t, guess |-> g]
<1>1. call[c] = None /\ call' = [call EXCEPT ![c] = x]
  BY DEF Begin, Busy
<1>2. /\ x \in CallRecord /\ x.kind = k /\ x.text = t
      /\ x \in [kind : {"heard", "typed"}, text : Text, guess : Speaker]
  BY DEF CallRecord
<1> HIDE DEF x
<1>3. call'[c] = x /\ \A d \in Call \ {c} : call'[d] = call[d]
  BY <1>1 DEF Kinds
<1>4. call' \in [Call -> {None} \cup CallRecord]
  BY <1>1, <1>2 DEF Kinds
<1>5. c \notin Analyses \cup Reports /\ Analyses' = Analyses
  BY <1>1, <1>2, <1>3 DEF Analyses, Reports, Underway, Busy
<1>6. x # None
  BY <1>2, NoneAssumption
<1> QED
  BY <1>1, <1>2, <1>3, <1>4, <1>5, <1>6 DEF CallsGo, HeardBy

-----------------------------------------------------------------------------
(* The actions that insert a text, and the one that asks about it first.   *)
LEMMA SaidIs ==
    ASSUME Kinds, said < MaxSaid
    PROVE  said + 1 \in Text /\ said + 1 \in 0..MaxSaid
BY InterviewAssumption DEF Kinds, Text

(* A text that is heard. *)
LEMMA HeardInserts ==
    ASSUME Kinds, NEW c \in Call, NEW words \in Words, Heard(c, words)
    PROVE  \/ Inserted(said + 1)
           \/ /\ UNCHANGED <<transcript, work, currentSpeaker, waited, Kept, relabelled>>
              /\ said' = said + 1 /\ said + 1 \in Text
              /\ HeardBy(c) = None /\ HeardBy(c)' = said + 1
              /\ \A d \in Call \ {c} : HeardBy(d)' = HeardBy(d)
              /\ CallsGo
<1>1. /\ said' = said + 1 /\ said + 1 \in Text /\ UNCHANGED <<Kept, relabelled>>
      /\ currentSpeaker \in Speaker /\ detects \in BOOLEAN
  BY SaidIs DEF Heard, Kinds
<1>2. CASE detects /\ words = None
  <2>1. UNCHANGED <<transcript, work, currentSpeaker, waited>>
    BY <1>2 DEF Heard
  <2>2. Begin(c, [kind |-> "heard", text |-> said + 1, guess |-> currentSpeaker])
    BY <1>2 DEF Heard
  <2>3. /\ CallsGo /\ HeardBy(c) = None /\ HeardBy(c)' = said + 1
        /\ \A d \in Call \ {c} : HeardBy(d)' = HeardBy(d)
    <3>1. "heard" \in {"heard", "typed"} /\ UNCHANGED work
      BY <2>1
    <3> QED
      BY <1>1, <2>2, <3>1, AskGoes
  <2> QED
    BY <1>1, <2>1, <2>3
<1>3. CASE ~(detects /\ words = None)
  <2> DEFINE s == IF detects THEN words ELSE currentSpeaker
  <2>1. s \in Speaker
    BY <1>1, <1>3 DEF Words
  <2>2. Insert(said + 1, s, detects)
    BY <1>3 DEF Heard
  <2> HIDE DEF s
  <2>3. transcript' \in Seq(Item)
    BY <1>1, <2>1, <2>2, InsertIs DEF Kinds
  <2>4. CallsGo /\ SameHeard
    <3>1. CASE Analyzed
      <4>1. Trigger(c, transcript', TRUE)
        BY <1>3, <3>1 DEF Heard
      <4> QED
        BY <2>3, <4>1, TriggerGoes
    <3>2. CASE ~Analyzed
      BY <1>3, <3>2 DEF Heard, CallsGo, SameHeard, HeardBy, Kinds, Analyses, Underway, Busy
    <3> QED
      BY <3>1, <3>2
  <2> QED
    BY <1>1, <2>1, <2>2, <2>4 DEF Inserted
<1> QED
  BY <1>2, <1>3

(* A question that is selected. *)
LEMMA SelectInserts ==
    ASSUME Kinds, NEW c \in Call, SelectQuestion(c)
    PROVE  Inserted(said + 1)
<1>1. /\ said' = said + 1 /\ said + 1 \in Text /\ UNCHANGED <<Kept, relabelled>>
      /\ "interviewer" \in Speaker /\ Insert(said + 1, "interviewer", TRUE)
  BY SaidIs DEF SelectQuestion, Speaker
<1>2. transcript' \in Seq(Item)
  BY <1>1, InsertIs DEF Kinds
<1>3. CallsGo /\ SameHeard
  <2>1. CASE Analyzed
    <3>1. Trigger(c, transcript', TRUE)
      BY <2>1 DEF SelectQuestion
    <3> QED
      BY <1>2, <3>1, TriggerGoes
  <2>2. CASE ~Analyzed
    BY <2>2 DEF SelectQuestion, CallsGo, SameHeard, HeardBy, Kinds, Analyses, Underway, Busy
  <2> QED
    BY <2>1, <2>2
<1> QED
  BY <1>1, <1>3 DEF Inserted

(* A text that was heard, once its speaker is known. *)
LEMMA HeardAnswerInserts ==
    ASSUME Kinds, NEW c \in Call, NEW s \in Speaker, HeardAnswer(c, s)
    PROVE  Inserted(call[c].text)
<1> DEFINE t == call[c].text
           x == [kind |-> "questions", of |-> TextsOf(transcript'),
                 answer |-> LastAnswer(transcript'), overtaken |-> FALSE]
<1>1. /\ t \in Text /\ HeardBy(c) = t /\ call[c] # None /\ call[c].kind = "heard"
      /\ Insert(t, s, TRUE) /\ said' = said /\ UNCHANGED <<Kept, relabelled>>
  BY CallTypes DEF HeardAnswer, HeardBy, Underway, Busy
<1>2. transcript' \in Seq(Item)
  BY <1>1, InsertIs DEF Kinds
<1>3. c \notin Analyses \cup Reports
  BY <1>1 DEF Analyses, Reports, Underway
<1>4. x \in AnalysisOf(transcript') /\ x.kind = "questions" /\ x \in CallRecord
  <2>1. LastAnswer(transcript') \in Text \cup {None}
    BY <1>2, NewCalls
  <2>2. x \in CallRecord
    BY <1>2, <2>1, NewCalls
  <2> QED
    BY <2>2 DEF AnalysisOf
<1>5. \/ Analyzed /\ call' = [call EXCEPT ![c] = x] /\ isAnalyzing' = TRUE /\ WipeError
      \/ call' = [call EXCEPT ![c] = None] /\ UNCHANGED work
  BY DEF HeardAnswer, TextsOf
<1> HIDE DEF x
<1>6. x # None
  BY <1>4, NoneAssumption
<1>7. /\ \A d \in Call \ {c} : call'[d] = call[d]
      /\ call'[c] \in {x, None}
      /\ call' \in [Call -> {None} \cup CallRecord]
  BY <1>4, <1>5 DEF Kinds
<1>8. HeardBy(c)' = None /\ \A d \in Call \ {c} : HeardBy(d)' = HeardBy(d)
  BY <1>4, <1>7 DEF HeardBy
<1>9. CallsGo
  <2>1. CASE call' = [call EXCEPT ![c] = x] /\ isAnalyzing' = TRUE /\ WipeError
    <3>1. c \in Analyses'
      BY <1>4, <1>6, <2>1 DEF Kinds, Analyses, Underway, Busy
    <3> QED
      BY <1>3, <1>4, <1>7, <2>1, <3>1 DEF CallsGo
  <2>2. CASE call' = [call EXCEPT ![c] = None] /\ UNCHANGED work
    <3>1. Analyses' = Analyses
      BY <1>3, <2>2 DEF Kinds, Analyses, Underway, Busy
    <3>2. call'[c] = None
      BY <2>2 DEF Kinds
    <3> QED
      BY <1>3, <1>7, <2>2, <3>1, <3>2 DEF CallsGo
  <2> QED
    BY <1>5, <2>1, <2>2
<1> QED
  BY <1>1, <1>8, <1>9 DEF Inserted

(* A text that is typed, with the two calls it may begin. *)
LEMMA TypedInserts ==
    ASSUME Kinds, NEW c \in Call, NEW d \in Call, NEW words \in Words, NEW chosen \in Speaker,
           Typed(c, d, words, chosen)
    PROVE  Inserted(said + 1)
<1> DEFINE s == SpeakerOf(words, chosen)
           asked == autoDetectSpeaker /\ words = None
<1>1. /\ said' = said + 1 /\ said + 1 \in Text /\ UNCHANGED <<Kept, relabelled>>
      /\ autoDetectSpeaker \in BOOLEAN /\ Insert(said + 1, s, autoDetectSpeaker)
  BY SaidIs DEF Typed, Kinds
<1>2. s \in Speaker
  BY DEF SpeakerOf, Words, Kinds
<1>3. \/ Analyzed /\ BeginBoth(c, d, s, transcript')
      \/ Begin(c, [kind |-> "typed", text |-> said + 1, guess |-> s]) /\ UNCHANGED work
      \/ Trigger(c, transcript', TRUE)
      \/ UNCHANGED <<call, work>>
  BY DEF Typed
<1> HIDE DEF s
<1>4. transcript' \in Seq(Item)
  BY <1>1, <1>2, InsertIs DEF Kinds
<1>5. CallsGo /\ SameHeard
  <2>1. CASE Analyzed /\ BeginBoth(c, d, s, transcript')
    <3> DEFINE x == [kind |-> "typed", text |-> said + 1, guess |-> s]
               y == [kind |-> "questions", of |-> TextsOf(transcript'),
                     answer |-> LastAnswer(transcript'), overtaken |-> FALSE]
    <3>1. /\ c # d /\ call[c] = None /\ call[d] = None
          /\ call' = [call EXCEPT ![c] = x, ![d] = y]
          /\ isAnalyzing' = TRUE /\ WipeError
      BY <2>1 DEF BeginBoth, Busy, TextsOf
    <3>2. /\ x \in CallRecord /\ x.kind = "typed"
          /\ x \in [kind : {"heard", "typed"}, text : Text, guess : Speaker]
      BY <1>1, <1>2 DEF CallRecord
    <3>3. LastAnswer(transcript') \in Text \cup {None}
      BY <1>4, NewCalls
    <3>4. y \in CallRecord
      BY <1>4, <3>3, NewCalls
    <3>5. y \in AnalysisOf(transcript') /\ y.kind = "questions"
      BY DEF AnalysisOf
    <3> HIDE DEF x, y
    <3>6. call'[c] = x /\ call'[d] = y /\ \A b \in Call \ {c, d} : call'[b] = call[b]
      BY <3>1 DEF Kinds
    <3>7. call' \in [Call -> {None} \cup CallRecord]
      BY <3>1, <3>2, <3>4 DEF Kinds
    <3>8. x # None /\ y # None
      BY <3>2, <3>4, NoneAssumption
    <3>9. d \in Analyses' /\ {c, d} \cap (Analyses \cup Reports) = {}
      BY <3>1, <3>5, <3>6, <3>8 DEF Analyses, Reports, Underway, Busy
    <3>10. SameHeard
      <4>1. HeardBy(c) = None /\ HeardBy(d) = None
        BY <3>1 DEF HeardBy
      <4>2. HeardBy(c)' = None /\ HeardBy(d)' = None
        BY <3>2, <3>5, <3>6 DEF HeardBy
      <4>3. \A b \in Call \ {c, d} : HeardBy(b)' = HeardBy(b)
        BY <3>6 DEF HeardBy
      <4> QED
        BY <4>1, <4>2, <4>3 DEF SameHeard
    <3> QED
      BY <3>1, <3>2, <3>5, <3>6, <3>7, <3>9, <3>10 DEF CallsGo
  <2>2. CASE Begin(c, [kind |-> "typed", text |-> said + 1, guess |-> s]) /\ UNCHANGED work
    <3>1. "typed" \in {"heard", "typed"}
      OBVIOUS
    <3>2. /\ CallsGo /\ HeardBy(c) = None /\ HeardBy(c)' = None
          /\ \A b \in Call \ {c} : HeardBy(b)' = HeardBy(b)
      BY <1>1, <1>2, <2>2, <3>1, AskGoes
    <3> QED
      BY <3>2 DEF SameHeard
  <2>3. CASE Trigger(c, transcript', TRUE)
    BY <1>4, <2>3, TriggerGoes
  <2>4. CASE UNCHANGED <<call, work>>
    BY <2>4 DEF CallsGo, SameHeard, HeardBy, Kinds, Analyses, Underway, Busy
  <2> QED
    BY <1>3, <2>1, <2>2, <2>3, <2>4
<1> QED
  BY <1>1, <1>2, <1>5 DEF Inserted

(* After a reset the calls go on; what they bring is of the past. *)
LEMMA ResetCalls ==
    ASSUME Kinds, ResetInterview
    PROVE  /\ call' \in [Call -> {None} \cup CallRecord]
           /\ \A c \in Call \ (Analyses \cup Reports) : call'[c] = call[c]
           /\ \A c \in Analyses \cup Reports :
                call'[c] # None /\ call'[c].kind = call[c].kind /\ call'[c].of = Past
                /\ call'[c].overtaken = call[c].overtaken
           /\ \A c \in Analyses :
                call'[c].answer = IF call[c].answer = None THEN None ELSE Past
<1>1. Past \in Basis
  BY DEF Basis
<1>2. \A c \in Call : call'[c] =
        IF c \in Analyses
        THEN [call[c] EXCEPT !.of = Past, !.answer = IF @ = None THEN None ELSE Past]
        ELSE IF c \in Reports THEN [call[c] EXCEPT !.of = Past] ELSE call[c]
  BY DEF ResetInterview
<1>3. Analyses \subseteq Call /\ Reports \subseteq Call /\ Analyses \cap Reports = {}
  BY DEF Analyses, Reports, Underway, Busy
<1>4. ASSUME NEW c \in Analyses
      PROVE  /\ call'[c] \in CallRecord /\ call'[c].kind = call[c].kind /\ call'[c].of = Past
             /\ call'[c].overtaken = call[c].overtaken
             /\ call'[c].answer = IF call[c].answer = None THEN None ELSE Past
  <2>1. call[c] \in [kind : {"questions", "evaluation"}, of : Basis,
                     answer : Text \cup {None, Past}, overtaken : BOOLEAN]
    BY DEF Kinds, CallRecord, Analyses, Underway, Busy
  <2>2. call'[c] = [call[c] EXCEPT !.of = Past, !.answer = IF call[c].answer = None THEN None ELSE Past]
    BY <1>2, <1>3
  <2> QED
    BY <1>1, <2>1, <2>2 DEF CallRecord
<1>5. ASSUME NEW c \in Reports
      PROVE  /\ call'[c] \in CallRecord /\ call'[c].kind = call[c].kind /\ call'[c].of = Past
             /\ call'[c].overtaken = call[c].overtaken
  <2>1. call[c] \in [kind : {"report"}, of : Basis, overtaken : BOOLEAN]
    BY DEF Kinds, CallRecord, Reports, Underway, Busy
  <2>2. call'[c] = [call[c] EXCEPT !.of = Past]
    BY <1>2, <1>3
  <2> QED
    BY <1>1, <2>1, <2>2 DEF CallRecord
<1>6. call' = [c \in Call |-> call'[c]]
  BY DEF ResetInterview
<1>7. \A c \in Call : call'[c] \in {None} \cup CallRecord
  BY <1>2, <1>4, <1>5 DEF Kinds
<1>8. call' \in [Call -> {None} \cup CallRecord]
  BY <1>6, <1>7
<1> QED
  BY <1>2, <1>3, <1>4, <1>5, <1>8, NoneAssumption

-----------------------------------------------------------------------------
(* The types of Inserted, and of each other action. *)
LEMMA KindsStep ==
    ASSUME Kinds, Working, [INext]_ivars
    PROVE  Kinds'
<1> USE InterviewAssumption
<1>1. ASSUME NEW t, Inserted(t) PROVE Kinds'
  <2>1. transcript' \in Seq(Item) /\ currentSpeaker' \in Speaker
    BY <1>1, InsertIs DEF Inserted, Kinds
  <2>2. said' \in 0..MaxSaid
    BY <1>1 DEF Inserted, Kinds, Text
  <2>3. call' \in [Call -> {None} \cup CallRecord] /\ {isAnalyzing', aiError', awaited'} \subseteq BOOLEAN
    BY <1>1 DEF Inserted, CallsGo, WipeError, work, Kinds
  <2> QED
    BY <1>1, <2>1, <2>2, <2>3 DEF Inserted, Kept, service, Kinds
<1>2. ASSUME NEW c \in Call, NEW words \in Words, Heard(c, words) PROVE Kinds'
  <2>1. CASE Inserted(said + 1)
    BY <1>1, <2>1
  <2>2. CASE /\ UNCHANGED <<transcript, work, currentSpeaker, waited, Kept, relabelled>>
             /\ said' = said + 1 /\ said + 1 \in Text /\ CallsGo
    BY <2>2 DEF CallsGo, work, Kept, service, Kinds, Text
  <2> QED
    BY <1>2, <2>1, <2>2, HeardInserts
<1>3. ASSUME NEW c \in Call, NEW d \in Call, NEW words \in Words, NEW s \in Speaker,
             Typed(c, d, words, s)
      PROVE  Kinds'
  BY <1>1, <1>3, TypedInserts
<1>4. ASSUME NEW c \in Call, SelectQuestion(c) PROVE Kinds'
  BY <1>1, <1>4, SelectInserts
<1>5. ASSUME NEW c \in Call, NEW s \in Speaker, HeardAnswer(c, s) PROVE Kinds'
  BY <1>1, <1>5, HeardAnswerInserts
<1>6. ASSUME NEW c \in Call, QuestionsArrive(c) PROVE Kinds'
  <2>1. /\ questions' \in Basis
        /\ UNCHANGED <<transcript, evaluations, finalReport, aiError, isGeneratingReport,
                       isSummaryOpen, awaited, speakers, service, ihistory>>
    BY <1>6, CallTypes DEF QuestionsArrive, AnalysisEnds
  <2>2. call' \in [Call -> {None} \cup CallRecord] /\ isAnalyzing' \in BOOLEAN
    <3>1. CASE AnalysisEnds(c)
      BY <3>1, EndIs DEF AnalysisEnds, Kinds
    <3>2. CASE call' = [call EXCEPT ![c].kind = "evaluation"] /\ UNCHANGED isAnalyzing
      <4>1. call[c] \in [kind : {"questions", "evaluation"}, of : Basis,
                         answer : Text \cup {None, Past}, overtaken : BOOLEAN]
        BY <1>6 DEF QuestionsArrive, Kinds, CallRecord, Analyses, Underway, Busy
      <4>2. [call[c] EXCEPT !.kind = "evaluation"] \in CallRecord
        BY <4>1 DEF CallRecord
      <4> QED
        BY <3>2, <4>2 DEF Kinds
    <3> QED
      BY <1>6, <3>1, <3>2 DEF QuestionsArrive
  <2> QED
    BY <2>1, <2>2 DEF Kinds, speakers, service, ihistory
<1>7. ASSUME NEW c \in Call, EvaluationArrives(c) PROVE Kinds'
  <2>1. c \in Analyses /\ call[c].answer # None
    BY <1>7 DEF EvaluationArrives, Working
  <2>2. evaluations' \subseteq Text \cup {Past}
    BY <1>7, <2>1, CallTypes DEF EvaluationArrives, Kinds
  <2>3. call' \in [Call -> {None} \cup CallRecord]
    BY <1>7, EndIs DEF EvaluationArrives, AnalysisEnds, Kinds
  <2> QED
    BY <1>7, <2>2, <2>3 DEF EvaluationArrives, AnalysisEnds, Kinds, speakers, service, ihistory
<1>8. ASSUME NEW c \in Call, AnalysisFails(c) PROVE Kinds'
  BY <1>8, EndIs DEF AnalysisFails, AnalysisEnds, Kinds, shown, speakers, service, ihistory
<1>9. ASSUME NEW c \in Call, NEW standard \in BOOLEAN, AskAnalysis(c, standard) PROVE Kinds'
  <2>1. transcript \in Seq(Item) /\ Trigger(c, transcript, standard)
    BY <1>9 DEF AskAnalysis, Kinds
  <2>2. call' \in [Call -> {None} \cup CallRecord] /\ isAnalyzing' = TRUE /\ WipeError
    BY <2>1, TriggerIs DEF Kinds
  <2> QED
    BY <1>9, <2>2 DEF AskAnalysis, Kinds, WipeError, shown, speakers, service, ihistory
<1>10. ASSUME NEW c \in Call, NEW s \in Speaker, TypedAnswer(c, s) PROVE Kinds'
  <2>1. transcript' \in Seq(Item) /\ currentSpeaker' \in Speaker
    <3>1. OtherSpeaker(s) \in Speaker
      BY DEF OtherSpeaker, Speaker
    <3>2. CASE s = call[c].guess
      BY <1>10, <3>2 DEF TypedAnswer, Kinds
    <3>3. CASE s # call[c].guess /\ Len(transcript) = 0
      BY <1>10, <3>1, <3>3 DEF TypedAnswer, Kinds
    <3>4. CASE s # call[c].guess /\ Len(transcript) # 0
      <4> DEFINE n == Len(transcript)
      <4>1. transcript' = [transcript EXCEPT ![n].speaker = s] /\ currentSpeaker' \in Speaker
        BY <1>10, <3>1, <3>4 DEF TypedAnswer, Kinds
      <4>2. n \in 1..Len(transcript) /\ transcript[n] \in Item
        BY <3>4, ItemsAre DEF Kinds
      <4>3. [transcript[n] EXCEPT !.speaker = s] \in Item
        BY <4>2 DEF Item
      <4> QED
        BY <4>1, <4>2, <4>3 DEF Kinds
    <3> QED
      BY <3>2, <3>3, <3>4
  <2>2. call' \in [Call -> {None} \cup CallRecord]
    BY <1>10 DEF TypedAnswer, Kinds
  <2> QED
    BY <1>10, <2>1, <2>2 DEF TypedAnswer, Kinds, Kept, work, service
<1>11. ASSUME NEW c \in Call, TypedFails(c) PROVE Kinds'
  BY <1>11 DEF TypedFails, Kinds, shown, flags, work, speakers, service, ihistory
<1>12. ASSUME NEW c \in Call, OpenSummary(c) PROVE Kinds'
  <2>1. call' \in [Call -> {None} \cup CallRecord]
    <3>1. CASE call' = call
      BY <3>1 DEF Kinds
    <3>2. CASE call' = [call EXCEPT ![c] = [kind |-> "report", of |-> TextsOf(transcript), overtaken |-> FALSE]]
      BY <3>2, NewCalls DEF Kinds
    <3> QED
      BY <1>12, <3>1, <3>2 DEF OpenSummary, Begin, Texts, TextsOf
  <2> QED
    BY <1>12, <2>1 DEF OpenSummary, Kinds, shown, speakers, service, ihistory
<1>13. ASSUME NEW c \in Call, ReportEnds(c) PROVE Kinds'
  <2>1. c \in Reports /\ EndOf(c, Reports)
    BY <1>13 DEF ReportEnds
  <2>2. call' \in [Call -> {None} \cup CallRecord]
    BY <2>1, EndIs DEF Kinds
  <2>3. finalReport' \in Basis \cup {None}
    BY <1>13, <2>1, CallTypes DEF ReportEnds, Kinds
  <2> QED
    BY <1>13, <2>2, <2>3 DEF ReportEnds, Kinds, speakers, service, ihistory
<1>14. ASSUME \/ ToggleListen \/ RecognitionEnds \/ SwitchSpeaker \/ ToggleAutoDetect
              \/ SaveKey \/ CloseSummary
       PROVE  Kinds'
  BY <1>14 DEF ToggleListen, RecognitionEnds, SwitchSpeaker, ToggleAutoDetect, SaveKey, CloseSummary,
     WipeError, OtherSpeaker, Speaker, Kinds, shown, flags, work, speakers, service, ihistory
<1>15. ASSUME ResetInterview PROVE Kinds'
  <2>1. call' \in [Call -> {None} \cup CallRecord]
    BY <1>15, ResetCalls
  <2>2. /\ transcript' = << >> /\ questions' = None /\ evaluations' = {} /\ finalReport' = None
        /\ isSummaryOpen' = FALSE /\ aiError' = FALSE /\ awaited' = FALSE
        /\ hearing' = IF hearing = "on" THEN "ending" ELSE hearing
        /\ UNCHANGED <<isAnalyzing, isGeneratingReport, currentSpeaker, autoDetectSpeaker, detects, said>>
    BY <1>15 DEF ResetInterview, Cleared, speakers
  <2>3. << >> \in Seq(Item)
    OBVIOUS
  <2>4. hearing' \in {"off", "on", "ending"}
    BY <2>2 DEF Kinds
  <2>5. {isAnalyzing', aiError', isGeneratingReport', isSummaryOpen', autoDetectSpeaker',
         detects', awaited'} \subseteq BOOLEAN
    BY <2>2 DEF Kinds
  <2> QED
    BY <2>1, <2>2, <2>3, <2>4, <2>5 DEF Kinds
<1>16. ASSUME UNCHANGED ivars PROVE Kinds'
  BY <1>16 DEF ivars, Kinds, shown, flags, work, speakers, service, ihistory
<1>17. CASE INext
  <2>1. CASE \E c \in Call :
         \/ QuestionsArrive(c) \/ EvaluationArrives(c) \/ AnalysisFails(c)
         \/ \E standard \in BOOLEAN : AskAnalysis(c, standard)
         \/ \E words \in Words :
              Heard(c, words) \/ \E d \in Call, s \in Speaker : Typed(c, d, words, s)
         \/ SelectQuestion(c)
         \/ \E s \in Speaker : HeardAnswer(c, s) \/ TypedAnswer(c, s)
         \/ TypedFails(c)
         \/ OpenSummary(c) \/ ReportEnds(c)
    BY <1>2, <1>3, <1>4, <1>5, <1>6, <1>7, <1>8, <1>9, <1>10, <1>11, <1>12, <1>13, <2>1
  <2> QED
    BY <1>14, <1>15, <1>17, <2>1 DEF INext
<1> QED
  BY <1>16, <1>17
-----------------------------------------------------------------------------
(* What the steps do to the texts: one is inserted, one is asked about     *)
(* first, they stay, or the interview is reset.                            *)
Asked ==
    /\ UNCHANGED <<transcript, waited, cleared, relabelled>>
    /\ said' = said + 1 /\ said + 1 \in Text
    /\ \E c \in Call : /\ HeardBy(c) = None /\ HeardBy(c)' = said + 1
                       /\ \A d \in Call \ {c} : HeardBy(d)' = HeardBy(d)

TextsKept ==
    /\ Len(transcript') = Len(transcript)
    /\ \A k \in 1..Len(transcript) : transcript'[k].text = transcript[k].text
    /\ UNCHANGED <<said, waited, cleared>> /\ SameHeard
    /\ relabelled' \subseteq relabelled \cup Spoken

(* What calls a step leaves under way: those there were, and new ones      *)
(* about the transcript.                                                   *)
CallsBegin ==
    /\ \A c \in Analyses' :
         \/ c \in Analyses /\ call'[c].of = call[c].of /\ call'[c].answer = call[c].answer
         \/ call'[c].of = TextsOf(transcript') /\ call'[c].answer \in {None, LastAnswer(transcript')}
    /\ \A c \in Reports' :
         \/ c \in Reports /\ call'[c].of = call[c].of
         \/ call'[c].of = TextsOf(transcript')

(* Every step but a reset adds to what there is. *)
Grows ==
    /\ Len(transcript') >= Len(transcript)
    /\ \A k \in 1..Len(transcript) :
         /\ transcript'[k].text = transcript[k].text
         /\ transcript'[k].speaker = transcript[k].speaker \/ transcript[k].text \in relabelled'
    /\ questions' \in {questions} \cup {call[c].of : c \in Analyses}
    /\ finalReport' \in {finalReport} \cup {call[c].of : c \in Reports}
    /\ evaluations' \subseteq Answers
    /\ CallsBegin
    /\ relabelled \subseteq relabelled'

(* When a call ends, the others go on and no text is heard or placed. *)
LEMMA EndGoes ==
    ASSUME Kinds, NEW same \in {Analyses, Reports}, NEW c \in same, EndOf(c, same)
    PROVE  CallsBegin /\ SameHeard
<1>1. /\ call'[c] = None
      /\ \A d \in Call \ {c} :
           /\ d \notin same => call'[d] = call[d]
           /\ d \in same =>
                /\ call'[d] # None /\ call'[d].kind = call[d].kind
                /\ call'[d].of = call[d].of
                /\ d \in Analyses => call'[d].answer = call[d].answer
  <2>1. c \in Call
    BY DEF Analyses, Reports, Underway, Busy
  <2> QED
    BY <2>1, EndIs DEF Kinds
<1>2. CallsBegin
  BY <1>1 DEF CallsBegin, Analyses, Reports, Underway, Busy
<1>3. SameHeard
  BY <1>1 DEF SameHeard, HeardBy, Analyses, Reports, Underway, Busy
<1> QED
  BY <1>2, <1>3

(* Calls that go on leave the analyses and reports as they are. *)
LEMMA GoesBegin ==
    ASSUME CallsGo
    PROVE  CallsBegin
<1>1. ASSUME NEW d \in Call
      PROVE  \/ call'[d] = call[d] \/ d \notin Analyses' \cup Reports'
             \/ /\ call'[d].of = TextsOf(transcript') /\ call'[d].kind = "questions"
                /\ call'[d].answer \in {None, LastAnswer(transcript')}
  BY DEF CallsGo, AnalysisOf, Analyses, Reports, Underway, Busy
<1> QED
  BY <1>1 DEF CallsBegin, Analyses, Reports, Underway, Busy

(* A text that is inserted. *)
LEMMA InsertedGrows ==
    ASSUME Kinds, NEW t, Inserted(t)
    PROVE  Grows
<1>1. /\ Len(transcript') = Len(transcript) + 1
      /\ \A k \in 1..Len(transcript) : transcript'[k] = transcript[k]
  BY InsertIs DEF Inserted, Kinds
<1>2. UNCHANGED <<questions, evaluations, finalReport, relabelled>>
  BY DEF Inserted, Kept
<1>3. CallsBegin
  BY GoesBegin DEF Inserted
<1>4. Len(transcript) \in Nat
  BY DEF Kinds
<1> QED
  BY <1>1, <1>2, <1>3, <1>4 DEF Grows, Answers

(* The transcript stays, and with it the texts. *)
LEMMA Stays ==
    ASSUME Kinds, UNCHANGED <<transcript, ihistory>>, SameHeard, CallsBegin,
           questions' \in {questions} \cup {call[c].of : c \in Analyses},
           finalReport' \in {finalReport} \cup {call[c].of : c \in Reports},
           evaluations' \subseteq Answers
    PROVE  Grows /\ TextsKept
BY DEF Kinds, Grows, TextsKept, ihistory

(* Nothing happens to the calls. *)
LEMMA CallsStay ==
    ASSUME UNCHANGED call
    PROVE  CallsBegin /\ SameHeard
BY DEF CallsBegin, SameHeard, HeardBy, Analyses, Reports, Underway, Busy

(* Every step is of one of these kinds. *)
LEMMA StepIs ==
    ASSUME Kinds, [INext]_ivars
    PROVE  \/ ResetInterview
           \/ Grows /\ ((\E t : Inserted(t)) \/ Asked \/ TextsKept)
<1> DEFINE Goal == Grows /\ ((\E t : Inserted(t)) \/ Asked \/ TextsKept)
<1>0. evaluations \subseteq Answers
  BY DEF Answers
<1>1. ASSUME NEW t, Inserted(t) PROVE Goal
  BY <1>1, InsertedGrows
<1>2. ASSUME NEW c \in Call, NEW words \in Words, Heard(c, words) PROVE Goal
  <2>1. CASE Inserted(said + 1)
    BY <1>1, <2>1
  <2>2. CASE /\ UNCHANGED <<transcript, work, currentSpeaker, waited, Kept, relabelled>>
             /\ said' = said + 1 /\ said + 1 \in Text
             /\ HeardBy(c) = None /\ HeardBy(c)' = said + 1
             /\ \A d \in Call \ {c} : HeardBy(d)' = HeardBy(d)
             /\ CallsGo
    <3>1. UNCHANGED <<transcript, waited, cleared, relabelled, questions, finalReport, evaluations>>
      BY <2>2 DEF Kept
    <3>2. Asked
      BY <2>2, <3>1 DEF Asked
    <3>3. Grows
      BY <1>0, <2>2, <3>1, GoesBegin DEF Grows, Kinds
    <3> QED
      BY <3>2, <3>3
  <2> QED
    BY <1>2, <2>1, <2>2, HeardInserts
<1>3. ASSUME NEW c \in Call, NEW d \in Call, NEW words \in Words, NEW s \in Speaker,
             Typed(c, d, words, s)
      PROVE  Goal
  BY <1>1, <1>3, TypedInserts
<1>4. ASSUME NEW c \in Call, SelectQuestion(c) PROVE Goal
  BY <1>1, <1>4, SelectInserts
<1>5. ASSUME NEW c \in Call, NEW s \in Speaker, HeardAnswer(c, s) PROVE Goal
  BY <1>1, <1>5, HeardAnswerInserts
<1>6. ASSUME NEW c \in Call, QuestionsArrive(c) PROVE Goal
  <2>1. CallsBegin /\ SameHeard
    <3>1. CASE AnalysisEnds(c)
      BY <1>6, <3>1, EndGoes DEF QuestionsArrive, AnalysisEnds
    <3>2. CASE call' = [call EXCEPT ![c].kind = "evaluation"]
      <4>1. /\ \A d \in Call \ {c} : call'[d] = call[d]
            /\ call'[c] = [call[c] EXCEPT !.kind = "evaluation"]
            /\ call[c].kind = "questions" /\ c \in Analyses
            /\ call[c] \in [kind : {"questions", "evaluation"}, of : Basis,
                            answer : Text \cup {None, Past}, overtaken : BOOLEAN]
        BY <1>6, <3>2 DEF QuestionsArrive, Kinds, CallRecord, Analyses, Underway, Busy
      <4>2. /\ call'[c].kind = "evaluation" /\ call'[c].of = call[c].of
            /\ call'[c].answer = call[c].answer
        BY <4>1
      <4> QED
        BY <4>1, <4>2 DEF CallsBegin, SameHeard, HeardBy, Analyses, Reports, Underway, Busy
    <3> QED
      BY <1>6, <3>1, <3>2 DEF QuestionsArrive
  <2> QED
    BY <1>0, <1>6, <2>1, Stays DEF QuestionsArrive
<1>7. ASSUME NEW c \in Call, EvaluationArrives(c) PROVE Goal
  <2>1. evaluations' \subseteq Answers
    BY <1>7 DEF EvaluationArrives, Answers
  <2>2. CallsBegin /\ SameHeard
    BY <1>7, EndGoes DEF EvaluationArrives, AnalysisEnds
  <2> QED
    BY <1>7, <2>1, <2>2, Stays DEF EvaluationArrives
<1>8. ASSUME NEW c \in Call, AnalysisFails(c) PROVE Goal
  BY <1>0, <1>8, EndGoes, Stays DEF AnalysisFails, AnalysisEnds, shown
<1>9. ASSUME NEW c \in Call, NEW standard \in BOOLEAN, AskAnalysis(c, standard) PROVE Goal
  <2>1. /\ transcript' = transcript /\ transcript' \in Seq(Item) /\ Trigger(c, transcript', standard)
        /\ UNCHANGED <<questions, evaluations, finalReport, ihistory>>
    BY <1>9 DEF AskAnalysis, Kinds, shown
  <2>2. CallsBegin /\ SameHeard
    BY <2>1, TriggerGoes, GoesBegin
  <2> QED
    BY <1>0, <2>1, <2>2, Stays
<1>10. ASSUME NEW c \in Call, NEW s \in Speaker, TypedAnswer(c, s) PROVE Goal
  <2> DEFINE n == Len(transcript)
  <2>1. /\ call[c] # None /\ call[c].kind = "typed" /\ call' = [call EXCEPT ![c] = None]
        /\ UNCHANGED <<questions, finalReport, evaluations, said, waited, cleared>>
        /\ n \in Nat
    BY <1>10 DEF TypedAnswer, Underway, Busy, Kept, Kinds
  <2>2. CallsBegin /\ SameHeard
    BY <2>1 DEF CallsBegin, SameHeard, HeardBy, Analyses, Reports, Underway, Busy, Kinds
  <2>3. /\ Len(transcript') = n /\ relabelled \subseteq relabelled'
        /\ \A k \in 1..n : /\ transcript'[k].text = transcript[k].text
                           /\ \/ transcript'[k].speaker = transcript[k].speaker
                              \/ transcript[k].text \in relabelled'
        /\ relabelled' \subseteq relabelled \cup Spoken
    <3>1. CASE UNCHANGED <<transcript, relabelled>>
      BY <3>1
    <3>2. CASE n = 0 /\ transcript' = << >> /\
               relabelled' = relabelled \cup {x.text : x \in {transcript[k] : k \in {n} \ {0}}}
      BY <2>1, <3>2
    <3>3. CASE n # 0 /\ transcript' = [transcript EXCEPT ![n].speaker = s] /\
               relabelled' = relabelled \cup {x.text : x \in {transcript[k] : k \in {n} \ {0}}}
      <4>1. relabelled' = relabelled \cup {transcript[n].text}
        BY <3>3
      <4>2. n \in 1..n /\ transcript[n] \in Item /\ DOMAIN transcript = 1..n
        BY <2>1, <3>3, ItemsAre DEF Kinds
      <4>3. transcript'[n].text = transcript[n].text
        BY <3>3, <4>2 DEF Item
      <4>4. Len(transcript') = n /\ \A k \in 1..n \ {n} : transcript'[k] = transcript[k]
        BY <3>3, <4>2 DEF Kinds
      <4> QED
        BY <4>1, <4>2, <4>3, <4>4 DEF Spoken
    <3> QED
      BY <1>10, <3>1, <3>2, <3>3 DEF TypedAnswer
  <2>4. Grows
    BY <1>0, <2>1, <2>2, <2>3 DEF Grows
  <2>5. TextsKept
    BY <2>1, <2>2, <2>3 DEF TextsKept
  <2> QED
    BY <2>4, <2>5
<1>11. ASSUME NEW c \in Call, TypedFails(c) PROVE Goal
  <2>1. /\ call[c] # None /\ call[c].kind = "typed" /\ call' = [call EXCEPT ![c] = None]
        /\ UNCHANGED <<transcript, questions, finalReport, evaluations, ihistory>>
    BY <1>11 DEF TypedFails, Underway, Busy, shown
  <2>2. CallsBegin /\ SameHeard
    BY <2>1 DEF CallsBegin, SameHeard, HeardBy, Analyses, Reports, Underway, Busy, Kinds
  <2> QED
    BY <1>0, <2>1, <2>2, Stays
<1>12. ASSUME NEW c \in Call, OpenSummary(c) PROVE Goal
  <2>1. CallsBegin /\ SameHeard
    <3>1. CASE call' = call
      BY <3>1, CallsStay
    <3>2. CASE call[c] = None /\ call' = [call EXCEPT ![c] =
                 [kind |-> "report", of |-> TextsOf(transcript'), overtaken |-> FALSE]]
      BY <3>2 DEF CallsBegin, SameHeard, HeardBy, Analyses, Reports, Underway, Busy, Kinds
    <3> QED
      BY <1>12, <3>1, <3>2 DEF OpenSummary, Begin, Busy, Texts, TextsOf, shown
  <2> QED
    BY <1>0, <1>12, <2>1, Stays DEF OpenSummary, shown
<1>13. ASSUME NEW c \in Call, ReportEnds(c) PROVE Goal
  <2>1. CallsBegin /\ SameHeard
    BY <1>13, EndGoes DEF ReportEnds
  <2> QED
    BY <1>0, <1>13, <2>1, Stays DEF ReportEnds
<1>14. ASSUME \/ ToggleListen \/ RecognitionEnds \/ SwitchSpeaker \/ ToggleAutoDetect
              \/ SaveKey \/ CloseSummary \/ UNCHANGED ivars
       PROVE  Goal
  <2>1. UNCHANGED <<shown, call, ihistory>>
    BY <1>14 DEF ToggleListen, RecognitionEnds, SwitchSpeaker, ToggleAutoDetect, SaveKey,
       CloseSummary, ivars
  <2> QED
    BY <1>0, <2>1, CallsStay, Stays DEF shown
<1> HIDE DEF Goal
<1>15. CASE INext
  <2>1. CASE \E c \in Call :
         \/ QuestionsArrive(c) \/ EvaluationArrives(c) \/ AnalysisFails(c)
         \/ \E standard \in BOOLEAN : AskAnalysis(c, standard)
         \/ \E words \in Words :
              Heard(c, words) \/ \E d \in Call, s \in Speaker : Typed(c, d, words, s)
         \/ SelectQuestion(c)
         \/ \E s \in Speaker : HeardAnswer(c, s) \/ TypedAnswer(c, s)
         \/ TypedFails(c)
         \/ OpenSummary(c) \/ ReportEnds(c)
    <3>1. Goal
      BY <1>2, <1>3, <1>4, <1>5, <1>6, <1>7, <1>8, <1>9, <1>10, <1>11, <1>12, <1>13, <2>1
    <3> QED
      BY <3>1 DEF Goal
  <2> QED
    BY <1>14, <1>15, <2>1 DEF INext, Goal
<1> QED
  BY <1>14, <1>15 DEF Goal

-----------------------------------------------------------------------------
(* Calls that end leave those that go on marked, and the others alone. *)
LEMMA EndMarks ==
    ASSUME Kinds, NEW same \in {Analyses, Reports}, NEW c \in same, EndOf(c, same)
    PROVE  /\ same = Analyses => /\ \A d \in Analyses' : /\ d \in Analyses /\ call'[d].overtaken
                                                         /\ call'[d].kind = call[d].kind
                                                         /\ call'[d].answer = call[d].answer
                                 /\ Reports' = Reports /\ \A d \in Reports : call'[d] = call[d]
           /\ same = Reports => /\ \A d \in Reports' : call'[d].overtaken
                                /\ Analyses' = Analyses /\ \A d \in Analyses : call'[d] = call[d]
<1>1. /\ c \in Call /\ call'[c] = None
      /\ \A d \in Call \ {c} :
           /\ d \notin same => call'[d] = call[d]
           /\ d \in same =>
                /\ call'[d] # None /\ call'[d].kind = call[d].kind /\ call'[d].overtaken
                /\ d \in Analyses => call'[d].answer = call[d].answer
  <2>1. c \in Call
    BY DEF Analyses, Reports, Underway, Busy
  <2> QED
    BY <2>1, EndIs DEF Kinds
<1>2. /\ \A d \in Analyses : d \in Call /\ call[d] # None /\ call[d].kind \in {"questions", "evaluation"}
      /\ \A d \in Reports : d \in Call /\ call[d] # None /\ call[d].kind = "report"
      /\ \A d \in Analyses' : d \in Call /\ call'[d] # None /\ call'[d].kind \in {"questions", "evaluation"}
      /\ \A d \in Reports' : d \in Call /\ call'[d] # None /\ call'[d].kind = "report"
  BY DEF Analyses, Reports, Underway, Busy
<1>3. CASE same = Analyses
  <2>1. ASSUME NEW d \in Analyses'
        PROVE  /\ d \in Analyses /\ call'[d].overtaken /\ call'[d].kind = call[d].kind
               /\ call'[d].answer = call[d].answer
    <3>1. d \in Call \ {c}
      BY <1>1, <1>2
    <3>2. d \in Analyses
      BY <1>1, <1>2, <1>3, <3>1 DEF Analyses, Underway, Busy
    <3> QED
      BY <1>1, <1>3, <3>1, <3>2
  <2>2. \A d \in Reports : call'[d] = call[d]
    BY <1>1, <1>2, <1>3
  <2>3. Reports' = Reports
    <3>1. ASSUME NEW d \in Reports' PROVE d \in Reports
      <4>1. d \in Call \ {c} /\ d \notin Analyses
        BY <1>1, <1>2, <1>3
      <4> QED
        BY <1>1, <1>2, <1>3, <4>1 DEF Reports, Underway, Busy
    <3>2. ASSUME NEW d \in Reports PROVE d \in Reports'
      BY <1>2, <2>2 DEF Reports, Underway, Busy
    <3> QED
      BY <3>1, <3>2
  <2> QED
    BY <1>1, <1>2, <1>3, <2>1, <2>2, <2>3
<1>4. CASE same = Reports
  <2>1. ASSUME NEW d \in Reports' PROVE call'[d].overtaken
    <3>1. d \in Call \ {c}
      BY <1>1, <1>2
    <3>2. d \in Reports
      BY <1>1, <1>2, <1>4, <3>1 DEF Reports, Underway, Busy
    <3> QED
      BY <1>1, <1>4, <3>1, <3>2
  <2>2. \A d \in Analyses : call'[d] = call[d]
    BY <1>1, <1>2, <1>4
  <2>3. Analyses' = Analyses
    <3>1. ASSUME NEW d \in Analyses' PROVE d \in Analyses
      <4>1. d \in Call \ {c} /\ d \notin Reports
        BY <1>1, <1>2, <1>4
      <4> QED
        BY <1>1, <1>2, <1>4, <4>1 DEF Analyses, Underway, Busy
    <3>2. ASSUME NEW d \in Analyses PROVE d \in Analyses'
      BY <1>2, <2>2 DEF Analyses, Underway, Busy
    <3> QED
      BY <3>1, <3>2
  <2> QED
    BY <1>1, <1>2, <1>4, <2>1, <2>2, <2>3
<1> QED
  BY <1>3, <1>4

(* An error that is wiped away takes with it what it was shown for. *)
LEMMA WipeWorks ==
    ASSUME Kinds, Working, WipeError, UNCHANGED <<isGeneratingReport, finalReport>>
    PROVE  awaited' => isGeneratingReport' \/ aiError' \/ finalReport' # None
<1>1. /\ awaited' = (awaited /\ (isGeneratingReport \/ ~aiError))
      /\ awaited => isGeneratingReport \/ aiError \/ finalReport # None
      /\ awaited \in BOOLEAN /\ aiError \in BOOLEAN /\ isGeneratingReport \in BOOLEAN
  BY DEF WipeError, Working, Kinds
<1> QED
  BY <1>1

(* Calls and flags as they go on keep Working, if the report is left alone. *)
LEMMA GoWorks ==
    ASSUME Kinds, Working, CallsGo, UNCHANGED <<isGeneratingReport, finalReport>>
    PROVE  Working'
<1>1. ASSUME NEW d \in Call
      PROVE  \/ call'[d] = call[d]
             \/ /\ d \notin Analyses \cup Reports /\ d \notin Reports'
                /\ d \in Analyses' => call'[d].kind = "questions" /\ call'[d].overtaken = FALSE
  BY DEF CallsGo, AnalysisOf, Analyses, Reports, Underway, Busy
<1>2. Reports' = Reports /\ \A d \in Reports : call'[d] = call[d]
  BY <1>1 DEF Reports, Underway, Busy
<1>3. \A d \in Analyses' : (d \in Analyses /\ call'[d] = call[d]) \/ call'[d].kind = "questions"
  BY <1>1 DEF Analyses, Underway, Busy
<1>4. /\ isAnalyzing' => Analyses' # {}
      /\ \A d \in Analyses' : call'[d].overtaken \/ isAnalyzing'
  <2>1. CASE UNCHANGED work /\ Analyses' = Analyses
    <3>1. \A d \in Analyses : call'[d] = call[d]
      BY <1>1 DEF Analyses, Underway, Busy
    <3> QED
      BY <2>1, <3>1 DEF Working, work
  <2>2. CASE isAnalyzing' = TRUE /\ Analyses' # {}
    BY <2>2
  <2> QED
    BY <2>1, <2>2 DEF CallsGo
<1>5. awaited' => isGeneratingReport' \/ aiError' \/ finalReport' # None
  <2>1. CASE UNCHANGED <<aiError, awaited>>
    BY <2>1 DEF Working
  <2>2. CASE WipeError
    BY <2>2, WipeWorks
  <2> QED
    BY <2>1, <2>2 DEF CallsGo, work
<1> QED
  BY <1>2, <1>3, <1>4, <1>5 DEF Working

(* The end of an analysis. *)
LEMMA AnalysisEndWorks ==
    ASSUME Kinds, Working, NEW c \in Analyses, AnalysisEnds(c), aiError' \in {aiError, TRUE},
           UNCHANGED <<isGeneratingReport, finalReport>>
    PROVE  Working'
<1>1. /\ \A d \in Analyses' : /\ d \in Analyses /\ call'[d].overtaken
                              /\ call'[d].kind = call[d].kind /\ call'[d].answer = call[d].answer
      /\ Reports' = Reports /\ \A d \in Reports : call'[d] = call[d]
      /\ isAnalyzing' = FALSE /\ UNCHANGED awaited
  BY EndMarks DEF AnalysisEnds
<1> QED
  BY <1>1 DEF Working, Kinds

(* A step that leaves calls, reports and analysis alone. *)
LEMMA StillWorks ==
    ASSUME Kinds, Working, UNCHANGED <<call, isAnalyzing, isGeneratingReport, finalReport>>,
           UNCHANGED <<aiError, awaited>> \/ WipeError
    PROVE  Working'
<1>1. Analyses' = Analyses /\ Reports' = Reports
  BY DEF Analyses, Reports, Underway, Busy
<1>2. awaited' => isGeneratingReport' \/ aiError' \/ finalReport' # None
  BY WipeWorks DEF Working
<1> QED
  BY <1>1, <1>2 DEF Working

(* A call that is gone and was no analysis or report. *)
LEMMA GoneGoes ==
    ASSUME Kinds, NEW c \in Underway({"typed"}), call' = [call EXCEPT ![c] = None], UNCHANGED work
    PROVE  CallsGo
<1>1. /\ c \in Call /\ call[c] # None /\ call[c].kind = "typed"
      /\ call'[c] = None /\ \A d \in Call \ {c} : call'[d] = call[d]
      /\ call' \in [Call -> {None} \cup CallRecord]
  BY DEF Kinds, Underway, Busy
<1>2. Analyses' = Analyses /\ c \notin Analyses \cup Reports
  BY <1>1 DEF Analyses, Reports, Underway, Busy
<1> QED
  BY <1>1, <1>2 DEF CallsGo

(* Every step keeps Working. *)
LEMMA WorkingStep ==
    ASSUME Kinds, Working, [INext]_ivars
    PROVE  Working'
<1>1. ASSUME NEW t, Inserted(t) PROVE Working'
  BY <1>1, GoWorks DEF Inserted, Kept
<1>2. ASSUME NEW c \in Call, NEW words \in Words, Heard(c, words) PROVE Working'
  <2>1. CASE UNCHANGED Kept /\ CallsGo
    BY <2>1, GoWorks DEF Kept
  <2> QED
    BY <1>1, <1>2, <2>1, HeardInserts
<1>3. ASSUME NEW c \in Call, NEW d \in Call, NEW words \in Words, NEW s \in Speaker,
             Typed(c, d, words, s)
      PROVE  Working'
  BY <1>1, <1>3, TypedInserts
<1>4. ASSUME NEW c \in Call, SelectQuestion(c) PROVE Working'
  BY <1>1, <1>4, SelectInserts
<1>5. ASSUME NEW c \in Call, NEW s \in Speaker, HeardAnswer(c, s) PROVE Working'
  BY <1>1, <1>5, HeardAnswerInserts
<1>6. ASSUME NEW c \in Call, QuestionsArrive(c) PROVE Working'
  <2>1. CASE AnalysisEnds(c)
    BY <1>6, <2>1, AnalysisEndWorks DEF QuestionsArrive
  <2>2. CASE /\ call[c].answer # None /\ call' = [call EXCEPT ![c].kind = "evaluation"]
             /\ UNCHANGED <<isAnalyzing, awaited, aiError, isGeneratingReport, finalReport>>
    <3>1. /\ \A d \in Call \ {c} : call'[d] = call[d]
          /\ call'[c] = [call[c] EXCEPT !.kind = "evaluation"]
          /\ call[c].kind = "questions" /\ c \in Analyses /\ c \in Call
          /\ call[c] \in [kind : {"questions", "evaluation"}, of : Basis,
                          answer : Text \cup {None, Past}, overtaken : BOOLEAN]
      BY <1>6, <2>2 DEF QuestionsArrive, Kinds, CallRecord, Analyses, Underway, Busy
    <3>2. /\ call'[c].kind = "evaluation" /\ call'[c].answer = call[c].answer
          /\ call'[c].overtaken = call[c].overtaken /\ call'[c] \in CallRecord
      BY <3>1 DEF CallRecord
    <3>3. call'[c] # None
      BY <3>2, NoneAssumption
    <3>4. Analyses' = Analyses
      BY <3>1, <3>2, <3>3 DEF Analyses, Underway, Busy
    <3>5. Reports' = Reports /\ \A d \in Reports : call'[d] = call[d]
      BY <3>1, <3>2 DEF Analyses, Reports, Underway, Busy
    <3>6. \A d \in Analyses : d # c => call'[d] = call[d]
      BY <3>1 DEF Analyses, Underway, Busy
    <3> QED
      BY <2>2, <3>2, <3>4, <3>5, <3>6 DEF Working
  <2> QED
    BY <1>6, <2>1, <2>2 DEF QuestionsArrive
<1>7. ASSUME NEW c \in Call, EvaluationArrives(c) PROVE Working'
  BY <1>7, AnalysisEndWorks DEF EvaluationArrives
<1>8. ASSUME NEW c \in Call, AnalysisFails(c) PROVE Working'
  BY <1>8, AnalysisEndWorks DEF AnalysisFails, shown
<1>9. ASSUME NEW c \in Call, NEW standard \in BOOLEAN, AskAnalysis(c, standard) PROVE Working'
  <2>1. /\ transcript' \in Seq(Item) /\ Trigger(c, transcript', standard)
        /\ UNCHANGED <<isGeneratingReport, finalReport>>
    BY <1>9 DEF AskAnalysis, Kinds, shown
  <2> QED
    BY <2>1, TriggerGoes, GoWorks
<1>10. ASSUME NEW c \in Call, NEW s \in Speaker, TypedAnswer(c, s) PROVE Working'
  BY <1>10, GoneGoes, GoWorks DEF TypedAnswer, Kept
<1>11. ASSUME NEW c \in Call, TypedFails(c) PROVE Working'
  BY <1>11, GoneGoes, GoWorks DEF TypedFails, shown, flags
<1>12. ASSUME NEW c \in Call, OpenSummary(c) PROVE Working'
  <2>1. CASE UNCHANGED <<call, isGeneratingReport, aiError, awaited>>
    BY <1>12, <2>1, StillWorks DEF OpenSummary, shown
  <2>2. CASE ~UNCHANGED <<call, isGeneratingReport, aiError, awaited>>
    <3> DEFINE x == [kind |-> "report", of |-> TextsOf(transcript), overtaken |-> FALSE]
    <3>1. /\ call[c] = None /\ call' = [call EXCEPT ![c] = x] /\ isGeneratingReport' = TRUE
          /\ UNCHANGED isAnalyzing
      BY <1>12, <2>2 DEF OpenSummary, Begin, Busy, Texts, TextsOf
    <3>2. x \in CallRecord /\ x.kind = "report"
      BY NewCalls DEF Kinds
    <3> HIDE DEF x
    <3>3. call'[c] = x /\ x # None /\ \A d \in Call \ {c} : call'[d] = call[d]
      BY <3>1, <3>2, NoneAssumption DEF Kinds
    <3>4. Analyses' = Analyses /\ \A d \in Analyses : call'[d] = call[d]
      BY <3>1, <3>2, <3>3 DEF Analyses, Underway, Busy
    <3>5. c \in Reports'
      BY <3>2, <3>3 DEF Reports, Underway, Busy
    <3> QED
      BY <3>1, <3>4, <3>5 DEF Working
  <2> QED
    BY <2>1, <2>2
<1>13. ASSUME NEW c \in Call, ReportEnds(c) PROVE Working'
  <2>1. /\ \A d \in Reports' : call'[d].overtaken
        /\ Analyses' = Analyses /\ \A d \in Analyses : call'[d] = call[d]
    BY <1>13, EndMarks DEF ReportEnds
  <2>2. aiError' \/ finalReport' # None
    <3>1. call[c].of # None
      BY <1>13, CallTypes, NoneAssumption, InterviewAssumption DEF ReportEnds, Basis
    <3> QED
      BY <1>13, <3>1 DEF ReportEnds
  <2> QED
    BY <1>13, <2>1, <2>2 DEF ReportEnds, Working
<1>14. ASSUME \/ ToggleListen \/ RecognitionEnds \/ SwitchSpeaker \/ ToggleAutoDetect
              \/ SaveKey \/ CloseSummary \/ UNCHANGED ivars
       PROVE  Working'
  BY <1>14, StillWorks DEF ToggleListen, RecognitionEnds, SwitchSpeaker, ToggleAutoDetect, SaveKey,
     CloseSummary, ivars, shown, flags, work
<1>15. ASSUME ResetInterview PROVE Working'
  <2>1. /\ \A c \in Call \ (Analyses \cup Reports) : call'[c] = call[c]
        /\ \A c \in Analyses \cup Reports :
             /\ call'[c] # None /\ call'[c].kind = call[c].kind
             /\ call'[c].overtaken = call[c].overtaken
        /\ \A c \in Analyses : call'[c].answer = IF call[c].answer = None THEN None ELSE Past
        /\ Past # None
    BY <1>15, ResetCalls, InterviewAssumption
  <2>2. Analyses' = Analyses /\ Reports' = Reports
    BY <2>1 DEF Analyses, Reports, Underway, Busy
  <2>3. awaited' = FALSE /\ UNCHANGED <<isAnalyzing, isGeneratingReport>>
    BY <1>15 DEF ResetInterview
  <2> QED
    BY <2>1, <2>2, <2>3 DEF Working
<1>16. CASE INext
  <2>1. CASE \E c \in Call :
         \/ QuestionsArrive(c) \/ EvaluationArrives(c) \/ AnalysisFails(c)
         \/ \E standard \in BOOLEAN : AskAnalysis(c, standard)
         \/ \E words \in Words :
              Heard(c, words) \/ \E d \in Call, s \in Speaker : Typed(c, d, words, s)
         \/ SelectQuestion(c)
         \/ \E s \in Speaker : HeardAnswer(c, s) \/ TypedAnswer(c, s)
         \/ TypedFails(c)
         \/ OpenSummary(c) \/ ReportEnds(c)
    BY <1>2, <1>3, <1>4, <1>5, <1>6, <1>7, <1>8, <1>9, <1>10, <1>11, <1>12, <1>13, <2>1
  <2> QED
    BY <1>14, <1>15, <1>16, <2>1 DEF INext
<1> QED
  BY <1>14, <1>16

-----------------------------------------------------------------------------
(* The texts whose speakers are asked for, and the calls that ask. *)
Asking ==
    /\ \A t : t \in Unheard <=> t # None /\ \E c \in Call : HeardBy(c) = t
    /\ (\A c, d \in Underway({"heard"}) : call[c].text = call[d].text => c = d)
       <=> (\A c, d \in Call : HeardBy(c) # None /\ HeardBy(c) = HeardBy(d) => c = d)

(* They are one and the same. *)
LEMMA UnheardIs == Kinds => Asking
<1> SUFFICES ASSUME Kinds PROVE Asking
  OBVIOUS
<1>1. \A c \in Underway({"heard"}) : call[c].text \in Text
  BY CallTypes DEF Underway, Busy
<1>2. \A c \in Underway({"heard"}) : c \in Call /\ HeardBy(c) = call[c].text /\ HeardBy(c) # None
  BY <1>1, NoneAssumption DEF Underway, Busy, HeardBy
<1>3. \A c \in Call : HeardBy(c) # None => c \in Underway({"heard"}) /\ HeardBy(c) = call[c].text
  BY DEF Underway, Busy, HeardBy
<1>4. \A t : t \in Unheard <=> t # None /\ \E c \in Call : HeardBy(c) = t
  BY <1>2, <1>3 DEF Unheard
<1> QED
  BY <1>2, <1>3, <1>4 DEF Asking

(* The same after a step. *)
LEMMA UnheardBecomes == Kinds' => Asking'
BY UnheardIs, PTL

(* A text that is inserted was on its way, or is the next. *)
LEMMA InsertedCompletes ==
    ASSUME Kinds, Kinds', Complete, Waiting, Counted, NEW t, Inserted(t)
    PROVE  Complete' /\ Waiting' /\ Counted'
<1> DEFINE n == Len(transcript)
<1>1. /\ t \in Text /\ t # None
      /\ Len(transcript') = n + 1 /\ n \in Nat
      /\ \A k \in 1..n : transcript'[k] = transcript[k]
      /\ transcript'[n + 1].text = t
      /\ waited' = waited \cup (Unheard \ {t})
      /\ DOMAIN transcript = 1..n /\ DOMAIN transcript' = 1..(n + 1)
  <2>1. PICK s \in Speaker, detected \in BOOLEAN : Insert(t, s, detected)
    BY DEF Inserted
  <2>2. t \in Text /\ t # None
    BY NoneAssumption DEF Inserted
  <2>3. /\ Len(transcript') = n + 1 /\ n \in Nat /\ transcript' \in Seq(Item)
        /\ \A k \in 1..n : transcript'[k] = transcript[k]
        /\ transcript'[n + 1] = [text |-> t, speaker |-> s]
        /\ waited' = waited \cup (Unheard \ {t})
    BY <2>1, <2>2, InsertIs DEF Kinds
  <2> QED
    BY <2>2, <2>3 DEF Kinds
<1>2. UNCHANGED <<cleared, relabelled>> /\ said \in Nat
  BY DEF Inserted, Kept, Kinds
<1>3. Spoken' = Spoken \cup {t}
  <2>1. ASSUME NEW u \in Spoken' PROVE u \in Spoken \cup {t}
    <3>1. PICK k \in 1..(n + 1) : u = transcript'[k].text
      BY <1>1 DEF Spoken
    <3>2. CASE k = n + 1
      BY <1>1, <3>1, <3>2
    <3>3. CASE k # n + 1
      <4>1. k \in 1..n
        BY <1>1, <3>3
      <4> QED
        BY <1>1, <3>1, <4>1 DEF Spoken
    <3> QED
      BY <3>2, <3>3
  <2>2. ASSUME NEW u \in Spoken PROVE u \in Spoken'
    <3>1. PICK k \in 1..n : u = transcript[k].text
      BY <1>1 DEF Spoken
    <3>2. k \in 1..(n + 1) /\ u = transcript'[k].text
      BY <1>1, <3>1
    <3> QED
      BY <1>1, <3>2 DEF Spoken
  <2>3. t \in Spoken'
    <3>1. n + 1 \in 1..(n + 1)
      BY <1>1
    <3> QED
      BY <1>1, <3>1 DEF Spoken
  <2> QED
    BY <2>1, <2>2, <2>3
<1>4. \A k \in 1..n : transcript[k].text \in Spoken
  BY <1>1 DEF Spoken
<1>5. \A c, d \in Call : HeardBy(c) # None /\ HeardBy(c) = HeardBy(d) => c = d
  BY UnheardIs DEF Asking, Waiting
<1>6. \A u : u \in Unheard' <=> u # None /\ \E c \in Call : HeardBy(c)' = u
  BY UnheardBecomes DEF Asking
<1>7. /\ Unheard' = Unheard \ {t} /\ t \notin Spoken
      /\ 1..said' = Spoken \cup cleared \cup Unheard \cup {t} /\ said' >= said
      /\ \A k \in 1..n : transcript[k].text > t => t \in waited
      /\ \A c, d \in Call : HeardBy(c)' # None /\ HeardBy(c)' = HeardBy(d)' => c = d
  <2>1. CASE t = said + 1 /\ said' = said + 1 /\ SameHeard
    <3>1. Unheard' = Unheard
      <4>1. \A u : u \in Unheard <=> u # None /\ \E c \in Call : HeardBy(c) = u
        BY UnheardIs DEF Asking
      <4> QED
        BY <1>6, <2>1, <4>1 DEF SameHeard
    <3>2. t \notin Unheard /\ t \notin Spoken /\ \A u \in Spoken : ~(u > t)
      BY <1>2, <2>1 DEF Complete
    <3>3. 1..said' = (1..said) \cup {t}
      BY <1>2, <2>1
    <3> QED
      BY <1>2, <1>4, <1>5, <2>1, <3>1, <3>2, <3>3 DEF Complete, SameHeard
  <2>2. CASE /\ said' = said
             /\ \E c \in Call : /\ HeardBy(c) = t /\ HeardBy(c)' = None
                                /\ \A d \in Call \ {c} : HeardBy(d)' = HeardBy(d)
    <3>1. PICK c \in Call : /\ HeardBy(c) = t /\ HeardBy(c)' = None
                            /\ \A d \in Call \ {c} : HeardBy(d)' = HeardBy(d)
      BY <2>2
    <3>2. t \in Unheard
      BY <1>1, <3>1, UnheardIs DEF Asking
    <3>3. Unheard' = Unheard \ {t}
      BY <1>1, <1>5, <1>6, <3>1, UnheardIs DEF Asking
    <3>4. \A a, b \in Call : HeardBy(a)' # None /\ HeardBy(a)' = HeardBy(b)' => a = b
      BY <1>5, <3>1
    <3>5. t \notin Spoken /\ 1..said' = Spoken \cup cleared \cup Unheard \cup {t}
      BY <2>2, <3>2 DEF Waiting, Complete
    <3>6. \A k \in 1..n : transcript[k].text > t => t \in waited
      BY <1>1, <3>2 DEF Waiting
    <3> QED
      BY <1>2, <2>2, <3>3, <3>4, <3>5, <3>6
  <2> QED
    BY <2>1, <2>2 DEF Inserted
<1>8. Complete'
  <2>1. \A i, j \in 1..(n + 1) : transcript'[i].text = transcript'[j].text => i = j
    <3>1. \A i, j \in 1..n : transcript'[i].text = transcript'[j].text => i = j
      BY <1>1 DEF Complete
    <3>2. \A i \in 1..n : transcript'[i].text # transcript'[n + 1].text
      BY <1>1, <1>4, <1>7
    <3>3. 1..(n + 1) = (1..n) \cup {n + 1}
      BY <1>1
    <3> QED
      BY <3>1, <3>2, <3>3
  <2>2. 1..said' = Spoken' \cup cleared' \cup Unheard'
    BY <1>2, <1>3, <1>7
  <2>3. \A i, j \in 1..(n + 1) :
          i < j /\ transcript'[i].text > transcript'[j].text => transcript'[j].text \in waited'
    <3>1. ASSUME NEW i \in 1..(n + 1), NEW j \in 1..(n + 1), i < j,
                 transcript'[i].text > transcript'[j].text
          PROVE  transcript'[j].text \in waited'
      <4>1. i \in 1..n
        BY <1>1, <3>1
      <4>2. CASE j = n + 1
        BY <1>1, <1>7, <3>1, <4>1, <4>2
      <4>3. CASE j # n + 1
        <5>1. j \in 1..n
          BY <1>1, <4>3
        <5> QED
          BY <1>1, <3>1, <4>1, <5>1 DEF Complete
      <4> QED
        BY <4>2, <4>3
    <3> QED
      BY <3>1
  <2> QED
    BY <1>1, <2>1, <2>2, <2>3 DEF Complete
<1>9. Waiting'
  <2>1. \A c, d \in Underway({"heard"})' : call'[c].text = call'[d].text => c = d
    BY <1>7, UnheardBecomes DEF Asking
  <2>2. Unheard' \subseteq waited' /\ Unheard' \cap Spoken' = {}
    BY <1>1, <1>3, <1>7 DEF Waiting
  <2> QED
    BY <2>1, <2>2 DEF Waiting
<1>10. Counted'
  BY <1>1, <1>2, <1>7 DEF Counted, Complete, Inserted, Text, Kinds
<1> QED
  BY <1>8, <1>9, <1>10

(* A text whose speaker is asked for first. *)
LEMMA AskedCompletes ==
    ASSUME Kinds, Kinds', Complete, Waiting, Counted, Asked
    PROVE  Complete' /\ Waiting' /\ Counted'
<1>1. /\ UNCHANGED <<transcript, waited, cleared, relabelled>> /\ said' = said + 1 /\ said \in Nat
      /\ said + 1 # None
  BY NoneAssumption DEF Asked, Kinds
<1>2. PICK c \in Call : /\ HeardBy(c) = None /\ HeardBy(c)' = said + 1
                        /\ \A d \in Call \ {c} : HeardBy(d)' = HeardBy(d)
  BY DEF Asked
<1>3. \A u : u \in Unheard <=> u # None /\ \E d \in Call : HeardBy(d) = u
  BY UnheardIs DEF Asking
<1>4. \A u : u \in Unheard' <=> u # None /\ \E d \in Call : HeardBy(d)' = u
  BY UnheardBecomes DEF Asking
<1>5. Unheard' = Unheard \cup {said + 1}
  BY <1>1, <1>2, <1>3, <1>4
<1>6. Spoken' = Spoken
  BY <1>1 DEF Spoken
<1>7. 1..said' = (1..said) \cup {said + 1} /\ said + 1 \notin Spoken /\ said + 1 \notin Unheard
  BY <1>1 DEF Complete
<1>8. Complete'
  <2>1. 1..said' = Spoken' \cup cleared' \cup Unheard'
    BY <1>1, <1>5, <1>6, <1>7 DEF Complete
  <2> QED
    BY <1>1, <2>1 DEF Complete
<1>9. Waiting'
  <2>1. \A d, e \in Underway({"heard"})' : call'[d].text = call'[e].text => d = e
    <3>1. \A d, e \in Call : HeardBy(d) # None /\ HeardBy(d) = HeardBy(e) => d = e
      BY UnheardIs DEF Asking, Waiting
    <3>2. \A d \in Call : HeardBy(d) # said + 1
      BY <1>1, <1>3, <1>7
    <3>3. \A d, e \in Call : HeardBy(d)' # None /\ HeardBy(d)' = HeardBy(e)' => d = e
      BY <1>1, <1>2, <3>1, <3>2
    <3> QED
      BY <3>3, UnheardBecomes DEF Asking
  <2>2. \A k \in DOMAIN transcript : transcript[k].text \in 1..said
    BY DEF Complete, Spoken
  <2>3. \A k \in DOMAIN transcript : ~(transcript[k].text > said + 1)
    BY <1>1, <2>2
  <2>4. Unheard' \cap Spoken' = {}
    BY <1>5, <1>6, <1>7 DEF Waiting
  <2> QED
    BY <1>1, <1>5, <2>1, <2>3, <2>4 DEF Waiting
<1>10. Counted'
  BY <1>1, <1>7 DEF Counted
<1> QED
  BY <1>8, <1>9, <1>10

(* The texts stay as they are. *)
LEMMA KeptCompletes ==
    ASSUME Kinds, Kinds', Complete, Waiting, Counted, TextsKept
    PROVE  Complete' /\ Waiting' /\ Counted'
<1>1. /\ DOMAIN transcript' = DOMAIN transcript
      /\ \A k \in DOMAIN transcript : transcript'[k].text = transcript[k].text
      /\ UNCHANGED <<said, waited, cleared>> /\ relabelled' \subseteq relabelled \cup Spoken
  BY DEF TextsKept, Kinds
<1>2. Unheard' = Unheard
  <2>1. \A u : u \in Unheard <=> u # None /\ \E d \in Call : HeardBy(d) = u
    BY UnheardIs DEF Asking
  <2>2. \A u : u \in Unheard' <=> u # None /\ \E d \in Call : HeardBy(d)' = u
    BY UnheardBecomes DEF Asking
  <2> QED
    BY <2>1, <2>2 DEF TextsKept, SameHeard
<1>3. Spoken' = Spoken
  BY <1>1 DEF Spoken
<1>4. Complete'
  BY <1>1, <1>2, <1>3 DEF Complete
<1>5. Waiting'
  <2>1. \A d, e \in Underway({"heard"})' : call'[d].text = call'[e].text => d = e
    <3>1. \A d, e \in Call : HeardBy(d) # None /\ HeardBy(d) = HeardBy(e) => d = e
      BY UnheardIs DEF Asking, Waiting
    <3>2. \A d, e \in Call : HeardBy(d)' # None /\ HeardBy(d)' = HeardBy(e)' => d = e
      BY <3>1 DEF TextsKept, SameHeard
    <3> QED
      BY <3>2, UnheardBecomes DEF Asking
  <2> QED
    BY <1>1, <1>2, <1>3, <2>1 DEF Waiting
<1>6. Counted'
  BY <1>1 DEF Counted, Complete
<1> QED
  BY <1>4, <1>5, <1>6

(* The texts of the transcript are of an interview that was reset. *)
LEMMA ResetCompletes ==
    ASSUME Kinds, Kinds', Complete, Waiting, Counted, ResetInterview
    PROVE  Complete' /\ Waiting' /\ Counted'
<1>1. /\ transcript' = << >> /\ said' = said /\ relabelled' = {}
      /\ cleared' = cleared \cup Spoken /\ waited' = waited \ Spoken
  <2>1. ToSet(Texts) = Spoken
    BY DEF ToSet, Texts, Spoken
  <2> QED
    BY <2>1 DEF ResetInterview, Cleared
<1>2. SameHeard
  <2>1. /\ \A c \in Call \ (Analyses \cup Reports) : call'[c] = call[c]
        /\ \A c \in Analyses \cup Reports : call'[c] # None /\ call'[c].kind = call[c].kind
    BY ResetCalls
  <2>2. \A c \in Analyses \cup Reports : call[c].kind # "heard"
    BY DEF Analyses, Reports, Underway
  <2> QED
    BY <2>1, <2>2 DEF SameHeard, HeardBy
<1>3. Unheard' = Unheard
  <2>1. \A u : u \in Unheard <=> u # None /\ \E d \in Call : HeardBy(d) = u
    BY UnheardIs DEF Asking
  <2>2. \A u : u \in Unheard' <=> u # None /\ \E d \in Call : HeardBy(d)' = u
    BY UnheardBecomes DEF Asking
  <2> QED
    BY <1>2, <2>1, <2>2 DEF SameHeard
<1>4. DOMAIN transcript' = {} /\ Spoken' = {}
  BY <1>1 DEF Spoken
<1>5. Complete'
  BY <1>1, <1>3, <1>4 DEF Complete
<1>6. Waiting'
  <2>1. \A d, e \in Underway({"heard"})' : call'[d].text = call'[e].text => d = e
    <3>1. \A d, e \in Call : HeardBy(d) # None /\ HeardBy(d) = HeardBy(e) => d = e
      BY UnheardIs DEF Asking, Waiting
    <3>2. \A d, e \in Call : HeardBy(d)' # None /\ HeardBy(d)' = HeardBy(e)' => d = e
      BY <1>2, <3>1 DEF SameHeard
    <3> QED
      BY <3>2, UnheardBecomes DEF Asking
  <2> QED
    BY <1>4, <2>1 DEF Waiting
<1>7. Counted'
  BY <1>1 DEF Counted, Complete
<1> QED
  BY <1>5, <1>6, <1>7

(* Every step keeps the texts complete. *)
LEMMA CompleteStep ==
    ASSUME Kinds, Kinds', Complete, Waiting, Counted, [INext]_ivars
    PROVE  Complete' /\ Waiting' /\ Counted'
BY StepIs, InsertedCompletes, AskedCompletes, KeptCompletes, ResetCompletes

-----------------------------------------------------------------------------
(* What is about the beginning of the transcript stays so as it grows, and *)
(* the transcript is a beginning of itself.                                *)
LEMMA BeginsGrow ==
    ASSUME Kinds, Kinds', Grows
    PROVE  /\ \A of : Begins(of, transcript) => Begins(of, transcript')
           /\ Begins(TextsOf(transcript'), transcript')
<1>1. /\ transcript \in Seq(Item) /\ transcript' \in Seq(Item)
      /\ Len(transcript') >= Len(transcript)
      /\ \A k \in 1..Len(transcript) : transcript'[k].text = transcript[k].text
  BY DEF Kinds, Grows
<1>2. ASSUME NEW of, of \in Seq(Text), Len(of) <= Len(transcript),
             \A k \in 1..Len(of) : of[k] = transcript[k].text
      PROVE  /\ Len(of) <= Len(transcript')
             /\ \A k \in 1..Len(of) : of[k] = transcript'[k].text
  <2>1. Len(of) \in Nat /\ Len(transcript) \in Nat /\ Len(transcript') \in Nat
    BY <1>1, <1>2
  <2>2. \A k \in 1..Len(of) : k \in 1..Len(transcript)
    BY <1>2, <2>1
  <2>3. \A k \in 1..Len(of) : of[k] = transcript'[k].text
    BY <1>1, <1>2, <2>2
  <2>4. Len(of) <= Len(transcript')
    BY <1>1, <1>2, <2>1
  <2> QED
    BY <2>3, <2>4
<1>3. \A of : Begins(of, transcript) => Begins(of, transcript')
  BY <1>2 DEF Begins
<1>4. Begins(TextsOf(transcript'), transcript')
  <2>1. /\ TextsOf(transcript') \in Seq(Text)
        /\ Len(TextsOf(transcript')) = Len(transcript')
        /\ \A k \in 1..Len(transcript') : TextsOf(transcript')[k] = transcript'[k].text
    BY <1>1, TextsAre
  <2>2. Len(transcript') <= Len(transcript')
    BY <1>1
  <2> QED
    BY <2>1, <2>2 DEF Begins
<1> QED
  BY <1>3, <1>4

(* Every step keeps calls and what is shown about this interview. *)
LEMMA AboutStep ==
    ASSUME Kinds, Kinds', About, [INext]_ivars
    PROVE  About'
<1>1. CASE Grows
  <2>1. Begins(questions', transcript') /\ Begins(finalReport', transcript')
    BY <1>1, BeginsGrow DEF Grows, About
  <2>2. \A c \in Analyses' \cup Reports' : Begins(call'[c].of, transcript')
    BY <1>1, BeginsGrow DEF Grows, CallsBegin, About
  <2> QED
    BY <2>1, <2>2 DEF About
<1>2. CASE ResetInterview
  <2>1. questions' = None /\ finalReport' = None
    BY <1>2 DEF ResetInterview, Cleared
  <2>2. \A c \in Analyses' \cup Reports' : call'[c].of = Past
    BY <1>2, ResetCalls DEF Analyses, Reports, Underway, Busy
  <2> QED
    BY <2>1, <2>2 DEF About, Begins
<1> QED
  BY <1>1, <1>2, StepIs

-----------------------------------------------------------------------------
(* An answer that is evaluated is a text of the candidate's as it stands.  *)
LEMMA AnsweredStep ==
    ASSUME Kinds, Kinds', Complete', Answered, [INext]_ivars
    PROVE  Answered'
<1>1. CASE Grows
  <2>1. /\ transcript \in Seq(Item) /\ transcript' \in Seq(Item)
        /\ DOMAIN transcript = 1..Len(transcript) /\ DOMAIN transcript' = 1..Len(transcript')
        /\ Len(transcript) \in Nat /\ Len(transcript') \in Nat
        /\ Len(transcript') >= Len(transcript)
        /\ \A k \in 1..Len(transcript) :
             /\ k \in 1..Len(transcript')
             /\ transcript'[k].text = transcript[k].text
             /\ transcript'[k].speaker = transcript[k].speaker \/ transcript[k].text \in relabelled'
        /\ relabelled \subseteq relabelled'
    BY <1>1 DEF Kinds, Grows
  <2>2. Answers' \subseteq Answers \cup {None, LastAnswer(transcript')}
    <3>1. \A c \in Analyses' : call'[c].answer \in Answers \cup {None, LastAnswer(transcript')}
      BY <1>1 DEF Grows, CallsBegin, Answers
    <3> QED
      BY <1>1, <3>1 DEF Grows, Answers
  <2>3. Spoken \subseteq Spoken'
    BY <2>1 DEF Spoken
  <2>4. \A k \in 1..Len(transcript') : transcript'[k].text \in Text /\ transcript'[k].text \notin {None, Past}
    BY <2>1, ItemsAre, NoneAssumption
  <2>5. \/ LastAnswer(transcript') = None
        \/ \E k \in 1..Len(transcript') :
             transcript'[k].speaker = "candidate" /\ LastAnswer(transcript') = transcript'[k].text
    BY <2>1, LastAnswerIs
  <2>6. Answers' \ {None, Past} \subseteq Spoken'
    <3>1. LastAnswer(transcript') \in {None} \cup Spoken'
      BY <2>1, <2>5 DEF Spoken
    <3> QED
      BY <2>2, <2>3, <3>1 DEF Answered
  <2>7. ASSUME NEW k \in 1..Len(transcript'), transcript'[k].text \in Answers'
        PROVE  transcript'[k].speaker = "candidate" \/ transcript'[k].text \in relabelled'
    <3> DEFINE u == transcript'[k].text
    <3>1. CASE u \in Answers
      <4>1. u \in Spoken
        BY <2>4, <3>1 DEF Answered
      <4>2. PICK i \in 1..Len(transcript) : transcript[i].text = u
        BY <2>1, <4>1 DEF Spoken
      <4>3. i \in 1..Len(transcript') /\ transcript'[i].text = transcript'[k].text
        BY <2>1, <4>2
      <4>4. i = k
        BY <2>1, <2>7, <4>3 DEF Complete
      <4>5. transcript[k].speaker = "candidate" \/ transcript[k].text \in relabelled
        BY <2>1, <3>1, <4>2, <4>4 DEF Answered
      <4> QED
        BY <2>1, <4>2, <4>4, <4>5
    <3>2. CASE u \notin Answers
      <4>1. u = LastAnswer(transcript') /\ u # None
        BY <2>2, <2>4, <2>7, <3>2
      <4>2. PICK i \in 1..Len(transcript') :
              transcript'[i].speaker = "candidate" /\ transcript'[i].text = transcript'[k].text
        BY <2>5, <4>1
      <4>3. i = k
        BY <2>1, <2>7, <4>2 DEF Complete
      <4> QED
        BY <4>2, <4>3
    <3> QED
      BY <3>1, <3>2
  <2> QED
    BY <2>1, <2>6, <2>7 DEF Answered
<1>2. CASE ResetInterview
  <2>1. DOMAIN transcript' = {} /\ evaluations' = {}
    <3>1. transcript' = << >> /\ evaluations' = {}
      BY <1>2 DEF ResetInterview, Cleared
    <3> QED
      BY <3>1
  <2>2. \A c \in Analyses' : call'[c].answer \in {None, Past}
    BY <1>2, ResetCalls DEF Analyses, Reports, Underway, Busy
  <2>3. Answers' \ {None, Past} = {}
    BY <2>1, <2>2 DEF Answers
  <2> QED
    BY <2>1, <2>3 DEF Answered
<1> QED
  BY <1>1, <1>2, StepIs

-----------------------------------------------------------------------------
(* The types, in two parts. *)
LEMMA InterviewTypes == ITypeOK <=> Kinds /\ Counted
BY DEF ITypeOK, Kinds, Counted, Item

(* The page as it opens. *)
LEMMA InterviewInit == IInit => InterviewInv
<1> SUFFICES ASSUME IInit PROVE InterviewInv
  OBVIOUS
<1> USE DEF IInit
<1>1. \A c \in Call : call[c] = None
  OBVIOUS
<1>2. Busy = {} /\ Analyses = {} /\ Reports = {} /\ Unheard = {} /\ Underway({"heard"}) = {}
  BY <1>1 DEF Analyses, Reports, Unheard, Underway, Busy
<1>3. Kinds /\ Counted
  <2>1. << >> \in Seq(Item) /\ "interviewer" \in Speaker /\ said \in 0..MaxSaid
    BY InterviewAssumption DEF Speaker
  <2> QED
    BY <2>1 DEF Kinds, Counted
<1>4. DOMAIN transcript = {} /\ Spoken = {}
  BY DEF Spoken
<1>5. Working
  BY <1>2 DEF Working
<1>6. Complete
  <2>1. 1..said = {}
    OBVIOUS
  <2> QED
    BY <1>2, <1>4, <2>1 DEF Complete
<1>7. Waiting
  BY <1>2, <1>4 DEF Waiting
<1>8. About
  BY <1>2 DEF About, Begins
<1>9. Answered
  BY <1>2, <1>4 DEF Answered, Answers
<1> QED
  BY <1>3, <1>5, <1>6, <1>7, <1>8, <1>9, InterviewTypes DEF InterviewInv

(* InterviewInv holds throughout. *)
THEOREM InterviewInductive == ISpec => []InterviewInv
<1>1. InterviewInv /\ [INext]_ivars => InterviewInv'
  <2> SUFFICES ASSUME InterviewInv, [INext]_ivars PROVE InterviewInv'
    OBVIOUS
  <2>1. Kinds /\ Counted
    BY InterviewTypes DEF InterviewInv
  <2>2. Kinds' /\ Working'
    BY <2>1, KindsStep, WorkingStep DEF InterviewInv
  <2>3. Complete' /\ Waiting' /\ Counted'
    BY <2>1, <2>2, CompleteStep DEF InterviewInv
  <2>4. About' /\ Answered'
    BY <2>1, <2>2, <2>3, AboutStep, AnsweredStep DEF InterviewInv
  <2>5. ITypeOK'
    BY <2>2, <2>3, InterviewTypes, PTL
  <2> QED
    BY <2>2, <2>3, <2>4, <2>5 DEF InterviewInv
<1> QED
  BY <1>1, InterviewInit, PTL DEF ISpec

(* Questions, evaluations and the report are about the beginning of the    *)
(* transcript shown with them, unless the interview was reset under them.  *)
THEOREM ShownOfInterview == ISpec => []ShownIsOfThisInterview
<1>1. InterviewInv => ShownIsOfThisInterview
  <2> SUFFICES ASSUME InterviewInv PROVE ShownIsOfThisInterview
    OBVIOUS
  <2>1. /\ transcript \in Seq(Item) /\ DOMAIN transcript = 1..Len(transcript)
        /\ Len(transcript) \in Nat
    BY InterviewTypes DEF InterviewInv, Kinds
  <2>2. /\ Texts \in Seq(Text) /\ Len(Texts) = Len(transcript)
        /\ \A k \in 1..Len(transcript) : Texts[k] = transcript[k].text
    BY <2>1, TextsAre DEF Texts, TextsOf
  <2>3. ASSUME NEW of, Begins(of, transcript), of \notin {None, Past} PROVE IsPrefix(of, Texts)
    <3>1. /\ of \in Seq(Text) /\ Len(of) <= Len(transcript)
          /\ \A k \in 1..Len(of) : of[k] = transcript[k].text
      BY <2>3 DEF Begins
    <3>2. Len(of) \in Nat /\ Len(of) <= Len(Texts)
      BY <2>2, <3>1
    <3>3. /\ SubSeq(Texts, 1, Len(of)) \in Seq(Text)
          /\ Len(SubSeq(Texts, 1, Len(of))) = Len(of)
          /\ \A k \in 1..Len(of) : SubSeq(Texts, 1, Len(of))[k] = Texts[k]
      BY <2>2, <3>2
    <3>4. \A k \in 1..Len(of) : of[k] = SubSeq(Texts, 1, Len(of))[k]
      <4>1. \A k \in 1..Len(of) : k \in 1..Len(transcript)
        BY <2>1, <3>1, <3>2
      <4> QED
        BY <2>2, <3>1, <3>3, <4>1
    <3>5. of = SubSeq(Texts, 1, Len(of))
      BY <3>1, <3>3, <3>4
    <3> QED
      BY <3>2, <3>5 DEF IsPrefix
  <2>4. \A of \in {questions, finalReport} \cup {call[c].of : c \in Analyses \cup Reports} : Begins(of, transcript)
    BY DEF InterviewInv, About
  <2>5. evaluations \ {Past} \subseteq ToSet(Texts)
    <3>1. ToSet(Texts) = Spoken
      BY DEF ToSet, Texts, Spoken
    <3>2. None \notin evaluations
      BY InterviewTypes, NoneAssumption, InterviewAssumption DEF InterviewInv, Kinds
    <3> QED
      BY <3>1, <3>2 DEF InterviewInv, Answered, Answers
  <2> QED
    BY <2>3, <2>4, <2>5 DEF ShownIsOfThisInterview
<1> QED
  BY <1>1, InterviewInductive, PTL

(* What was evaluated stands as the candidate's in the transcript, unless  *)
(* its speaker was changed later on.                                       *)
THEOREM EvaluatedAnswers == ISpec => []AnswersAreEvaluated
<1>1. InterviewInv => AnswersAreEvaluated
  BY DEF InterviewInv, Answered, Answers, AnswersAreEvaluated
<1> QED
  BY <1>1, InterviewInductive, PTL

(* An analysis or report under way is shown as such, unless another ended, *)
(* and who asked for a report sees an error or the values of a report.     *)
THEOREM BusyShown == ISpec => []BusyWhileWorking
<1>1. InterviewInv => BusyWhileWorking
  <2> SUFFICES ASSUME InterviewInv PROVE BusyWhileWorking
    OBVIOUS
  <2>1. awaited /\ SummaryShown = "values" => Displayed = {finalReport}
    BY DEF InterviewInv, Working, SummaryShown, Displayed
  <2> QED
    BY <2>1 DEF InterviewInv, Working, BusyWhileWorking
<1> QED
  BY <1>1, InterviewInductive, PTL

(* No text is lost or doubled, and the transcript is in the order in which *)
(* the texts were said, but for those that had to wait for a speaker.      *)
THEOREM NothingLost == ISpec => []TranscriptComplete
<1>1. InterviewInv => TranscriptComplete
  <2> SUFFICES ASSUME InterviewInv PROVE TranscriptComplete
    OBVIOUS
  <2>1. ToSet(Texts) = Spoken
    BY DEF ToSet, Texts, Spoken
  <2>2. DOMAIN Texts = DOMAIN transcript /\ \A k \in DOMAIN transcript : Texts[k] = transcript[k].text
    BY DEF Texts
  <2> QED
    BY <2>1, <2>2 DEF InterviewInv, Complete, TranscriptComplete, IsInjective
<1> QED
  BY <1>1, InterviewInductive, PTL

-----------------------------------------------------------------------------
(* The speech service. *)

(* p can be passed on after all that was. *)
After(p) == \A i \in DOMAIN finals : finals[i] < p \/ (finals[i] = p /\ p \in unaborted)

Later ==
    /\ heard \in {0, spoken}
    /\ heard # 0 => After(heard)
    /\ interimOf # 0 => After(interimOf)

Forgotten == currentInterim # NoText => lastFinal = NoText

SpeechInv == EngineFollows /\ EachOnceInOrder /\ Later /\ Forgotten

-----------------------------------------------------------------------------
(* The initial states satisfy the inductive invariant. *)
LEMMA SpeechInit == SInit => SpeechInv
<1> SUFFICES ASSUME SInit PROVE SpeechInv
  OBVIOUS
<1> USE SpeechAssumption DEF SInit
<1>1. finals \in Seq(1..spoken) /\ DOMAIN finals = {}
  BY EmptySeq
<1>2. EngineFollows
  <2>1. listening \in BOOLEAN /\ timer \in BOOLEAN
    OBVIOUS
  <2>2. recogniser \in {"idle", "running", "stopping", "aborting"}
    OBVIOUS
  <2>3. spoken \in 0..MaxSpoken /\ heard \in 0..spoken /\ interimOf \in 0..spoken
    OBVIOUS
  <2>4. interimOf = 0 <=> currentInterim = NoText
    OBVIOUS
  <2>5. unaborted \subseteq 1..spoken
    OBVIOUS
  <2> QED
    BY <1>1, <2>1, <2>2, <2>3, <2>4, <2>5 DEF EngineFollows, STypeOK
<1>3. EachOnceInOrder /\ Later /\ Forgotten
  BY <1>1 DEF EachOnceInOrder, Later, Forgotten
<1> QED
  BY <1>2, <1>3 DEF SpeechInv

(* What a final text does to the finals. *)
LEMMA Passed ==
    ASSUME SpeechInv, NEW t, NEW p \in 1..spoken, NEW last, PassOn(t, p, last)
    PROVE  /\ finals' \in Seq(1..spoken)
           /\ \/ finals' = finals
              \/ /\ DOMAIN finals' = 1..(Len(finals) + 1) /\ DOMAIN finals = 1..Len(finals)
                 /\ Len(finals) \in Nat
                 /\ finals'[Len(finals) + 1] = p
                 /\ \A i \in DOMAIN finals : finals'[i] = finals[i]
<1>1. finals \in Seq(1..spoken)
  BY DEF SpeechInv, EngineFollows, STypeOK
<1>2. finals' = finals \/ finals' = Append(finals, p)
  BY DEF PassOn
<1>3. CASE finals' = finals
  BY <1>1, <1>3
<1>4. CASE finals' = Append(finals, p)
  <2>1. finals' \in Seq(1..spoken)
    BY <1>1, <1>4
  <2>2. Len(finals) \in Nat /\ DOMAIN finals = 1..Len(finals)
    BY <1>1
  <2>3. DOMAIN finals' = 1..(Len(finals) + 1)
    BY <1>1, <1>4
  <2>4. finals'[Len(finals) + 1] = p
    BY <1>1, <1>4
  <2>5. \A i \in DOMAIN finals : finals'[i] = finals[i]
    BY <1>1, <1>4
  <2> QED
    BY <2>1, <2>2, <2>3, <2>4, <2>5
<1> QED
  BY <1>2, <1>3, <1>4

(* A phrase that may be passed on keeps the order. *)
LEMMA PassedInOrder ==
    ASSUME SpeechInv, NEW t, NEW p \in 1..spoken, NEW last, PassOn(t, p, last),
           After(p), unaborted \subseteq unaborted'
    PROVE  /\ EachOnceInOrder'
           /\ \A i \in DOMAIN finals' : finals'[i] \in 1..p
<1>1. finals \in Seq(1..spoken) /\ spoken \in Nat
  BY SpeechAssumption DEF SpeechInv, EngineFollows, STypeOK
<1>2. \A i \in DOMAIN finals : finals[i] \in 1..p
  BY <1>1 DEF After
<1>3. CASE finals' = finals
  BY <1>2, <1>3 DEF SpeechInv, EachOnceInOrder
<1>4. CASE finals' # finals
  <2> DEFINE n == Len(finals) + 1
  <2>1. /\ DOMAIN finals' = 1..n /\ DOMAIN finals = 1..(n - 1) /\ n \in Nat
        /\ finals'[n] = p
        /\ \A i \in DOMAIN finals : finals'[i] = finals[i]
    BY <1>4, Passed
  <2>2. \A i \in DOMAIN finals' : finals'[i] \in 1..p
    BY <1>2, <2>1
  <2>3. ASSUME NEW i \in DOMAIN finals', NEW j \in DOMAIN finals', i < j
        PROVE  \/ finals'[i] < finals'[j]
               \/ finals'[i] = finals'[j] /\ finals'[i] \in unaborted'
    <3>1. i \in DOMAIN finals
      BY <2>1, <2>3
    <3>2. CASE j \in DOMAIN finals
      BY <2>1, <2>3, <3>1, <3>2 DEF SpeechInv, EachOnceInOrder
    <3>3. CASE j = n
      BY <2>1, <3>1, <3>3 DEF After
    <3> QED
      BY <2>1, <3>2, <3>3
  <2> QED
    BY <2>2, <2>3 DEF EachOnceInOrder
<1> QED
  BY <1>3, <1>4

-----------------------------------------------------------------------------
(* A step preserves the inductive invariant. *)
LEMMA SpeechStep ==
    ASSUME SpeechInv, [SNext]_svars
    PROVE  SpeechInv'
<1> USE SpeechAssumption DEF fields, engine, shistory
<1>1. CASE Speak
  BY <1>1 DEF Speak, SpeechInv, EngineFollows, STypeOK, EachOnceInOrder, Later, Forgotten, After
<1>2. CASE End
  BY <1>2 DEF End, Started, SpeechInv, EngineFollows, STypeOK, EachOnceInOrder, Later, Forgotten, After
<1>3. CASE StartListening
  BY <1>3 DEF StartListening, Started, SpeechInv, EngineFollows, STypeOK, EachOnceInOrder, Later, Forgotten, After
<1>4. CASE StopListening
  BY <1>4 DEF StopListening, StoppedBy, SpeechInv, EngineFollows, STypeOK, EachOnceInOrder, Later, Forgotten, After
<1>5. CASE ChangeLanguage
  BY <1>5 DEF ChangeLanguage, StoppedBy, SpeechInv, EngineFollows, STypeOK, EachOnceInOrder, Later, Forgotten, After
<1>6. ASSUME NEW t \in Wording, Interim(t) PROVE SpeechInv'
  BY <1>6 DEF Interim, Guessing, Reporting, Shown, SpeechInv, EngineFollows, STypeOK, EachOnceInOrder, Later, Forgotten, After
<1>7. ASSUME NEW t \in Wording, Final(t) PROVE SpeechInv'
  <2>1. heard \in 1..spoken /\ After(heard) /\ PassOn(t, heard, lastFinal)
    BY <1>7 DEF Final, Reporting, SpeechInv, EngineFollows, STypeOK, Later
  <2>2. EachOnceInOrder'
    BY <1>7, <2>1, PassedInOrder DEF Final
  <2>3. finals' \in Seq(1..spoken)
    BY <2>1, Passed
  <2>8. /\ listening' \in BOOLEAN /\ timer' \in BOOLEAN /\ (timer' => currentInterim' # NoText)
        /\ currentInterim' \in Wording \cup {NoText} /\ lastFinal' \in Wording \cup {NoText}
        /\ (interimOf' = 0 <=> currentInterim' = NoText)
    BY <1>7, <2>1 DEF Final, PassOn, SpeechInv, EngineFollows, STypeOK
  <2>9. /\ recogniser' \in {"idle", "running", "stopping", "aborting"}
        /\ spoken' \in 0..MaxSpoken /\ heard' \in 0..spoken' /\ interimOf' \in 0..spoken'
        /\ unaborted' \subseteq 1..spoken'
        /\ IF listening' THEN recogniser' # "idle" ELSE recogniser' # "running"
    BY <1>7, <2>1 DEF Final, PassOn, SpeechInv, EngineFollows, STypeOK
  <2>10. EngineFollows'
    BY <1>7, <2>3, <2>8, <2>9 DEF Final, EngineFollows, STypeOK
  <2> QED
    BY <1>7, <2>1, <2>2, <2>10 DEF Final, PassOn, SpeechInv, Later, Forgotten
<1>8. ASSUME NEW t \in Wording, FinalAndInterim(t) PROVE SpeechInv'
  <2> DEFINE last == IF currentInterim = NoText THEN NoText ELSE lastFinal
  <2>1. heard \in 1..spoken /\ After(heard) /\ PassOn(t, heard, last)
    BY <1>8 DEF FinalAndInterim, Reporting, SpeechInv, EngineFollows, STypeOK, Later
  <2>2. EachOnceInOrder' /\ \A i \in DOMAIN finals' : finals'[i] \in 1..heard
    BY <1>8, <2>1, PassedInOrder DEF FinalAndInterim
  <2>3. finals' \in Seq(1..spoken)
    BY <2>1, Passed
  <2>4. spoken \in Nat /\ spoken' = spoken + 1 /\ heard' = spoken + 1 /\ spoken' \in 0..MaxSpoken
    BY <1>8 DEF FinalAndInterim, SpeechInv, EngineFollows, STypeOK
  <2>5. finals' \in Seq(1..spoken')
    BY <2>3, <2>4
  <2>6. Later'
    BY <1>8, <2>1, <2>2, <2>4 DEF FinalAndInterim, PassOn, Later, After
  <2>8. /\ listening' \in BOOLEAN /\ timer' \in BOOLEAN /\ (timer' => currentInterim' # NoText)
        /\ currentInterim' \in Wording \cup {NoText} /\ lastFinal' \in Wording \cup {NoText}
        /\ (interimOf' = 0 <=> currentInterim' = NoText)
    BY <1>8, <2>1, <2>4 DEF FinalAndInterim, PassOn, SpeechInv, EngineFollows, STypeOK
  <2>9. /\ recogniser' \in {"idle", "running", "stopping", "aborting"}
        /\ spoken' \in 0..MaxSpoken /\ heard' \in 0..spoken' /\ interimOf' \in 0..spoken'
        /\ unaborted' \subseteq 1..spoken'
        /\ IF listening' THEN recogniser' # "idle" ELSE recogniser' # "running"
    BY <1>8, <2>1, <2>4 DEF FinalAndInterim, PassOn, SpeechInv, EngineFollows, STypeOK
  <2>10. EngineFollows'
    BY <2>5, <2>8, <2>9 DEF EngineFollows, STypeOK
  <2> QED
    BY <2>1, <2>2, <2>6, <2>10 DEF PassOn, SpeechInv, Forgotten
<1>9. CASE Timeout
  <2>1. interimOf \in 1..spoken /\ After(interimOf) /\ PassOn(currentInterim, interimOf, lastFinal)
    BY <1>9 DEF Timeout, SpeechInv, EngineFollows, STypeOK, Later
  <2>2. EachOnceInOrder' /\ \A i \in DOMAIN finals' : finals'[i] \in 1..interimOf
    BY <1>9, <2>1, PassedInOrder DEF Timeout
  <2>3. finals' \in Seq(1..spoken)
    BY <2>1, Passed
  <2>4. Later'
    BY <1>9, <2>1, <2>2 DEF Timeout, PassOn, Aborted, SpeechInv, EngineFollows, STypeOK, Later, After
  <2>8. /\ listening' \in BOOLEAN /\ timer' \in BOOLEAN /\ (timer' => currentInterim' # NoText)
        /\ currentInterim' \in Wording \cup {NoText} /\ lastFinal' \in Wording \cup {NoText}
        /\ (interimOf' = 0 <=> currentInterim' = NoText)
    BY <1>9, <2>1 DEF Timeout, Aborted, PassOn, SpeechInv, EngineFollows, STypeOK
  <2>9. /\ recogniser' \in {"idle", "running", "stopping", "aborting"}
        /\ spoken' \in 0..MaxSpoken /\ heard' \in 0..spoken' /\ interimOf' \in 0..spoken'
        /\ unaborted' \subseteq 1..spoken'
        /\ IF listening' THEN recogniser' # "idle" ELSE recogniser' # "running"
    <3>1. spoken' = spoken /\ listening' = listening /\ interimOf' = 0
      BY <1>9 DEF Timeout, PassOn
    <3>2. /\ recogniser \in {"idle", "running", "stopping", "aborting"} /\ listening \in BOOLEAN
          /\ spoken \in 0..MaxSpoken /\ heard \in 0..spoken
          /\ unaborted \subseteq 1..spoken
          /\ IF listening THEN recogniser # "idle" ELSE recogniser # "running"
      BY DEF SpeechInv, EngineFollows, STypeOK
    <3>3. CASE listening
      <4>1. recogniser' = Aborted(recogniser) /\ heard' = 0 /\ unaborted' = unaborted
        BY <1>9, <3>3 DEF Timeout
      <4> QED
        BY <3>1, <3>2, <3>3, <4>1 DEF Aborted
    <3>4. CASE ~listening
      <4>1. recogniser' = recogniser /\ heard' = heard /\ unaborted' = unaborted \cup {interimOf}
        BY <1>9, <3>4 DEF Timeout
      <4> QED
        BY <2>1, <3>1, <3>2, <3>4, <4>1
    <3> QED
      BY <3>3, <3>4
  <2>10. EngineFollows'
    BY <1>9, <2>3, <2>8, <2>9 DEF Timeout, EngineFollows, STypeOK
  <2> QED
    BY <2>1, <2>2, <2>4, <2>10 DEF PassOn, SpeechInv, Forgotten
<1>10. CASE UNCHANGED svars
  BY <1>10 DEF svars, SpeechInv, EngineFollows, STypeOK, EachOnceInOrder, Later, Forgotten, After
<1> QED
  BY <1>1, <1>2, <1>3, <1>4, <1>5, <1>6, <1>7, <1>8, <1>9, <1>10 DEF SNext

(* What the theorems below rest on, in every reachable state. *)
THEOREM SpeechInductive == SSpec => []SpeechInv
BY SpeechInit, SpeechStep, PTL DEF SSpec

(* The recogniser runs, or is about to be restarted, exactly while the     *)
(* service listens.                                                        *)
THEOREM Follows == SSpec => []EngineFollows
<1>1. SpeechInv => EngineFollows
  BY DEF SpeechInv
<1> QED
  BY <1>1, SpeechInductive, PTL

(* onresult, flushFinal and the restarts pass phrases on in order and once. *)
THEOREM OnceInOrder == SSpec => []EachOnceInOrder
<1>1. SpeechInv => EachOnceInOrder
  BY DEF SpeechInv
<1> QED
  BY <1>1, SpeechInductive, PTL

(* The final text of a phrase of which a guess is shown is always passed on. *)
THEOREM ShownKept == SSpec => ShownIsKept
<1>1. ASSUME SpeechInv, NEW t \in Wording, Final(t), currentInterim # NoText
      PROVE  heard \in Range(finals')
  <2>1. lastFinal # t /\ heard \in 1..spoken /\ finals \in Seq(1..spoken)
    BY <1>1, SpeechAssumption
       DEF SpeechInv, Forgotten, Final, Reporting, EngineFollows, STypeOK
  <2>2. finals' = Append(finals, heard)
    BY <1>1, <2>1 DEF Final, PassOn
  <2>3. Len(finals) + 1 \in DOMAIN finals' /\ finals'[Len(finals) + 1] = heard
    BY <2>1, <2>2
  <2> QED
    BY <2>3 DEF Range
<1>2. SpeechInv /\ [SNext]_svars =>
        [\A t \in Wording :
           Final(t) /\ currentInterim # NoText => heard \in Range(finals')]_svars
  BY <1>1
<1> QED
  BY <1>2, SpeechInductive, PTL DEF SSpec, ShownIsKept

=============================================================================
