---------------------------- MODULE AudioCapture -----------------------------
(***************************************************************************)
(* What the interview page switches on to listen: the speech service, the  *)
(* AudioStreamer (microphone, audio context and worklet), the connection   *)
(* to the live AI service that gets the audio, and the equaliser with a    *)
(* microphone of its own.  Switching on takes time and can fail; the three *)
(* services outlive the page.                                              *)
(***************************************************************************)
EXTENDS Naturals, FiniteSets

CONSTANTS
    MaxStarts,    \* bound on the times that the microphone is switched on
    Language

ASSUME CaptureAssumption == MaxStarts \in Nat /\ "vi-VN" \in Language

(* The n-th start makes the n-th stream, context, worklet node and socket.  *)
Start == 1..MaxStarts
NoStart == 0

VARIABLES
    isListening,   \* the page, and with it the equaliser
    starts,        \* number of starts
    phase,         \* what AudioStreamer.start awaits
    mediaStream,   \* the streamer's fields mediaStream and audioContext
    open,          \* the microphones that are on, with their open contexts
    loaded,        \* the contexts that have the worklet's module
    context,       \* the context that a start made its worklet node in
    isRecording,
    socket, ws,    \* the sockets, and the field ws of liveApiService
    greeted,       \* how many setup messages a socket was sent
    equaliser,     \* the equaliser's microphone
    speech,        \* isListening of speechService
    role, language,                  \* as the page shows them
    serviceRole, serviceLanguage,    \* as speechService has them
    (* history *)
    untimely,      \* switched off while starting, or reset while on
    wasReset,      \* reset while on, and not switched off since
    refused,       \* the speech recogniser was not allowed to run
    left           \* the page was left and come back to

streamer == <<phase, mediaStream, open, loaded, context, isRecording>>
live     == <<socket, ws, greeted>>
roles    == <<role, serviceRole>>
languages == <<language, serviceLanguage>>
history  == <<untimely, wasReset, refused, left>>
vars     == <<isListening, starts, streamer, live, equaliser, speech, roles, languages, history>>

Role == {"interviewer", "candidate"}
Other(r) == IF r = "interviewer" THEN "candidate" ELSE "interviewer"

TypeOK ==
    /\ {isListening, isRecording, speech} \cup {untimely, wasReset, refused, left} \subseteq BOOLEAN
    /\ starts \in 0..MaxStarts
    /\ phase \in [Start -> {"none", "asking", "loading", "done"}]
    /\ mediaStream \in Start \cup {NoStart} /\ ws \in Start \cup {NoStart}
    /\ open \subseteq 1..starts /\ loaded \subseteq 1..starts
    /\ context \in [Start -> Start \cup {NoStart}]
    /\ socket \in [Start -> {"none", "connecting", "open", "closed"}]
    /\ greeted \in [Start -> Nat]
    /\ equaliser \in [Start -> {"off", "asking", "on"}]
    /\ {role, serviceRole} \subseteq Role /\ {language, serviceLanguage} \subseteq Language

Init ==
    /\ isListening = FALSE /\ starts = 0
    /\ phase = [n \in Start |-> "none"] /\ mediaStream = NoStart
    /\ open = {} /\ loaded = {}
    /\ context = [n \in Start |-> NoStart] /\ isRecording = FALSE
    /\ socket = [n \in Start |-> "none"] /\ ws = NoStart
    /\ greeted = [n \in Start |-> 0]
    /\ equaliser = [n \in Start |-> "off"]
    /\ speech = FALSE
    /\ role = "interviewer" /\ serviceRole = "interviewer"
    /\ language = "vi-VN" /\ serviceLanguage = "vi-VN"
    /\ untimely = FALSE /\ wasReset = FALSE /\ refused = FALSE /\ left = FALSE

Starting == {n \in Start : phase[n] \in {"asking", "loading"}}

-----------------------------------------------------------------------------
(* AudioStreamer *)

(* The microphone is granted: stream and context replace those in the      *)
(* fields, which are not closed.                                           *)
Granted(n) ==
    /\ phase[n] = "asking"
    /\ phase' = [phase EXCEPT ![n] = "loading"]
    /\ mediaStream' = n
    /\ open' = open \cup {n}
    /\ UNCHANGED <<isListening, starts, loaded, context, isRecording, live, equaliser,
                   speech, roles, languages, history>>

(* The module is loaded: the node is made in the context that the fields   *)
(* hold by now.  If there is none, or without the module, start fails.     *)
Loaded(n) ==
    /\ phase[n] = "loading"
    /\ phase' = [phase EXCEPT ![n] = "done"]
    /\ loaded' = loaded \cup {n}
    /\ IF mediaStream \in loaded'
       THEN context' = [context EXCEPT ![n] = mediaStream] /\ isRecording' = TRUE
       ELSE UNCHANGED <<context, isRecording>>
    /\ UNCHANGED <<isListening, starts, mediaStream, open, live, equaliser, speech,
                   roles, languages, history>>

(* The microphone is denied, or the module cannot be loaded. *)
StartFails(n) ==
    /\ n \in Starting
    /\ phase' = [phase EXCEPT ![n] = "done"]
    /\ UNCHANGED <<isListening, starts, mediaStream, open, loaded, context, isRecording,
                   live, equaliser, speech, roles, languages, history>>

(* The microphone is left on. *)
MutantStreamerStopped ==
    /\ isRecording' = FALSE /\ mediaStream' = NoStart
    /\ UNCHANGED <<phase, open, loaded, context>>

(* AudioStreamer.stop *)
StreamerStopped ==
    /\ isRecording' = FALSE /\ mediaStream' = NoStart
    /\ open' = open \ {mediaStream}
    /\ UNCHANGED <<phase, loaded, context>>

-----------------------------------------------------------------------------
(* LiveApiService *)

(* onopen: the setup message goes out over the field ws.  On a socket that *)
(* is still connecting, or none, send throws; on a closed one it is lost.  *)
SocketOpens(n) ==
    /\ socket[n] = "connecting"
    /\ socket' = [socket EXCEPT ![n] = "open"]
    /\ greeted' = IF ws # NoStart /\ socket'[ws] = "open"
                  THEN [greeted EXCEPT ![ws] = @ + 1] ELSE greeted
    /\ UNCHANGED <<isListening, starts, streamer, ws, equaliser, speech, roles, languages, history>>

(* By the other side, or because it cannot be reached; the field stays.    *)
SocketEnds(n) ==
    /\ socket[n] \in {"connecting", "open"}
    /\ socket' = [socket EXCEPT ![n] = "closed"]
    /\ UNCHANGED <<isListening, starts, streamer, ws, greeted, equaliser, speech,
                   roles, languages, history>>

(* disconnect *)
Disconnected ==
    /\ ws' = NoStart
    /\ socket' = [n \in Start |-> IF n = ws THEN "closed" ELSE socket[n]]
    /\ UNCHANGED greeted

(* sendAudioChunk gets something to send: the recording is on, a node may  *)
(* deliver (whether it was disconnected or not), the field's socket is open. *)
Delivering == {n \in Start : context[n] \in open}
Sending == isRecording /\ Delivering # {} /\ ws # NoStart /\ socket[ws] = "open"

-----------------------------------------------------------------------------
(* The equaliser: an effect of isListening, with a cleanup *)

(* isActive not looked at. *)
MutantEqualiserGranted(n) ==
    /\ equaliser[n] = "asking"
    /\ equaliser' = [equaliser EXCEPT ![n] = "on"]
    /\ UNCHANGED <<isListening, starts, streamer, live, speech, roles, languages, history>>

(* The microphone is granted to an effect that may be cleaned up by now.   *)
EqualiserGranted(n) ==
    /\ equaliser[n] = "asking"
    /\ equaliser' = [equaliser EXCEPT ![n] = IF isListening /\ n = starts THEN "on" ELSE "off"]
    /\ UNCHANGED <<isListening, starts, streamer, live, speech, roles, languages, history>>

EqualiserDenied(n) ==
    /\ equaliser[n] = "asking"
    /\ equaliser' = [equaliser EXCEPT ![n] = "off"]
    /\ UNCHANGED <<isListening, starts, streamer, live, speech, roles, languages, history>>

EqualiserCleanup ==
    equaliser' = [n \in Start |-> IF equaliser[n] = "on" THEN "off" ELSE equaliser[n]]

-----------------------------------------------------------------------------
(* The page *)

(* handleToggleListen, to listen: nothing that is on is switched off first. *)
SwitchOn ==
    /\ ~isListening /\ starts < MaxStarts
    /\ LET n == starts + 1
       IN  /\ starts' = n
           /\ socket' = [socket EXCEPT ![n] = "connecting"] /\ ws' = n
           /\ phase' = [phase EXCEPT ![n] = "asking"]
           /\ equaliser' = [equaliser EXCEPT ![n] = "asking"]
    /\ speech' = TRUE /\ isListening' = TRUE /\ refused' = FALSE
    /\ UNCHANGED <<mediaStream, open, loaded, context, isRecording, greeted,
                   roles, languages, untimely, wasReset, left>>

(* Off, by the button, and when the page is left, listening or not.        *)
AllStopped ==
    /\ speech' = FALSE /\ StreamerStopped /\ Disconnected
    /\ isListening' = FALSE /\ EqualiserCleanup
    /\ untimely' = (untimely \/ Starting # {}) /\ wasReset' = FALSE
    /\ UNCHANGED <<starts, refused>>

SwitchOff ==
    /\ isListening
    /\ AllStopped
    /\ UNCHANGED <<roles, languages, left>>

(* The page is left, and comes back as it is at first. *)
Leave ==
    /\ AllStopped
    /\ role' = "interviewer" /\ language' = "vi-VN" /\ left' = TRUE
    /\ UNCHANGED <<serviceRole, serviceLanguage>>

(* handleResetInterview stops the speech service only. *)
Reset ==
    /\ isListening
    /\ speech' = FALSE /\ isListening' = FALSE /\ EqualiserCleanup
    /\ untimely' = TRUE /\ wasReset' = TRUE
    /\ UNCHANGED <<starts, streamer, live, roles, languages, refused, left>>

(* The recogniser's error "not-allowed": the page is not told, as          *)
(* startListening takes one callback and the page passes it as the second. *)
NotAllowed ==
    /\ speech
    /\ speech' = FALSE /\ refused' = TRUE
    /\ UNCHANGED <<isListening, starts, streamer, live, equaliser, roles, languages,
                   untimely, wasReset, left>>

(* The page itself toggles. *)
MutantToggleSpeaker ==
    /\ role' = Other(role)
    /\ UNCHANGED <<serviceRole, isListening, starts, streamer, live, equaliser, speech,
                   languages, history>>

(* handleToggleSpeaker: the service toggles and tells the page. *)
ToggleSpeaker ==
    /\ serviceRole' = Other(serviceRole) /\ role' = serviceRole'
    /\ UNCHANGED <<isListening, starts, streamer, live, equaliser, speech, languages, history>>

(* A text was said, by a page that is gone perhaps. *)
SetSpeaker(r, here) ==
    /\ serviceRole' = r
    /\ IF here THEN role' = r ELSE left /\ UNCHANGED role
    /\ UNCHANGED <<isListening, starts, streamer, live, equaliser, speech, languages, history>>

(* handleToggleLanguage: the page toggles and tells the service. *)
SetLanguage(l) ==
    /\ l # language
    /\ language' = l /\ serviceLanguage' = l
    /\ UNCHANGED <<isListening, starts, streamer, live, equaliser, speech, roles, history>>

-----------------------------------------------------------------------------
Next ==
    \/ \E n \in Start :
         \/ Granted(n) \/ Loaded(n) \/ StartFails(n)
         \/ SocketOpens(n) \/ SocketEnds(n)
         \/ EqualiserGranted(n) \/ EqualiserDenied(n)
    \/ SwitchOn \/ SwitchOff \/ Leave \/ Reset \/ NotAllowed
    \/ ToggleSpeaker
    \/ \E r \in Role, here \in BOOLEAN : SetSpeaker(r, here)
    \/ \E l \in Language : SetLanguage(l)

Spec == Init /\ [][Next]_vars

-----------------------------------------------------------------------------
(* Besides the types: as long as nothing was switched off while it was     *)
(* starting, and the interview was not reset while listening, then no      *)
(* microphone and no connection is on when the page does not listen; when  *)
(* it does, only those of the last start are, recorded through one worklet *)
(* node, over a connection that was set up once.                           *)
SwitchedOff ==
    /\ TypeOK
    /\ ~untimely =>
         /\ open \subseteq (IF isListening THEN {starts} ELSE {})
         /\ \A n \in Start :
              socket[n] \in {"connecting", "open"} => isListening /\ n = starts
         /\ \A n \in Start : socket[n] = "open" => greeted[n] = 1
         /\ Cardinality(Delivering) <= 1

(* However starts, stops, resets and departures of the page fall: nothing   *)
(* said is sent to the live AI service while the page does not listen,     *)
(* unless the interview was reset while listening and not switched off     *)
(* since; and the equaliser holds no microphone then, and one at most.     *)
QuietWhenOff ==
    /\ Sending => isListening \/ wasReset
    /\ \A n \in Start : equaliser[n] = "on" => isListening /\ n = starts

(* The button, the role and the language shown are those of the speech     *)
(* service, unless the recogniser was not allowed to run, or the page was  *)
(* left: the service keeps role and language, the page does not.           *)
PageTellsTruth ==
    /\ isListening = speech \/ refused
    /\ ~left => role = serviceRole /\ language = serviceLanguage

=============================================================================
