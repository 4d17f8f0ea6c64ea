---------------------------- MODULE SessionStore ----------------------------
(***************************************************************************)
(* What the refresh sessions promise, without requests, locks or clocks:   *)
(* a session has at most one current token, each refresh exchanges it for  *)
(* one that was never used before, and a session that is closed stays so.  *)
(***************************************************************************)
CONSTANTS Token, NoToken

VARIABLES
    current,    \* the current token of the session that began with a token
    used        \* the tokens ever issued

vars == <<current, used>>

Init == current = [f \in Token |-> NoToken] /\ used = {}

Closed(F) == [f \in Token |-> IF f \in F THEN NoToken ELSE current[f]]

Close(F) == current' = Closed(F) /\ UNCHANGED used

(* A session begins with token n; the sessions F end (a workspace switch). *)
Open(n, F) ==
    /\ n \notin used
    /\ used' = used \cup {n}
    /\ current' = [Closed(F) EXCEPT ![n] = n]

Exchange(f, n) ==
    /\ current[f] # NoToken
    /\ n \notin used
    /\ used' = used \cup {n}
    /\ current' = [current EXCEPT ![f] = n]

Next ==
    \/ \E F \in SUBSET Token : Close(F) \/ \E n \in Token : Open(n, F)
    \/ \E f, n \in Token : Exchange(f, n)

Spec == Init /\ [][Next]_vars

=============================================================================
