-------------------------- MODULE EmailVerification --------------------------
(***************************************************************************)
(* Registration and the links that verify an e-mail address (register,     *)
(* verifyEmail and resendVerification of the auth package), and accepted   *)
(* invitations, which verify it too (acceptInvitation): the users, the     *)
(* email_verification_tokens and the row locks of concurrent requests.     *)
(***************************************************************************)
EXTENDS Naturals, FiniteSets

CONSTANTS
    Email, Token, Request,
    NoEmail, NoToken, NoRequest

ASSUME NullAssumption ==
    NoEmail \notin Email /\ NoToken \notin Token /\ NoRequest \notin Request

VARIABLES
    users,        \* the user of each address
    linkOf, link, \* the links: whose, and whether it still works
    expired,      \* links whose expires_at has passed
    mailed,       \* links somebody received
    userLock, linkLock,
    \* each request: where it is, for whom, with which link, links still
    \* to be revoked
    pc, who, tok, todo,
    opened,       \* history: the sessions opened by each link
    invited,      \* history: addresses that an invitation verified
    raced         \* history: addresses with a resend that met another
                  \* resend, or a verification, under way

tables == <<users, linkOf, link>>
locks  == <<userLock, linkLock>>
locals == <<pc, who, tok, todo>>
vars   == <<tables, expired, mailed, locks, locals, opened, invited, raced>>

Links(e) == {t \in Token : linkOf[t] = e}
LiveLinks(e) == {t \in Links(e) : link[t] = "live"}
VerifiedByLink(e) == \E t \in Links(e) : link[t] = "consumed"
Scanning == {"resend_rows", "verify_rows"}

TypeOK ==
    /\ users \in [Email -> {"none", "unverified", "verified"}]
    /\ linkOf \in [Token -> Email \cup {NoEmail}]
    /\ link \in [Token -> {"none", "live", "consumed", "revoked"}]
    /\ expired \subseteq Token /\ mailed \subseteq Token
    /\ userLock \in [Email -> Request \cup {NoRequest}]
    /\ linkLock \in [Token -> Request \cup {NoRequest}]
    /\ pc \in [Request -> {"idle", "register", "resend", "verify_link",
                           "verify_user", "verify", "accept", "mail"} \cup Scanning]
    /\ who \in [Request -> Email \cup {NoEmail}]
    /\ tok \in [Request -> Token \cup {NoToken}]
    /\ todo \in [Request -> SUBSET Token]
    /\ opened \in [Token -> Nat]
    /\ invited \subseteq Email /\ raced \subseteq Email
    \* a transaction that ended holds no lock
    /\ \A r \in Request : pc[r] \in {"idle", "mail"} =>
         /\ \A e \in Email : userLock[e] # r
         /\ \A t \in Token : linkLock[t] # r

Init ==
    /\ users = [e \in Email |-> "none"]
    /\ linkOf = [t \in Token |-> NoEmail]
    /\ link = [t \in Token |-> "none"]
    /\ expired = {} /\ mailed = {}
    /\ userLock = [e \in Email |-> NoRequest]
    /\ linkLock = [t \in Token |-> NoRequest]
    /\ pc = [r \in Request |-> "idle"]
    /\ who = [r \in Request |-> NoEmail]
    /\ tok = [r \in Request |-> NoToken]
    /\ todo = [r \in Request |-> {}]
    /\ opened = [t \in Token |-> 0]
    /\ invited = {} /\ raced = {}

-----------------------------------------------------------------------------
At(r, p, e, t) ==
    /\ pc' = [pc EXCEPT ![r] = p]
    /\ who' = [who EXCEPT ![r] = e]
    /\ tok' = [tok EXCEPT ![r] = t]
    /\ todo' = [todo EXCEPT ![r] = {}]

EndTransaction(r) ==
    /\ userLock' = [e \in Email |-> IF userLock[e] = r THEN NoRequest ELSE userLock[e]]
    /\ linkLock' = [t \in Token |-> IF linkLock[t] = r THEN NoRequest ELSE linkLock[t]]

(* The links with the UPDATE of r's transaction in them. *)
Revoked(r) == [t \in Token |-> IF linkLock[t] = r THEN "revoked" ELSE link[t]]

(* An error, the deadlock detector's included. *)
Fail(r) ==
    /\ pc[r] \notin {"idle", "mail"}
    /\ EndTransaction(r)
    /\ At(r, "idle", NoEmail, NoToken)
    /\ UNCHANGED <<tables, expired, mailed, opened, invited, raced>>

(* SendVerification follows the commit; an error of it is logged. *)
Mail(r) ==
    /\ pc[r] = "mail"
    /\ mailed' \in {mailed, mailed \cup {tok[r]}}
    /\ At(r, "idle", NoEmail, NoToken)
    /\ UNCHANGED <<tables, expired, locks, opened, invited, raced>>

(* The verificationTTL of a link passes. *)
Expire(t) ==
    /\ linkOf[t] # NoEmail
    /\ expired' = expired \cup {t}
    /\ UNCHANGED <<tables, mailed, locks, locals, opened, invited, raced>>

-----------------------------------------------------------------------------
(* register.  The unique index lets one INSERT of an address go on; others *)
(* wait for it and end with 409 once there is a user.                      *)
Register(r, e) ==
    /\ pc[r] = "idle"
    /\ users[e] = "none"
    /\ userLock[e] = NoRequest
    /\ userLock' = [userLock EXCEPT ![e] = r]
    /\ At(r, "register", e, NoToken)
    /\ UNCHANGED <<tables, expired, mailed, linkLock, opened, invited, raced>>

RegisterCommit(r, n) ==
    /\ pc[r] = "register"
    /\ linkOf[n] = NoEmail
    /\ users' = [users EXCEPT ![who[r]] = "unverified"]
    /\ linkOf' = [linkOf EXCEPT ![n] = who[r]]
    /\ link' = [link EXCEPT ![n] = "live"]
    /\ EndTransaction(r)
    /\ At(r, "mail", NoEmail, n)
    /\ UNCHANGED <<expired, mailed, opened, invited, raced>>

-----------------------------------------------------------------------------
(* resendVerification: the user is read before the transaction.            *)

ResendFind(r, e) ==
    /\ pc[r] = "idle"
    /\ users[e] = "unverified"
    /\ At(r, "resend", e, NoToken)
    /\ UNCHANGED <<tables, expired, mailed, locks, opened, invited, raced>>

(* No UPDATE of the older links. *)
MutantResendKeep(r) ==
    /\ pc[r] = "resend"
    /\ pc' = [pc EXCEPT ![r] = "resend_rows"]
    /\ UNCHANGED <<tables, expired, mailed, locks, who, tok, todo, opened, invited, raced>>

(* The user locked before the links. *)
MutantResendLock(r) ==
    /\ pc[r] = "resend"
    /\ userLock[who[r]] = NoRequest
    /\ userLock' = [userLock EXCEPT ![who[r]] = r]
    /\ pc' = [pc EXCEPT ![r] = "resend_rows"]
    /\ todo' = [todo EXCEPT ![r] = LiveLinks(who[r])]
    /\ UNCHANGED <<tables, expired, mailed, linkLock, who, tok, opened, invited, raced>>

(* The UPDATE sees the links that are committed when it begins.            *)
ResendUpdate(r) ==
    /\ pc[r] = "resend"
    /\ pc' = [pc EXCEPT ![r] = "resend_rows"]
    /\ todo' = [todo EXCEPT ![r] = LiveLinks(who[r])]
    /\ raced' = IF \E q \in Request : pc[q] = "resend_rows" /\ who[q] = who[r]
                THEN raced \cup {who[r]} ELSE raced
    /\ UNCHANGED <<tables, expired, mailed, locks, who, tok, opened, invited>>

(* Each row committed on its own. *)
MutantUpdateAlone(r) ==
    /\ pc[r] \in Scanning
    /\ \E t \in todo[r] :
         /\ linkLock[t] \in {NoRequest, r}
         /\ todo' = [todo EXCEPT ![r] = @ \ {t}]
         /\ link' = [link EXCEPT ![t] = IF @ = "live" THEN "revoked" ELSE @]
    /\ UNCHANGED <<users, linkOf, expired, mailed, locks, pc, who, tok, opened, invited, raced>>

(* One row of the UPDATE of either handler: its condition is checked again *)
(* once the row is locked.                                                 *)
UpdateRow(r) ==
    /\ pc[r] \in Scanning
    /\ \E t \in todo[r] :
         /\ linkLock[t] \in {NoRequest, r}
         /\ todo' = [todo EXCEPT ![r] = @ \ {t}]
         /\ linkLock' = IF link[t] = "live" THEN [linkLock EXCEPT ![t] = r] ELSE linkLock
    /\ UNCHANGED <<tables, expired, mailed, userLock, pc, who, tok, opened, invited, raced>>

(* The new link's foreign key needs the user's row unlocked by others.     *)
ResendCommit(r, n) ==
    /\ pc[r] = "resend_rows"
    /\ todo[r] = {}
    /\ userLock[who[r]] \in {NoRequest, r}
    /\ linkOf[n] = NoEmail
    /\ linkOf' = [linkOf EXCEPT ![n] = who[r]]
    /\ link' = [Revoked(r) EXCEPT ![n] = "live"]
    /\ EndTransaction(r)
    /\ At(r, "mail", NoEmail, n)
    /\ UNCHANGED <<users, expired, mailed, opened, invited, raced>>

-----------------------------------------------------------------------------
(* verifyEmail: FOR UPDATE OF evt, u locks the link, then the user.  The   *)
(* member's row is left to module Sessions.                                *)

VerifyBegin(r, t) ==
    /\ pc[r] = "idle"
    /\ t \in mailed
    /\ At(r, "verify_link", linkOf[t], t)
    /\ UNCHANGED <<tables, expired, mailed, locks, opened, invited, raced>>

VerifyLink(r) ==
    /\ pc[r] = "verify_link"
    /\ linkLock[tok[r]] = NoRequest
    /\ linkLock' = [linkLock EXCEPT ![tok[r]] = r]
    /\ pc' = [pc EXCEPT ![r] = "verify_user"]
    /\ UNCHANGED <<tables, expired, mailed, userLock, who, tok, todo, opened, invited, raced>>

VerifyUser(r) ==
    /\ pc[r] = "verify_user"
    /\ userLock[who[r]] = NoRequest
    /\ userLock' = [userLock EXCEPT ![who[r]] = r]
    /\ pc' = [pc EXCEPT ![r] = "verify"]
    /\ UNCHANGED <<tables, expired, mailed, linkLock, who, tok, todo, opened, invited, raced>>

VerifyReject(r) ==
    /\ pc[r] = "verify"
    /\ tok[r] \in expired \/ link[tok[r]] # "live"
    /\ EndTransaction(r)
    /\ At(r, "idle", NoEmail, NoToken)
    /\ UNCHANGED <<tables, expired, mailed, opened, invited, raced>>

(* consumed_at not looked at. *)
MutantVerifyUpdate(r) ==
    /\ pc[r] = "verify"
    /\ tok[r] \notin expired /\ link[tok[r]] # "revoked"
    /\ pc' = [pc EXCEPT ![r] = "verify_rows"]
    /\ todo' = [todo EXCEPT ![r] = LiveLinks(who[r]) \ {tok[r]}]
    /\ UNCHANGED <<tables, expired, mailed, locks, who, tok, opened, invited, raced>>

VerifyUpdate(r) ==
    /\ pc[r] = "verify"
    /\ tok[r] \notin expired /\ link[tok[r]] = "live"
    /\ pc' = [pc EXCEPT ![r] = "verify_rows"]
    /\ todo' = [todo EXCEPT ![r] = LiveLinks(who[r]) \ {tok[r]}]
    /\ UNCHANGED <<tables, expired, mailed, locks, who, tok, opened, invited, raced>>

VerifyCommit(r) ==
    /\ pc[r] = "verify_rows"
    /\ todo[r] = {}
    /\ users' = [users EXCEPT ![who[r]] = "verified"]
    /\ link' = [Revoked(r) EXCEPT ![tok[r]] = "consumed"]
    /\ opened' = [opened EXCEPT ![tok[r]] = @ + 1]
    /\ raced' = IF \E q \in Request : /\ pc[q] \in {"resend", "resend_rows"}
                                      /\ who[q] = who[r]
                THEN raced \cup {who[r]} ELSE raced
    /\ EndTransaction(r)
    /\ At(r, "idle", NoEmail, NoToken)
    /\ UNCHANGED <<linkOf, expired, mailed, invited>>

-----------------------------------------------------------------------------
(* acceptInvitation: FOR UPDATE locks the user; without one, a user is     *)
(* inserted that is verified.  No link is touched.  Which invitations      *)
(* there are, and the member's row, are left to module Membership.         *)

AcceptUser(r, e) ==
    /\ pc[r] = "idle"
    /\ userLock[e] = NoRequest
    /\ userLock' = [userLock EXCEPT ![e] = r]
    /\ At(r, "accept", e, NoToken)
    /\ UNCHANGED <<tables, expired, mailed, linkLock, opened, invited, raced>>

AcceptCommit(r) ==
    /\ pc[r] = "accept"
    /\ users' = [users EXCEPT ![who[r]] = "verified"]
    /\ invited' = IF users[who[r]] = "verified" THEN invited ELSE invited \cup {who[r]}
    /\ EndTransaction(r)
    /\ At(r, "idle", NoEmail, NoToken)
    /\ UNCHANGED <<linkOf, link, expired, mailed, opened, raced>>

-----------------------------------------------------------------------------
Next ==
    \/ \E t \in Token : Expire(t)
    \/ \E r \in Request :
         \/ \E e \in Email : Register(r, e) \/ ResendFind(r, e) \/ AcceptUser(r, e)
         \/ \E t \in Token : VerifyBegin(r, t) \/ RegisterCommit(r, t) \/ ResendCommit(r, t)
         \/ ResendUpdate(r) \/ UpdateRow(r)
         \/ VerifyLink(r) \/ VerifyUser(r) \/ VerifyReject(r)
         \/ VerifyUpdate(r) \/ VerifyCommit(r) \/ AcceptCommit(r)
         \/ Mail(r) \/ Fail(r)

Spec == Init /\ [][Next]_vars

-----------------------------------------------------------------------------
(* A link opens one session at most, however often and by however many     *)
(* requests it is sent.  An address is verified by one of its own links or *)
(* by an invitation that was sent to it, and by nothing else.              *)
LinksAreSpentOnce ==
    /\ \A t \in Token : opened[t] = IF link[t] = "consumed" THEN 1 ELSE 0
    /\ \A e \in Email : users[e] = "verified" <=> e \in invited \/ VerifiedByLink(e)

(* Besides the types: whoever is still to be verified has a link that was  *)
(* not revoked: a resend takes the old links away only together with       *)
(* giving a new one.                                                       *)
UnverifiedHasLink ==
    /\ TypeOK
    /\ \A e \in Email : users[e] = "unverified" => LiveLinks(e) # {}

(* It is the only one, and none is left once an address was verified by a  *)
(* link, unless a resend ran into another resend or a verification of the  *)
(* same address.  An invitation leaves the link that there was (or that a  *)
(* resend under way still makes), never a second one.                      *)
OneLinkUnlessRaced ==
    \A e \in Email \ raced :
        /\ Cardinality(LiveLinks(e)) <= 1
        /\ users[e] = "unverified" => Cardinality(LiveLinks(e)) = 1
        /\ users[e] = "none" \/ VerifiedByLink(e) => LiveLinks(e) = {}

(* The requests that r waits for. *)
WaitsFor(r) ==
    LET holders ==
          IF pc[r] = "verify_link" THEN {linkLock[tok[r]]}
          ELSE IF pc[r] = "verify_user" \/ (pc[r] = "resend_rows" /\ todo[r] = {})
          THEN {userLock[who[r]]}
          ELSE IF \A t \in todo[r] : linkLock[t] \notin {NoRequest, r}
          THEN {linkLock[t] : t \in todo[r]} ELSE {}
    IN  holders \ {NoRequest, r}

(* Requests wait for each other in a circle only over two live links of an *)
(* address: with one link the locks are always taken in the same order.    *)
CircleNeedsTwoLinks ==
    \A S \in (SUBSET Request) \ {{}} :
        (\A r \in S : WaitsFor(r) # {} /\ WaitsFor(r) \subseteq S) =>
            \E r \in S : Cardinality(LiveLinks(who[r])) > 1

=============================================================================
