----------------------------- MODULE Membership -----------------------------
(***************************************************************************)
(* The members of one workspace and its invitations: updateMember,         *)
(* removeMember, createInvitation, resendInvitation, revokeInvitation and  *)
(* acceptInvitation (backend/internal/auth members.go, invitations.go) as  *)
(* concurrent requests.  authenticate and requireAdmin read the caller's   *)
(* membership before the handler's transaction; a SELECT ... FOR UPDATE    *)
(* keeps its row until the commit; a plain SELECT sees what is committed.  *)
(* The sessions that these handlers revoke and issue are in Sessions.      *)
(***************************************************************************)
EXTENDS Naturals

CONSTANTS
    Person,       \* users, named by their e-mail address
    Invitation,   \* ids of workspace_invitations rows
    Request,
    MaxLink,      \* bound: links ever mailed for one invitation
    NoPerson, NoInvitation, NoRequest

ASSUME LinkAssumption == MaxLink \in Nat \ {0}
ASSUME NullAssumption == /\ NoPerson \notin Person
                         /\ NoInvitation \notin Invitation
                         /\ NoRequest \notin Request

VARIABLES
    role, status,           \* workspace_members; "absent": no row, or deleted
    invStatus, invitee, invRole,
    link,                   \* how many links were mailed; the last one is
                            \* the one whose hash is stored
    expired,                \* expires_at has passed
    memberLock, invLock,
    pc, target, nextRole, nextStatus, inv,
    stale                   \* history: another request changed members since
                            \* this one looked for another administrator

members     == <<role, status>>
invitations == <<invStatus, invitee, invRole, link, expired>>
locks       == <<memberLock, invLock>>
locals      == <<pc, target, nextRole, nextStatus, inv, stale>>
vars        == <<members, invitations, locks, locals>>

Role == {"admin", "recruiter"}      \* hiring_manager: as recruiter here
MemberStatus == {"active", "suspended", "absent"}

TypeOK ==
    /\ role \in [Person -> Role]
    /\ status \in [Person -> MemberStatus]
    /\ invStatus \in [Invitation -> {"unused", "pending", "accepted", "revoked"}]
    /\ invitee \in [Invitation -> Person \cup {NoPerson}]
    /\ invRole \in [Invitation -> Role]
    /\ link \in [Invitation -> 0..MaxLink]
    /\ expired \in [Invitation -> BOOLEAN]
    /\ memberLock \in [Person -> Request \cup {NoRequest}]
    /\ invLock \in [Invitation -> Request \cup {NoRequest}]
    /\ pc \in [Request -> {"idle", "find", "change", "insert", "resend", "revoke", "join"}]
    /\ target \in [Request -> Person \cup {NoPerson}]
    /\ nextRole \in [Request -> Role]
    /\ nextStatus \in [Request -> MemberStatus]
    /\ inv \in [Request -> Invitation \cup {NoInvitation}]
    /\ stale \in [Request -> BOOLEAN]
    /\ \A i \in Invitation : invStatus[i] = "unused" <=> invitee[i] = NoPerson

ActiveAdmin(p) == role[p] = "admin" /\ status[p] = "active"
Admins == {p \in Person : ActiveAdmin(p)}

Init ==
    /\ role \in [Person -> Role]
    /\ status \in [Person -> {"active", "absent"}]
    /\ Admins # {}
    /\ invStatus = [i \in Invitation |-> "unused"]
    /\ invitee = [i \in Invitation |-> NoPerson]
    /\ invRole = [i \in Invitation |-> "recruiter"]
    /\ link = [i \in Invitation |-> 0]
    /\ expired = [i \in Invitation |-> FALSE]
    /\ memberLock = [p \in Person |-> NoRequest]
    /\ invLock = [i \in Invitation |-> NoRequest]
    /\ pc = [r \in Request |-> "idle"]
    /\ target = [r \in Request |-> NoPerson]
    /\ nextRole = [r \in Request |-> "recruiter"]
    /\ nextStatus = [r \in Request |-> "absent"]
    /\ inv = [r \in Request |-> NoInvitation]
    /\ stale = [r \in Request |-> FALSE]

-----------------------------------------------------------------------------
EndRequest(r) ==
    /\ pc' = [pc EXCEPT ![r] = "idle"]
    /\ target' = [target EXCEPT ![r] = NoPerson]
    /\ nextRole' = [nextRole EXCEPT ![r] = "recruiter"]
    /\ nextStatus' = [nextStatus EXCEPT ![r] = "absent"]
    /\ inv' = [inv EXCEPT ![r] = NoInvitation]
    /\ memberLock' = [p \in Person |-> IF memberLock[p] = r THEN NoRequest
                                                            ELSE memberLock[p]]
    /\ invLock' = [i \in Invitation |-> IF invLock[i] = r THEN NoRequest
                                                          ELSE invLock[i]]

(* The request answers and nothing it did is kept: an early return, or a   *)
(* failure.                                                                *)
Reject(r) ==
    /\ EndRequest(r)
    /\ stale' = [stale EXCEPT ![r] = FALSE]
    /\ UNCHANGED <<members, invitations>>

Fail(r) == pc[r] # "idle" /\ Reject(r)

(* r commits a change of members: whoever has counted is out of date. *)
OthersStale(r) ==
    stale' = [q \in Request |-> q # r /\ (stale[q] \/ pc[q] = "change")]

(* authenticate and requireAdmin have passed for some administrator. *)
Called == Admins # {}

-----------------------------------------------------------------------------
(* updateMember and removeMember (next status "absent") *)

ChangeBegin(r, p, nr, ns) ==
    /\ pc[r] = "idle"
    /\ Called
    /\ pc' = [pc EXCEPT ![r] = "find"]
    /\ target' = [target EXCEPT ![r] = p]
    /\ nextRole' = [nextRole EXCEPT ![r] = nr]
    /\ nextStatus' = [nextStatus EXCEPT ![r] = ns]
    /\ UNCHANGED <<members, invitations, locks, inv, stale>>

TakesAdminAway(r) ==
    /\ ActiveAdmin(target[r])
    /\ nextRole[r] # "admin" \/ nextStatus[r] # "active"

(* The target itself counted. *)
MutantAnotherAdmin(p) == Admins # {}

(* ensureAnotherAdmin *)
AnotherAdmin(p) == Admins \ {p} # {}

ChangeNotFound(r) ==
    /\ pc[r] = "find"
    /\ status[target[r]] = "absent"
    /\ Reject(r)

ChangeLastAdmin(r) ==
    /\ pc[r] = "find"
    /\ memberLock[target[r]] = NoRequest
    /\ TakesAdminAway(r)
    /\ ~AnotherAdmin(target[r])
    /\ Reject(r)

(* The target row is locked, then the other administrators are counted. *)
ChangeFind(r) ==
    /\ pc[r] = "find"
    /\ status[target[r]] # "absent"
    /\ memberLock[target[r]] = NoRequest
    /\ TakesAdminAway(r) => AnotherAdmin(target[r])
    /\ memberLock' = [memberLock EXCEPT ![target[r]] = r]
    /\ pc' = [pc EXCEPT ![r] = "change"]
    /\ UNCHANGED <<members, invitations, invLock,
                   target, nextRole, nextStatus, inv, stale>>

ChangeCommit(r) ==
    /\ pc[r] = "change"
    /\ role' = IF nextStatus[r] = "absent" THEN role
               ELSE [role EXCEPT ![target[r]] = nextRole[r]]
    /\ status' = [status EXCEPT ![target[r]] = nextStatus[r]]
    /\ OthersStale(r)
    /\ EndRequest(r)
    /\ UNCHANGED invitations

-----------------------------------------------------------------------------
(* createInvitation: the test for an existing membership comes before the  *)
(* transaction that inserts.                                               *)
CreateBegin(r, p, nr) ==
    /\ pc[r] = "idle"
    /\ Called
    /\ status[p] = "absent"
    /\ pc' = [pc EXCEPT ![r] = "insert"]
    /\ target' = [target EXCEPT ![r] = p]
    /\ nextRole' = [nextRole EXCEPT ![r] = nr]
    /\ UNCHANGED <<members, invitations, locks, nextStatus, inv, stale>>

(* workspace_invitations_email_pending_unique *)
PendingFor(p) == {i \in Invitation : invStatus[i] = "pending" /\ invitee[i] = p}

CreateConflict(r) ==
    /\ pc[r] = "insert"
    /\ PendingFor(target[r]) # {}
    /\ Reject(r)

(* Without the unique index. *)
MutantCreateCommit(r, i) ==
    /\ pc[r] = "insert"
    /\ invStatus[i] = "unused"
    /\ invStatus' = [invStatus EXCEPT ![i] = "pending"]
    /\ invitee' = [invitee EXCEPT ![i] = target[r]]
    /\ invRole' = [invRole EXCEPT ![i] = nextRole[r]]
    /\ link' = [link EXCEPT ![i] = 1]
    /\ EndRequest(r)
    /\ UNCHANGED <<members, expired, stale>>

CreateCommit(r, i) ==
    /\ pc[r] = "insert"
    /\ PendingFor(target[r]) = {}
    /\ invStatus[i] = "unused"
    /\ invStatus' = [invStatus EXCEPT ![i] = "pending"]
    /\ invitee' = [invitee EXCEPT ![i] = target[r]]
    /\ invRole' = [invRole EXCEPT ![i] = nextRole[r]]
    /\ link' = [link EXCEPT ![i] = 1]
    /\ EndRequest(r)
    /\ UNCHANGED <<members, expired, stale>>

Expire(i) ==
    /\ invStatus[i] = "pending"
    /\ expired' = [expired EXCEPT ![i] = TRUE]
    /\ UNCHANGED <<members, invStatus, invitee, invRole, link, locks, locals>>

(* resendInvitation and revokeInvitation *)
OfInvitationBegin(r, i, p) ==
    /\ pc[r] = "idle"
    /\ Called
    /\ invStatus[i] # "unused"
    /\ pc' = [pc EXCEPT ![r] = p]
    /\ inv' = [inv EXCEPT ![r] = i]
    /\ UNCHANGED <<members, invitations, locks, target, nextRole, nextStatus, stale>>

ResendBegin(r, i) == link[i] < MaxLink /\ OfInvitationBegin(r, i, "resend")
RevokeBegin(r, i) == OfInvitationBegin(r, i, "revoke")

NotPending(r) ==
    /\ pc[r] \in {"resend", "revoke"}
    /\ invStatus[inv[r]] # "pending"
    /\ Reject(r)

ResendCommit(r) ==
    /\ pc[r] = "resend"
    /\ invStatus[inv[r]] = "pending"
    /\ invLock[inv[r]] = NoRequest
    /\ link[inv[r]] < MaxLink
    /\ link' = [link EXCEPT ![inv[r]] = @ + 1]
    /\ expired' = [expired EXCEPT ![inv[r]] = FALSE]
    /\ EndRequest(r)
    /\ UNCHANGED <<members, invStatus, invitee, invRole, stale>>

RevokeCommit(r) ==
    /\ pc[r] = "revoke"
    /\ invStatus[inv[r]] = "pending"
    /\ invLock[inv[r]] = NoRequest
    /\ invStatus' = [invStatus EXCEPT ![inv[r]] = "revoked"]
    /\ EndRequest(r)
    /\ UNCHANGED <<members, invitee, invRole, link, expired, stale>>

-----------------------------------------------------------------------------
(* acceptInvitation with the link mailed last for i (an older one finds no *)
(* row): the invitation is locked and found pending and unexpired; then    *)
(* the invitee's member row is locked and written.                         *)

(* Without FOR UPDATE. *)
MutantAcceptBegin(r, i) ==
    /\ pc[r] = "idle"
    /\ ~expired[i]
    /\ invStatus[i] = "pending"
    /\ inv' = [inv EXCEPT ![r] = i]
    /\ pc' = [pc EXCEPT ![r] = "join"]
    /\ UNCHANGED <<members, invitations, locks, target, nextRole, nextStatus, stale>>

AcceptBegin(r, i) ==
    /\ pc[r] = "idle"
    /\ invLock[i] = NoRequest
    /\ ~expired[i]
    /\ invStatus[i] = "pending"
    /\ invLock' = [invLock EXCEPT ![i] = r]
    /\ inv' = [inv EXCEPT ![r] = i]
    /\ pc' = [pc EXCEPT ![r] = "join"]
    /\ UNCHANGED <<members, invitations, memberLock, target, nextRole, nextStatus, stale>>

AcceptCommit(r) ==
    LET i == inv[r]
        p == invitee[i]
    IN  /\ pc[r] = "join"
        /\ memberLock[p] = NoRequest
        /\ role' = [role EXCEPT ![p] = invRole[i]]
        /\ status' = [status EXCEPT ![p] = "active"]
        /\ invStatus' = [invStatus EXCEPT ![i] = "accepted"]
        /\ OthersStale(r)
        /\ EndRequest(r)
        /\ UNCHANGED <<invitee, invRole, link, expired>>

-----------------------------------------------------------------------------
Next ==
    \/ \E i \in Invitation : Expire(i)
    \/ \E r \in Request :
        \/ \E p \in Person, nr \in Role :
             \/ CreateBegin(r, p, nr)
             \/ \E ns \in MemberStatus : ChangeBegin(r, p, nr, ns)
        \/ ChangeNotFound(r) \/ ChangeLastAdmin(r)
        \/ ChangeFind(r) \/ ChangeCommit(r)
        \/ CreateConflict(r)
        \/ \E i \in Invitation :
             \/ CreateCommit(r, i) \/ AcceptBegin(r, i)
             \/ ResendBegin(r, i) \/ RevokeBegin(r, i)
        \/ NotPending(r) \/ ResendCommit(r) \/ RevokeCommit(r)
        \/ AcceptCommit(r)
        \/ Fail(r)

Spec == Init /\ [][Next]_vars

-----------------------------------------------------------------------------
(* The last administrator, which the README has protected, is lost only to *)
(* a race.  Either another change of members was committed between the count *)
(* of ensureAnotherAdmin and the commit that relies on it, or the last     *)
(* administrator accepts an invitation that was created although they had  *)
(* become a member in the meantime.                                        *)
AdminsLostOnlyToRaces ==
    [][Admins # {} /\ Admins' = {} =>
        \E r \in Request :
            \/ ChangeCommit(r) /\ stale[r]
            \/ AcceptCommit(r) /\ status[invitee[inv[r]]] # "absent"]_vars

(* Nobody becomes a member by a link that a resend has replaced, even when *)
(* the resend runs while the invitation is being accepted: while a request *)
(* joins, its invitation stays pending under the link it presented.  And   *)
(* an invitation is decided once: whoever comes second of an accept, a     *)
(* revocation and a resend of the same invitation changes nothing of it.   *)
JoinsByLiveInvitation ==
    /\ [][\A r \in Request : pc[r] = "join" /\ pc'[r] = "join" =>
           /\ link'[inv[r]] = link[inv[r]]
           /\ invStatus'[inv[r]] = "pending"]_vars
    /\ [][\A i \in Invitation : invStatus[i] \in {"accepted", "revoked"} =>
           invStatus'[i] = invStatus[i] /\ link'[i] = link[i]]_vars

(* Besides the types: at most one invitation is pending for an address,    *)
(* though the handler never looks for one: the unique index decides        *)
(* concurrent inserts.                                                     *)
OnePendingEach ==
    /\ TypeOK
    /\ \A i, j \in Invitation :
         invStatus[i] = "pending" /\ invStatus[j] = "pending" /\ invitee[i] = invitee[j]
             => i = j

=============================================================================
