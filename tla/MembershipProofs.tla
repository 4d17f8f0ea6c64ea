-------------------------- MODULE MembershipProofs --------------------------
(***************************************************************************)
(* For any people, invitations and requests: at most one invitation is     *)
(* pending for an address, who joins does so by a live invitation, and the *)
(* last administrator is lost only to a race.  IInv is inductive: the      *)
(* types, what a request between two steps is about (Aimed), the row lock  *)
(* that acceptInvitation keeps (Locked), what ensureAnotherAdmin found     *)
(* (Counted), and the unique index (OnePendingEach).                       *)
(***************************************************************************)
EXTENDS Membership, TLAPS

(* A request knows its member, or an invitation that was sent. *)
Aimed ==
    \A r \in Request :
        /\ pc[r] \in {"find", "change", "insert"} => target[r] \in Person
        /\ pc[r] \in {"resend", "revoke", "join"} =>
             inv[r] \in Invitation /\ invStatus[inv[r]] # "unused"

(* Whoever joins has the lock of a pending invitation. *)
Locked ==
    \A r \in Request : pc[r] = "join" =>
        invLock[inv[r]] = r /\ invStatus[inv[r]] = "pending"

(* What ensureAnotherAdmin found holds until members change. *)
Counted ==
    \A r \in Request : pc[r] = "change" /\ ~stale[r] /\ TakesAdminAway(r) =>
        AnotherAdmin(target[r])

IInv == OnePendingEach /\ Aimed /\ Locked /\ Counted

-----------------------------------------------------------------------------
(* What the end of a request leaves of it. *)
LEMMA Ended ==
    ASSUME TypeOK, NEW r \in Request, EndRequest(r)
    PROVE  /\ pc' \in [Request -> {"idle", "find", "change", "insert", "resend", "revoke", "join"}]
           /\ target' \in [Request -> Person \cup {NoPerson}]
           /\ nextRole' \in [Request -> Role]
           /\ nextStatus' \in [Request -> MemberStatus]
           /\ inv' \in [Request -> Invitation \cup {NoInvitation}]
           /\ memberLock' \in [Person -> Request \cup {NoRequest}]
           /\ invLock' \in [Invitation -> Request \cup {NoRequest}]
           /\ pc'[r] = "idle"
           /\ \A q \in Request \ {r} :
                /\ pc'[q] = pc[q] /\ target'[q] = target[q] /\ inv'[q] = inv[q]
                /\ nextRole'[q] = nextRole[q] /\ nextStatus'[q] = nextStatus[q]
                /\ \A i \in Invitation : invLock[i] = q => invLock'[i] = q
BY NullAssumption DEF TypeOK, EndRequest, Role, MemberStatus

(* The initial states satisfy the inductive invariant. *)
LEMMA InitInv == Init => IInv
BY LinkAssumption, NullAssumption
   DEF Init, IInv, OnePendingEach, TypeOK, Aimed, Locked, Counted, Role, MemberStatus

(* A step preserves the types. *)
LEMMA TypeStep ==
    ASSUME IInv, [Next]_vars
    PROVE  TypeOK'
<1> USE LinkAssumption, NullAssumption DEF IInv, OnePendingEach, TypeOK, Aimed, members, invitations, locks, locals, Role, MemberStatus
<1>1. ASSUME NEW i \in Invitation, Expire(i) PROVE TypeOK'
  BY <1>1 DEF Expire
<1>2. ASSUME NEW r \in Request, NEW p \in Person, NEW nr \in Role, CreateBegin(r, p, nr) PROVE TypeOK'
  BY <1>2 DEF CreateBegin
<1>3. ASSUME NEW r \in Request, NEW p \in Person, NEW nr \in Role, NEW ns \in MemberStatus, ChangeBegin(r, p, nr, ns) PROVE TypeOK'
  BY <1>3 DEF ChangeBegin
<1>4. ASSUME NEW r \in Request, Reject(r) PROVE TypeOK'
  BY <1>4, Ended DEF Reject
<1>5. ASSUME NEW r \in Request, ChangeFind(r) PROVE TypeOK'
  BY <1>5 DEF ChangeFind
<1>6. ASSUME NEW r \in Request, ChangeCommit(r) PROVE TypeOK'
  BY <1>6, Ended DEF ChangeCommit, OthersStale
<1>7. ASSUME NEW r \in Request, NEW i \in Invitation, CreateCommit(r, i) PROVE TypeOK'
  BY <1>7, Ended DEF CreateCommit
<1>8. ASSUME NEW r \in Request, NEW i \in Invitation, AcceptBegin(r, i) PROVE TypeOK'
  BY <1>8 DEF AcceptBegin
<1>9. ASSUME NEW r \in Request, NEW i \in Invitation, NEW p \in {"resend", "revoke"}, OfInvitationBegin(r, i, p) PROVE TypeOK'
  BY <1>9 DEF OfInvitationBegin
<1>10. ASSUME NEW r \in Request, ResendCommit(r) PROVE TypeOK'
  BY <1>10, Ended DEF ResendCommit
<1>11. ASSUME NEW r \in Request, RevokeCommit(r) PROVE TypeOK'
  BY <1>11, Ended DEF RevokeCommit
<1>12. ASSUME NEW r \in Request, AcceptCommit(r) PROVE TypeOK'
  BY <1>12, Ended DEF AcceptCommit, OthersStale
<1>13. CASE UNCHANGED vars
  BY <1>13 DEF vars
<1>14. ASSUME NEW r \in Request, ChangeNotFound(r) \/ ChangeLastAdmin(r) \/ CreateConflict(r) \/ NotPending(r) \/ Fail(r) PROVE TypeOK'
  BY <1>14, <1>4 DEF ChangeNotFound, ChangeLastAdmin, CreateConflict, NotPending, Fail
<1>15. ASSUME NEW r \in Request, NEW i \in Invitation, ResendBegin(r, i) \/ RevokeBegin(r, i) PROVE TypeOK'
  BY <1>15, <1>9 DEF ResendBegin, RevokeBegin
<1> QED
  BY <1>1, <1>2, <1>3, <1>4, <1>5, <1>6, <1>7, <1>8, <1>9, <1>10, <1>11, <1>12, <1>13, <1>14, <1>15 DEF Next

(* Invitations are sent before they are resent, revoked or accepted, and stay so. *)
LEMMA AimedStep ==
    ASSUME IInv, TypeOK', [Next]_vars
    PROVE  Aimed'
<1> USE LinkAssumption, NullAssumption DEF IInv, OnePendingEach, TypeOK, Aimed, members, invitations, locks, locals, Role, MemberStatus
<1>1. ASSUME NEW i \in Invitation, Expire(i) PROVE Aimed'
  BY <1>1 DEF Expire
<1>2. ASSUME NEW r \in Request, NEW p \in Person, NEW nr \in Role, CreateBegin(r, p, nr) PROVE Aimed'
  BY <1>2 DEF CreateBegin
<1>3. ASSUME NEW r \in Request, NEW p \in Person, NEW nr \in Role, NEW ns \in MemberStatus, ChangeBegin(r, p, nr, ns) PROVE Aimed'
  BY <1>3 DEF ChangeBegin
<1>4. ASSUME NEW r \in Request, Reject(r) PROVE Aimed'
  BY <1>4, Ended DEF Reject
<1>5. ASSUME NEW r \in Request, ChangeFind(r) PROVE Aimed'
  BY <1>5 DEF ChangeFind
<1>6. ASSUME NEW r \in Request, ChangeCommit(r) PROVE Aimed'
  BY <1>6, Ended DEF ChangeCommit, OthersStale
<1>7. ASSUME NEW r \in Request, NEW i \in Invitation, CreateCommit(r, i) PROVE Aimed'
  BY <1>7, Ended DEF CreateCommit
<1>8. ASSUME NEW r \in Request, NEW i \in Invitation, AcceptBegin(r, i) PROVE Aimed'
  BY <1>8 DEF AcceptBegin
<1>9. ASSUME NEW r \in Request, NEW i \in Invitation, NEW p \in {"resend", "revoke"}, OfInvitationBegin(r, i, p) PROVE Aimed'
  BY <1>9 DEF OfInvitationBegin
<1>10. ASSUME NEW r \in Request, ResendCommit(r) PROVE Aimed'
  BY <1>10, Ended DEF ResendCommit
<1>11. ASSUME NEW r \in Request, RevokeCommit(r) PROVE Aimed'
  BY <1>11, Ended DEF RevokeCommit
<1>12. ASSUME NEW r \in Request, AcceptCommit(r) PROVE Aimed'
  BY <1>12, Ended DEF AcceptCommit, OthersStale
<1>13. CASE UNCHANGED vars
  BY <1>13 DEF vars
<1>14. ASSUME NEW r \in Request, ChangeNotFound(r) \/ ChangeLastAdmin(r) \/ CreateConflict(r) \/ NotPending(r) \/ Fail(r) PROVE Aimed'
  BY <1>14, <1>4 DEF ChangeNotFound, ChangeLastAdmin, CreateConflict, NotPending, Fail
<1>15. ASSUME NEW r \in Request, NEW i \in Invitation, ResendBegin(r, i) \/ RevokeBegin(r, i) PROVE Aimed'
  BY <1>15, <1>9 DEF ResendBegin, RevokeBegin
<1> QED
  BY <1>1, <1>2, <1>3, <1>4, <1>5, <1>6, <1>7, <1>8, <1>9, <1>10, <1>11, <1>12, <1>13, <1>14, <1>15 DEF Next

(* Nobody else decides an invitation that is locked. *)
LEMMA LockedStep ==
    ASSUME IInv, TypeOK', Aimed', [Next]_vars
    PROVE  Locked'
<1> USE LinkAssumption, NullAssumption DEF IInv, OnePendingEach, TypeOK, Aimed, Locked, members, invitations, locks, locals, Role, MemberStatus
<1>1. ASSUME NEW i \in Invitation, Expire(i) PROVE Locked'
  BY <1>1 DEF Expire
<1>2. ASSUME NEW r \in Request, NEW p \in Person, NEW nr \in Role, CreateBegin(r, p, nr) PROVE Locked'
  BY <1>2 DEF CreateBegin
<1>3. ASSUME NEW r \in Request, NEW p \in Person, NEW nr \in Role, NEW ns \in MemberStatus, ChangeBegin(r, p, nr, ns) PROVE Locked'
  BY <1>3 DEF ChangeBegin
<1>4. ASSUME NEW r \in Request, Reject(r) PROVE Locked'
  <2>1. \A q \in Request : pc'[q] = "join" => q # r /\ pc[q] = "join" /\ inv'[q] = inv[q]
    BY <1>4, Ended DEF Reject
  <2>2. \A q \in Request : pc'[q] = "join" => invLock'[inv[q]] = q
    BY <1>4, Ended, <2>1 DEF Reject
  <2>3. invStatus' = invStatus
    BY <1>4 DEF Reject
  <2> QED
    BY <2>1, <2>2, <2>3 DEF Locked
<1>5. ASSUME NEW r \in Request, ChangeFind(r) PROVE Locked'
  BY <1>5 DEF ChangeFind
<1>6. ASSUME NEW r \in Request, ChangeCommit(r) PROVE Locked'
  BY <1>6, Ended DEF ChangeCommit, OthersStale
<1>7. ASSUME NEW r \in Request, NEW i \in Invitation, CreateCommit(r, i) PROVE Locked'
  BY <1>7, Ended DEF CreateCommit
<1>8. ASSUME NEW r \in Request, NEW i \in Invitation, AcceptBegin(r, i) PROVE Locked'
  BY <1>8 DEF AcceptBegin
<1>9. ASSUME NEW r \in Request, NEW i \in Invitation, NEW p \in {"resend", "revoke"}, OfInvitationBegin(r, i, p) PROVE Locked'
  BY <1>9 DEF OfInvitationBegin
<1>10. ASSUME NEW r \in Request, ResendCommit(r) PROVE Locked'
  BY <1>10, Ended DEF ResendCommit
<1>11. ASSUME NEW r \in Request, RevokeCommit(r) PROVE Locked'
  BY <1>11, Ended DEF RevokeCommit
<1>12. ASSUME NEW r \in Request, AcceptCommit(r) PROVE Locked'
  BY <1>12, Ended DEF AcceptCommit, OthersStale
<1>13. CASE UNCHANGED vars
  BY <1>13 DEF vars
<1>14. ASSUME NEW r \in Request, ChangeNotFound(r) \/ ChangeLastAdmin(r) \/ CreateConflict(r) \/ NotPending(r) \/ Fail(r) PROVE Locked'
  BY <1>14, <1>4 DEF ChangeNotFound, ChangeLastAdmin, CreateConflict, NotPending, Fail
<1>15. ASSUME NEW r \in Request, NEW i \in Invitation, ResendBegin(r, i) \/ RevokeBegin(r, i) PROVE Locked'
  BY <1>15, <1>9 DEF ResendBegin, RevokeBegin
<1> QED
  BY <1>1, <1>2, <1>3, <1>4, <1>5, <1>6, <1>7, <1>8, <1>9, <1>10, <1>11, <1>12, <1>13, <1>14, <1>15 DEF Next

(* Only a commit of another request changes who is an administrator. *)
LEMMA CountedStep ==
    ASSUME IInv, TypeOK', Aimed', [Next]_vars
    PROVE  Counted'
<1> USE LinkAssumption, NullAssumption DEF IInv, OnePendingEach, TypeOK, Aimed, Counted, TakesAdminAway, AnotherAdmin, Admins, ActiveAdmin, members, invitations, locks, locals, Role, MemberStatus
<1>1. ASSUME NEW i \in Invitation, Expire(i) PROVE Counted'
  BY <1>1 DEF Expire
<1>2. ASSUME NEW r \in Request, NEW p \in Person, NEW nr \in Role, CreateBegin(r, p, nr) PROVE Counted'
  BY <1>2 DEF CreateBegin
<1>3. ASSUME NEW r \in Request, NEW p \in Person, NEW nr \in Role, NEW ns \in MemberStatus, ChangeBegin(r, p, nr, ns) PROVE Counted'
  BY <1>3 DEF ChangeBegin
<1>4. ASSUME NEW r \in Request, Reject(r) PROVE Counted'
  BY <1>4, Ended DEF Reject
<1>5. ASSUME NEW r \in Request, ChangeFind(r) PROVE Counted'
  BY <1>5 DEF ChangeFind
<1>6. ASSUME NEW r \in Request, ChangeCommit(r) PROVE Counted'
  <2>1. \A q \in Request : pc'[q] = "change" => stale'[q]
    BY <1>6, Ended DEF ChangeCommit, OthersStale
  <2> QED
    BY <2>1 DEF Counted
<1>7. ASSUME NEW r \in Request, NEW i \in Invitation, CreateCommit(r, i) PROVE Counted'
  BY <1>7, Ended DEF CreateCommit
<1>8. ASSUME NEW r \in Request, NEW i \in Invitation, AcceptBegin(r, i) PROVE Counted'
  BY <1>8 DEF AcceptBegin
<1>9. ASSUME NEW r \in Request, NEW i \in Invitation, NEW p \in {"resend", "revoke"}, OfInvitationBegin(r, i, p) PROVE Counted'
  BY <1>9 DEF OfInvitationBegin
<1>10. ASSUME NEW r \in Request, ResendCommit(r) PROVE Counted'
  BY <1>10, Ended DEF ResendCommit
<1>11. ASSUME NEW r \in Request, RevokeCommit(r) PROVE Counted'
  BY <1>11, Ended DEF RevokeCommit
<1>12. ASSUME NEW r \in Request, AcceptCommit(r) PROVE Counted'
  <2>0. EndRequest(r) /\ OthersStale(r)
    BY <1>12 DEF AcceptCommit
  <2>1. \A q \in Request : pc'[q] = "change" => stale'[q]
    BY <2>0, Ended DEF OthersStale
  <2> QED
    BY <2>1 DEF Counted
<1>13. CASE UNCHANGED vars
  BY <1>13 DEF vars
<1>14. ASSUME NEW r \in Request, ChangeNotFound(r) \/ ChangeLastAdmin(r) \/ CreateConflict(r) \/ NotPending(r) \/ Fail(r) PROVE Counted'
  BY <1>14, <1>4 DEF ChangeNotFound, ChangeLastAdmin, CreateConflict, NotPending, Fail
<1>15. ASSUME NEW r \in Request, NEW i \in Invitation, ResendBegin(r, i) \/ RevokeBegin(r, i) PROVE Counted'
  BY <1>15, <1>9 DEF ResendBegin, RevokeBegin
<1> QED
  BY <1>1, <1>2, <1>3, <1>4, <1>5, <1>6, <1>7, <1>8, <1>9, <1>10, <1>11, <1>12, <1>13, <1>14, <1>15 DEF Next

(* Only createInvitation makes an invitation pending. *)
LEMMA PendingStep ==
    ASSUME IInv, TypeOK', [Next]_vars
    PROVE  OnePendingEach'
<1> USE LinkAssumption, NullAssumption DEF IInv, OnePendingEach, TypeOK, Aimed, PendingFor, members, invitations, locks, locals, Role, MemberStatus
<1>1. ASSUME NEW i \in Invitation, Expire(i) PROVE OnePendingEach'
  BY <1>1 DEF Expire
<1>2. ASSUME NEW r \in Request, NEW p \in Person, NEW nr \in Role, CreateBegin(r, p, nr) PROVE OnePendingEach'
  BY <1>2 DEF CreateBegin
<1>3. ASSUME NEW r \in Request, NEW p \in Person, NEW nr \in Role, NEW ns \in MemberStatus, ChangeBegin(r, p, nr, ns) PROVE OnePendingEach'
  BY <1>3 DEF ChangeBegin
<1>4. ASSUME NEW r \in Request, Reject(r) PROVE OnePendingEach'
  BY <1>4, Ended DEF Reject
<1>5. ASSUME NEW r \in Request, ChangeFind(r) PROVE OnePendingEach'
  BY <1>5 DEF ChangeFind
<1>6. ASSUME NEW r \in Request, ChangeCommit(r) PROVE OnePendingEach'
  BY <1>6, Ended DEF ChangeCommit, OthersStale
<1>7. ASSUME NEW r \in Request, NEW i \in Invitation, CreateCommit(r, i) PROVE OnePendingEach'
  BY <1>7, Ended DEF CreateCommit
<1>8. ASSUME NEW r \in Request, NEW i \in Invitation, AcceptBegin(r, i) PROVE OnePendingEach'
  BY <1>8 DEF AcceptBegin
<1>9. ASSUME NEW r \in Request, NEW i \in Invitation, NEW p \in {"resend", "revoke"}, OfInvitationBegin(r, i, p) PROVE OnePendingEach'
  BY <1>9 DEF OfInvitationBegin
<1>10. ASSUME NEW r \in Request, ResendCommit(r) PROVE OnePendingEach'
  BY <1>10, Ended DEF ResendCommit
<1>11. ASSUME NEW r \in Request, RevokeCommit(r) PROVE OnePendingEach'
  BY <1>11, Ended DEF RevokeCommit
<1>12. ASSUME NEW r \in Request, AcceptCommit(r) PROVE OnePendingEach'
  BY <1>12, Ended DEF AcceptCommit, OthersStale
<1>13. CASE UNCHANGED vars
  BY <1>13 DEF vars
<1>14. ASSUME NEW r \in Request, ChangeNotFound(r) \/ ChangeLastAdmin(r) \/ CreateConflict(r) \/ NotPending(r) \/ Fail(r) PROVE OnePendingEach'
  BY <1>14, <1>4 DEF ChangeNotFound, ChangeLastAdmin, CreateConflict, NotPending, Fail
<1>15. ASSUME NEW r \in Request, NEW i \in Invitation, ResendBegin(r, i) \/ RevokeBegin(r, i) PROVE OnePendingEach'
  BY <1>15, <1>9 DEF ResendBegin, RevokeBegin
<1> QED
  BY <1>1, <1>2, <1>3, <1>4, <1>5, <1>6, <1>7, <1>8, <1>9, <1>10, <1>11, <1>12, <1>13, <1>14, <1>15 DEF Next

(* What the proofs below rest on, in every reachable state. *)
THEOREM Inductive == Spec => []IInv
<1>1. IInv /\ [Next]_vars => IInv'
  BY TypeStep, AimedStep, LockedStep, CountedStep, PendingStep DEF IInv
<1> QED
  BY <1>1, InitInv, PTL DEF Spec

-----------------------------------------------------------------------------
(* At most one invitation is pending for an address, whatever createInvitation, *)
(* resendInvitation and the others do at the same time.                     *)
THEOREM OnePending == Spec => []OnePendingEach
<1>1. IInv => OnePendingEach
  BY DEF IInv
<1> QED
  BY <1>1, Inductive, PTL

(* While a request joins, the lock keeps its invitation pending under the  *)
(* link it presented.                                                      *)
LEMMA JoinKept ==
    ASSUME IInv, [Next]_vars, NEW r \in Request, pc[r] = "join", pc'[r] = "join"
    PROVE  link'[inv[r]] = link[inv[r]] /\ invStatus'[inv[r]] = "pending"
<1> DEFINE Kept == link'[inv[r]] = link[inv[r]] /\ invStatus'[inv[r]] = "pending"
<1>1. /\ inv[r] \in Invitation /\ invLock[inv[r]] = r /\ r # NoRequest
      /\ invStatus[inv[r]] = "pending"
  BY NullAssumption DEF IInv, Aimed, Locked
<1> USE DEF IInv, OnePendingEach, TypeOK, members, invitations, locks, locals
<1>2. SUFFICES Kept
  OBVIOUS
<1>3. ASSUME UNCHANGED <<invStatus, link>> PROVE Kept
  BY <1>1, <1>3
<1>4. ASSUME NEW q \in Request, NEW i \in Invitation, CreateCommit(q, i) PROVE Kept
  BY <1>1, <1>4 DEF CreateCommit
<1>5. ASSUME NEW q \in Request, ResendCommit(q) PROVE Kept
  BY <1>1, <1>5 DEF ResendCommit, Aimed
<1>6. ASSUME NEW q \in Request, RevokeCommit(q) PROVE Kept
  BY <1>1, <1>6 DEF RevokeCommit, Aimed
<1>7. ASSUME NEW q \in Request, AcceptCommit(q) PROVE Kept
  <2>1. q # r
    BY <1>7, Ended DEF AcceptCommit
  <2>2. inv[q] # inv[r]
    BY <1>1, <1>7, <2>1 DEF AcceptCommit, Locked
  <2> QED
    BY <1>1, <1>7, <2>2 DEF AcceptCommit
<1>8. CASE UNCHANGED vars
  BY <1>3, <1>8 DEF vars
<1> QED
  BY <1>3, <1>4, <1>5, <1>6, <1>7, <1>8
     DEF Next, Expire, CreateBegin, ChangeBegin, ChangeNotFound, ChangeLastAdmin,
         ChangeFind, ChangeCommit, CreateConflict, AcceptBegin, ResendBegin,
         RevokeBegin, OfInvitationBegin, NotPending, Fail, Reject

(* An invitation that was accepted or revoked stays as it is. *)
LEMMA DecidedKept ==
    ASSUME IInv, [Next]_vars, NEW i \in Invitation,
           invStatus[i] \in {"accepted", "revoked"}
    PROVE  invStatus'[i] = invStatus[i] /\ link'[i] = link[i]
<1> DEFINE Kept == invStatus'[i] = invStatus[i] /\ link'[i] = link[i]
<1> USE DEF IInv, OnePendingEach, TypeOK, members, invitations, locks, locals
<1>2. SUFFICES Kept
  OBVIOUS
<1>3. ASSUME UNCHANGED <<invStatus, link>> PROVE Kept
  BY <1>3
<1>4. ASSUME NEW q \in Request, NEW j \in Invitation, CreateCommit(q, j) PROVE Kept
  BY <1>4 DEF CreateCommit
<1>5. ASSUME NEW q \in Request, ResendCommit(q) PROVE Kept
  BY <1>5 DEF ResendCommit, Aimed
<1>6. ASSUME NEW q \in Request, RevokeCommit(q) PROVE Kept
  BY <1>6 DEF RevokeCommit, Aimed
<1>7. ASSUME NEW q \in Request, AcceptCommit(q) PROVE Kept
  BY <1>7 DEF AcceptCommit, Locked, Aimed
<1>8. CASE UNCHANGED vars
  BY <1>3, <1>8 DEF vars
<1> QED
  BY <1>3, <1>4, <1>5, <1>6, <1>7, <1>8
     DEF Next, Expire, CreateBegin, ChangeBegin, ChangeNotFound, ChangeLastAdmin,
         ChangeFind, ChangeCommit, CreateConflict, AcceptBegin, ResendBegin,
         RevokeBegin, OfInvitationBegin, NotPending, Fail, Reject

(* Nobody joins by a link that was replaced meanwhile, and an invitation   *)
(* is decided once: acceptInvitation against resendInvitation and          *)
(* revokeInvitation.                                                       *)
THEOREM LiveInvitation == Spec => JoinsByLiveInvitation
<1>1. IInv /\ [Next]_vars =>
        [\A r \in Request : pc[r] = "join" /\ pc'[r] = "join" =>
           /\ link'[inv[r]] = link[inv[r]]
           /\ invStatus'[inv[r]] = "pending"]_vars
  BY JoinKept
<1>2. IInv /\ [Next]_vars =>
        [\A i \in Invitation : invStatus[i] \in {"accepted", "revoked"} =>
           invStatus'[i] = invStatus[i] /\ link'[i] = link[i]]_vars
  BY DecidedKept
<1> QED
  BY <1>1, <1>2, Inductive, PTL DEF Spec, JoinsByLiveInvitation

-----------------------------------------------------------------------------
(* A step that leaves no administrator is a commit on a count that is out  *)
(* of date, or an accept by somebody who is a member already.              *)
LEMMA AdminsStep ==
    ASSUME IInv, [Next]_vars, Admins # {}, Admins' = {}
    PROVE  \E r \in Request :
             \/ ChangeCommit(r) /\ stale[r]
             \/ AcceptCommit(r) /\ status[invitee[inv[r]]] # "absent"
<1> DEFINE Race == \E r \in Request :
             \/ ChangeCommit(r) /\ stale[r]
             \/ AcceptCommit(r) /\ status[invitee[inv[r]]] # "absent"
<1>1. PICK p \in Person : ActiveAdmin(p) /\ ~ActiveAdmin(p)'
  BY DEF Admins
<1>2. ~UNCHANGED members
  BY <1>1 DEF ActiveAdmin, members
<1>3. ASSUME NEW r \in Request, ChangeCommit(r) PROVE Race
  <2>1. SUFFICES ASSUME ~stale[r] PROVE FALSE
    BY <1>3
  <2>2. target[r] \in Person /\ role \in [Person -> Role] /\ status \in [Person -> MemberStatus]
    BY <1>3 DEF ChangeCommit, IInv, Aimed, OnePendingEach, TypeOK
  <2>3. \A q \in Person \ {target[r]} : ActiveAdmin(q) => ActiveAdmin(q)'
    BY <1>3, <2>2 DEF ChangeCommit, ActiveAdmin
  <2>4. p = target[r]
    BY <1>1, <2>3
  <2>5. TakesAdminAway(r)
    BY <1>1, <1>3, <2>2, <2>4 DEF ChangeCommit, ActiveAdmin, TakesAdminAway
  <2>6. AnotherAdmin(target[r])
    BY <1>3, <2>1, <2>5 DEF ChangeCommit, IInv, Counted
  <2>7. PICK q \in Person \ {target[r]} : ActiveAdmin(q)
    BY <2>6 DEF AnotherAdmin, Admins
  <2> QED
    BY <2>3, <2>7 DEF Admins
<1>4. ASSUME NEW r \in Request, AcceptCommit(r) PROVE Race
  <2>1. SUFFICES ASSUME status[invitee[inv[r]]] = "absent" PROVE FALSE
    BY <1>4
  <2>2. p # invitee[inv[r]]
    BY <1>1, <2>1 DEF ActiveAdmin
  <2>3. role'[p] = role[p] /\ status'[p] = status[p]
    BY <1>4, <2>2 DEF AcceptCommit, IInv, OnePendingEach, TypeOK
  <2> QED
    BY <1>1, <2>3 DEF ActiveAdmin
<1>5. CASE UNCHANGED vars
  BY <1>2, <1>5 DEF vars
<1> QED
  BY <1>2, <1>3, <1>4, <1>5
     DEF Next, Expire, CreateBegin, ChangeBegin, ChangeNotFound, ChangeLastAdmin,
         ChangeFind, CreateConflict, CreateCommit, AcceptBegin, ResendBegin,
         RevokeBegin, OfInvitationBegin, ResendCommit, RevokeCommit, NotPending,
         Fail, Reject

(* ensureAnotherAdmin loses the last administrator only to a race.         *)
THEOREM LostOnlyToRaces == Spec => AdminsLostOnlyToRaces
<1>1. IInv /\ [Next]_vars =>
        [Admins # {} /\ Admins' = {} =>
           \E r \in Request :
             \/ ChangeCommit(r) /\ stale[r]
             \/ AcceptCommit(r) /\ status[invitee[inv[r]]] # "absent"]_vars
  BY AdminsStep
<1> QED
  BY <1>1, Inductive, PTL DEF Spec, AdminsLostOnlyToRaces

=============================================================================
