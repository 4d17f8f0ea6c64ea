------------------------------ MODULE Sessions ------------------------------
(***************************************************************************)
(* The rotating refresh sessions of backend/internal/auth, as the requests *)
(* of several HTTP handlers that run concurrently against PostgreSQL at    *)
(* READ COMMITTED.                                                         *)
(*                                                                         *)
(* A transaction is a sequence of steps of one request.  Its writes become *)
(* visible in the step that models transaction.Commit, the rows it has     *)
(* locked (FOR UPDATE, or by an UPDATE) stay locked until then, and an     *)
(* UPDATE of several rows first fixes the rows its statement snapshot can  *)
(* see and then locks them one at a time, waiting for each: a row that     *)
(* another transaction inserts in between is not among them.               *)
(*                                                                         *)
(* A member is one row of workspace_members, a (user, workspace) pair.  A  *)
(* family is named by its first token (family_id is a fresh UUID drawn     *)
(* with that token).                                                       *)
(***************************************************************************)
EXTENDS Integers

CONSTANTS
    Token,       \* ids of refresh_tokens rows
    Request,     \* concurrent HTTP requests
    Member,      \* rows of workspace_members
    User,
    UserOf,      \* the user of a member
    Registered,  \* members whose verification link is still out at first
    Lifetime,    \* refreshTTL and rememberRefreshTTL, in clock units
    Grace,       \* refreshReuseGrace, in clock units
    MaxTime,     \* bound on the clock
    NoToken, NoRequest, NoMember

ASSUME UserAssumption    == UserOf \in [Member -> User] /\ Registered \subseteq Member
ASSUME TimeAssumption    == /\ Lifetime \subseteq Nat \ {0}
                            /\ Grace \in Nat
                            /\ MaxTime \in Nat
ASSUME NullAssumption    == /\ NoToken \notin Token
                            /\ NoRequest \notin Request
                            /\ NoMember \notin Member

Never == -1      \* revoked_at IS NULL

VARIABLES
    now,          \* the clock of the API server and of the database
    \* refresh_tokens: the committed rows and their columns
    rows, family, owner, expiresAt, revokedAt, replacedBy,
    \* workspace_members.status and deleted_at; users.email_verified_at;
    \* memberships with an active email verification token
    status, emailVerified, verifiable,
    viaVerify,    \* history: tokens that verifyEmail issued
    tokenLock, memberLock,
    \* each request: where it is, when its transaction began if it is one
    \* that writes revoked_at (SQL now() is that time),
    \* the token it presented (or, behind authenticate, the family of its
    \* access token), the member row it works on, the rows its UPDATE still
    \* has to lock, the status it will write
    pc, beganAt, tok, mem, todo, nextStatus

tokenTable  == <<rows, family, owner, expiresAt, revokedAt, replacedBy>>
memberTable == <<status, emailVerified, verifiable, viaVerify>>
locks       == <<tokenLock, memberLock>>
locals      == <<pc, beganAt, tok, mem, todo, nextStatus>>
vars        == <<now, tokenTable, memberTable, locks, locals>>

-----------------------------------------------------------------------------
Status == {"active", "suspended", "removed"}

Waiting == {"refresh_token", "refresh_member", "switch_member"}
Scanning == {"reuse_rows", "logout_rows", "switch_rows", "change_rows"}
Issuing == {"rotate", "login", "accept", "verify"}
PC == {"idle", "logout"} \cup Waiting \cup Scanning \cup Issuing

TypeOK ==
    /\ now \in Nat
    /\ rows \subseteq Token
    /\ family \in [Token -> Token]
    /\ owner \in [Token -> Member \cup {NoMember}]
    /\ expiresAt \in [Token -> Nat]
    /\ revokedAt \in [Token -> Nat \cup {Never}]
    /\ replacedBy \in [Token -> Token \cup {NoToken}]
    /\ status \in [Member -> Status]
    /\ emailVerified \subseteq User
    /\ verifiable \subseteq Member
    /\ viaVerify \subseteq Token
    /\ tokenLock \in [Token -> Request \cup {NoRequest}]
    /\ memberLock \in [Member -> Request \cup {NoRequest}]
    /\ pc \in [Request -> PC]
    /\ beganAt \in [Request -> Nat]
    /\ tok \in [Request -> Token \cup {NoToken}]
    /\ mem \in [Request -> Member \cup {NoMember}]
    /\ todo \in [Request -> SUBSET Token]
    /\ nextStatus \in [Request -> Status]

Live(t) == t \in rows /\ revokedAt[t] = Never

FamilyRows(f) == {t \in rows : family[t] = f}

(* classifyRefresh *)
Expired(t, at) == expiresAt[t] < at
MutantActive(t) == replacedBy[t] = NoToken        \* revoked_at not looked at
Active(t) == revokedAt[t] = Never /\ replacedBy[t] = NoToken
WithinGrace(t, at) ==
    /\ replacedBy[t] # NoToken
    /\ revokedAt[t] # Never
    /\ at - revokedAt[t] <= Grace

(* The member row carries a usable session: the WHERE clause that login,   *)
(* refresh, switchWorkspace and authenticate share.                        *)
Usable(m) == status[m] = "active" /\ UserOf[m] \in emailVerified

(* authenticate: an access token of family f for member m is accepted.     *)
Authenticated(f, m) ==
    /\ Usable(m)
    /\ \E t \in FamilyRows(f) :
         owner[t] = m /\ revokedAt[t] = Never /\ expiresAt[t] > now

-----------------------------------------------------------------------------
Init ==
    /\ now = 0
    /\ rows = {}
    /\ family = [t \in Token |-> t]
    /\ owner = [t \in Token |-> NoMember]
    /\ expiresAt = [t \in Token |-> 0]
    /\ revokedAt = [t \in Token |-> Never]
    /\ replacedBy = [t \in Token |-> NoToken]
    /\ status = [m \in Member |-> "active"]
    /\ emailVerified = User \ {UserOf[m] : m \in Registered}
    /\ verifiable = Registered
    /\ viaVerify = {}
    /\ tokenLock = [t \in Token |-> NoRequest]
    /\ memberLock = [m \in Member |-> NoRequest]
    /\ pc = [r \in Request |-> "idle"]
    /\ beganAt = [r \in Request |-> 0]
    /\ tok = [r \in Request |-> NoToken]
    /\ mem = [r \in Request |-> NoMember]
    /\ todo = [r \in Request |-> {}]
    /\ nextStatus = [r \in Request |-> "active"]

Tick ==
    /\ now < MaxTime
    /\ now' = now + 1
    /\ UNCHANGED <<tokenTable, memberTable, locks, locals>>

-----------------------------------------------------------------------------
(* The transaction ends, by commit or by rollback, and its locks go.       *)
EndTransaction(r) ==
    /\ pc' = [pc EXCEPT ![r] = "idle"]
    /\ beganAt' = [beganAt EXCEPT ![r] = 0]
    /\ tok' = [tok EXCEPT ![r] = NoToken]
    /\ mem' = [mem EXCEPT ![r] = NoMember]
    /\ todo' = [todo EXCEPT ![r] = {}]
    /\ nextStatus' = [nextStatus EXCEPT ![r] = "active"]
    /\ tokenLock' = [t \in Token |-> IF tokenLock[t] = r THEN NoRequest
                                                         ELSE tokenLock[t]]
    /\ memberLock' = [m \in Member |-> IF memberLock[m] = r THEN NoRequest
                                                            ELSE memberLock[m]]

(* Answer without having written anything. *)
Reject(r) == EndTransaction(r) /\ UNCHANGED <<now, tokenTable, memberTable>>

LockMember(r, m) ==
    /\ memberLock[m] = NoRequest
    /\ memberLock' = [memberLock EXCEPT ![m] = r]

(* issueSession: the row that the commit of r makes visible. *)
IssueSession(n, f, m) ==
    /\ n \in Token \ rows
    /\ rows' = rows \cup {n}
    /\ family' = [family EXCEPT ![n] = f]
    /\ owner' = [owner EXCEPT ![n] = m]
    /\ \E ttl \in Lifetime : expiresAt' = [expiresAt EXCEPT ![n] = now + ttl]

(* Without the COALESCE. *)
MutantRevokeLocked(r) ==
    revokedAt' = [t \in Token |-> IF tokenLock[t] = r THEN beganAt[r] ELSE revokedAt[t]]

(* revoked_at = COALESCE(revoked_at, now()) on every row r has updated. *)
RevokeLocked(r) ==
    revokedAt' = [t \in Token |->
        IF tokenLock[t] = r /\ revokedAt[t] = Never THEN beganAt[r]
                                                     ELSE revokedAt[t]]

(* One more row of the UPDATE of r: wait for its lock, evaluate the WHERE  *)
(* clause again on what is now committed, and update it.                   *)
UpdateRow(r) ==
    /\ pc[r] \in Scanning
    /\ \E t \in todo[r] :
         /\ tokenLock[t] \in {NoRequest, r}
         /\ todo' = [todo EXCEPT ![r] = @ \ {t}]
         /\ tokenLock' = IF pc[r] = "reuse_rows" /\ revokedAt[t] # Never
                         THEN tokenLock
                         ELSE [tokenLock EXCEPT ![t] = r]
    /\ UNCHANGED <<now, tokenTable, memberTable, memberLock,
                   pc, beganAt, tok, mem, nextStatus>>

-----------------------------------------------------------------------------
(* refresh *)

RefreshBegin(r, t) ==
    /\ pc[r] = "idle"
    /\ t \in rows
    /\ pc' = [pc EXCEPT ![r] = "refresh_token"]
    /\ beganAt' = [beganAt EXCEPT ![r] = now]
    /\ tok' = [tok EXCEPT ![r] = t]
    /\ UNCHANGED <<now, tokenTable, memberTable, locks, mem, todo, nextStatus>>

RefreshExpired(r) ==
    /\ pc[r] = "refresh_token"
    /\ tokenLock[tok[r]] = NoRequest
    /\ Expired(tok[r], now)
    /\ revokedAt' = [revokedAt EXCEPT ![tok[r]] =
                        IF @ = Never THEN beganAt[r] ELSE @]
    /\ EndTransaction(r)
    /\ UNCHANGED <<now, rows, family, owner, expiresAt, replacedBy, memberTable>>

RefreshWithinGrace(r) ==
    /\ pc[r] = "refresh_token"
    /\ tokenLock[tok[r]] = NoRequest
    /\ ~Expired(tok[r], now)
    /\ ~Active(tok[r])
    /\ WithinGrace(tok[r], now)
    /\ Reject(r)

(* The reused token is locked, then the UPDATE of its family takes its     *)
(* statement snapshot.                                                     *)
RefreshReused(r) ==
    /\ pc[r] = "refresh_token"
    /\ tokenLock[tok[r]] = NoRequest
    /\ ~Expired(tok[r], now)
    /\ ~Active(tok[r])
    /\ ~WithinGrace(tok[r], now)
    /\ tokenLock' = [tokenLock EXCEPT ![tok[r]] = r]
    /\ todo' = [todo EXCEPT ![r] = {t \in FamilyRows(family[tok[r]]) : Live(t)}]
    /\ pc' = [pc EXCEPT ![r] = "reuse_rows"]
    /\ UNCHANGED <<now, tokenTable, memberTable, memberLock,
                   beganAt, tok, mem, nextStatus>>

(* Answered with the transaction left open, its row locks held. *)
MutantReusedCommit(r) ==
    /\ pc[r] = "reuse_rows"
    /\ todo[r] = {}
    /\ pc' = [pc EXCEPT ![r] = "idle"]
    /\ UNCHANGED <<now, tokenTable, memberTable, locks,
                   beganAt, tok, mem, todo, nextStatus>>

RefreshReusedCommit(r) ==
    /\ pc[r] = "reuse_rows"
    /\ todo[r] = {}
    /\ RevokeLocked(r)
    /\ EndTransaction(r)
    /\ UNCHANGED <<now, rows, family, owner, expiresAt, replacedBy, memberTable>>

(* The token read without FOR UPDATE. *)
MutantRefreshActive(r) ==
    /\ pc[r] = "refresh_token"
    /\ ~Expired(tok[r], now)
    /\ Active(tok[r])
    /\ mem' = [mem EXCEPT ![r] = owner[tok[r]]]
    /\ pc' = [pc EXCEPT ![r] = "refresh_member"]
    /\ UNCHANGED <<now, tokenTable, memberTable, locks,
                   beganAt, tok, todo, nextStatus>>

RefreshActive(r) ==
    /\ pc[r] = "refresh_token"
    /\ tokenLock[tok[r]] = NoRequest
    /\ ~Expired(tok[r], now)
    /\ Active(tok[r])
    /\ tokenLock' = [tokenLock EXCEPT ![tok[r]] = r]
    /\ mem' = [mem EXCEPT ![r] = owner[tok[r]]]
    /\ pc' = [pc EXCEPT ![r] = "refresh_member"]
    /\ UNCHANGED <<now, tokenTable, memberTable, memberLock,
                   beganAt, tok, todo, nextStatus>>

(* The member row read without FOR UPDATE. *)
MutantRefreshMember(r) ==
    /\ pc[r] = "refresh_member"
    /\ Usable(mem[r])
    /\ pc' = [pc EXCEPT ![r] = "rotate"]
    /\ UNCHANGED <<now, tokenTable, memberTable, locks,
                   beganAt, tok, mem, todo, nextStatus>>

RefreshMember(r) ==
    /\ pc[r] = "refresh_member"
    /\ Usable(mem[r])
    /\ LockMember(r, mem[r])
    /\ pc' = [pc EXCEPT ![r] = "rotate"]
    /\ UNCHANGED <<now, tokenTable, memberTable, tokenLock,
                   beganAt, tok, mem, todo, nextStatus>>

RefreshInactive(r) ==
    /\ pc[r] = "refresh_member"
    /\ ~Usable(mem[r])
    /\ Reject(r)

(* replaced_by forgotten. *)
MutantRefreshRotate(r, n) ==
    /\ pc[r] = "rotate"
    /\ IssueSession(n, family[tok[r]], mem[r])
    /\ revokedAt' = [revokedAt EXCEPT ![tok[r]] = beganAt[r]]
    /\ EndTransaction(r)
    /\ UNCHANGED <<now, replacedBy, memberTable>>

RefreshRotate(r, n) ==
    /\ pc[r] = "rotate"
    /\ IssueSession(n, family[tok[r]], mem[r])
    /\ revokedAt' = [revokedAt EXCEPT ![tok[r]] = beganAt[r]]
    /\ replacedBy' = [replacedBy EXCEPT ![tok[r]] = n]
    /\ EndTransaction(r)
    /\ UNCHANGED <<now, memberTable>>

-----------------------------------------------------------------------------
(* login, acceptInvitation and verifyEmail lock the member row, the last   *)
(* two the users row before it, and open a session in a family of its own. *)

UserLocked(u) ==
    \E q \in Request : pc[q] \in {"accept", "verify"} /\ UserOf[mem[q]] = u

OpenBegin(r, m, p) ==
    /\ pc[r] = "idle"
    /\ ~UserLocked(UserOf[m]) \/ p = "login"
    /\ LockMember(r, m)
    /\ pc' = [pc EXCEPT ![r] = p]
    /\ mem' = [mem EXCEPT ![r] = m]
    /\ UNCHANGED <<now, tokenTable, memberTable, tokenLock,
                   beganAt, tok, todo, nextStatus>>

(* Which of a user's usable memberships login opens (the most recently     *)
(* accessed) is left open.                                                 *)
LoginBegin(r, m) == Usable(m) /\ OpenBegin(r, m, "login")

AcceptInvitationBegin(r, m) == OpenBegin(r, m, "accept")

(* The query of verifyEmail asks neither for an active membership nor for  *)
(* one that is not deleted.                                                *)
VerifyEmailBegin(r, m) == m \in verifiable /\ OpenBegin(r, m, "verify")

LoginCommit(r, n) ==
    /\ pc[r] = "login"
    /\ IssueSession(n, n, mem[r])
    /\ EndTransaction(r)
    /\ UNCHANGED <<now, revokedAt, replacedBy, memberTable>>

AcceptInvitationCommit(r, n) ==
    /\ pc[r] = "accept"
    /\ IssueSession(n, n, mem[r])
    /\ status' = [status EXCEPT ![mem[r]] = "active"]
    /\ emailVerified' = emailVerified \cup {UserOf[mem[r]]}
    /\ EndTransaction(r)
    /\ UNCHANGED <<now, revokedAt, replacedBy, verifiable, viaVerify>>

VerifyEmailCommit(r, n) ==
    /\ pc[r] = "verify"
    /\ IssueSession(n, n, mem[r])
    /\ emailVerified' = emailVerified \cup {UserOf[mem[r]]}
    /\ verifiable' = {m \in verifiable : UserOf[m] # UserOf[mem[r]]}
    /\ viaVerify' = viaVerify \cup {n}
    /\ EndTransaction(r)
    /\ UNCHANGED <<now, revokedAt, replacedBy, status>>

-----------------------------------------------------------------------------
(* logout: authenticate has read the session before the handler's own      *)
(* transaction starts.                                                     *)

LogoutBegin(r, f, m) ==
    /\ pc[r] = "idle"
    /\ Authenticated(f, m)
    /\ pc' = [pc EXCEPT ![r] = "logout"]
    /\ tok' = [tok EXCEPT ![r] = f]
    /\ UNCHANGED <<now, tokenTable, memberTable, locks,
                   beganAt, mem, todo, nextStatus>>

LogoutUpdate(r) ==
    /\ pc[r] = "logout"
    /\ beganAt' = [beganAt EXCEPT ![r] = now]
    /\ todo' = [todo EXCEPT ![r] = FamilyRows(tok[r])]
    /\ pc' = [pc EXCEPT ![r] = "logout_rows"]
    /\ UNCHANGED <<now, tokenTable, memberTable, locks, tok, mem, nextStatus>>

LogoutCommit(r) ==
    /\ pc[r] = "logout_rows"
    /\ todo[r] = {}
    /\ RevokeLocked(r)
    /\ EndTransaction(r)
    /\ UNCHANGED <<now, rows, family, owner, expiresAt, replacedBy, memberTable>>

-----------------------------------------------------------------------------
(* switchWorkspace, from member m to member target of the same user *)

SwitchBegin(r, f, m, target) ==
    /\ pc[r] = "idle"
    /\ Authenticated(f, m)
    /\ UserOf[target] = UserOf[m]
    /\ pc' = [pc EXCEPT ![r] = "switch_member"]
    /\ beganAt' = [beganAt EXCEPT ![r] = now]
    /\ tok' = [tok EXCEPT ![r] = f]
    /\ mem' = [mem EXCEPT ![r] = target]
    /\ UNCHANGED <<now, tokenTable, memberTable, locks, todo, nextStatus>>

SwitchMember(r) ==
    /\ pc[r] = "switch_member"
    /\ Usable(mem[r])
    /\ LockMember(r, mem[r])
    /\ todo' = [todo EXCEPT ![r] = FamilyRows(tok[r])]
    /\ pc' = [pc EXCEPT ![r] = "switch_rows"]
    /\ UNCHANGED <<now, tokenTable, memberTable, tokenLock,
                   beganAt, tok, mem, nextStatus>>

SwitchInactive(r) ==
    /\ pc[r] = "switch_member"
    /\ ~Usable(mem[r])
    /\ Reject(r)

SwitchCommit(r, n) ==
    /\ pc[r] = "switch_rows"
    /\ todo[r] = {}
    /\ IssueSession(n, n, mem[r])
    /\ RevokeLocked(r)
    /\ EndTransaction(r)
    /\ UNCHANGED <<now, replacedBy, memberTable>>

-----------------------------------------------------------------------------
(* updateMember and removeMember, as far as sessions see them (who may be  *)
(* changed is the business of module Membership).  The UPDATE of the       *)
(* tokens starts once the member row is locked.                            *)

ChangeMemberBegin(r, m, next) ==
    /\ pc[r] = "idle"
    /\ status[m] # "removed"
    /\ LockMember(r, m)
    /\ pc' = [pc EXCEPT ![r] = "change_rows"]
    /\ beganAt' = [beganAt EXCEPT ![r] = now]
    /\ mem' = [mem EXCEPT ![r] = m]
    /\ nextStatus' = [nextStatus EXCEPT ![r] = next]
    /\ todo' = [todo EXCEPT ![r] =
                    IF next = "active" THEN {} ELSE {t \in rows : owner[t] = m}]
    /\ UNCHANGED <<now, tokenTable, memberTable, tokenLock, tok>>

ChangeMemberCommit(r) ==
    /\ pc[r] = "change_rows"
    /\ todo[r] = {}
    /\ status' = [status EXCEPT ![mem[r]] = nextStatus[r]]
    /\ RevokeLocked(r)
    /\ EndTransaction(r)
    /\ UNCHANGED <<now, rows, family, owner, expiresAt, replacedBy,
                   emailVerified, verifiable, viaVerify>>

-----------------------------------------------------------------------------
(* The request fails: its context is cancelled, the connection or the      *)
(* server goes, a statement or the commit returns an error.                *)
Abort(r) == pc[r] # "idle" /\ Reject(r)

(* Bound: no id is left in Token, and the INSERT of issueSession fails.    *)
IdsUsedUp(r) ==
    /\ Token \subseteq rows
    /\ pc[r] \in Issuing \cup {"switch_rows"}
    /\ Reject(r)

(* The rows r waits for, all held by others. *)
Blocked(r) ==
    \/ pc[r] = "refresh_token" /\ tokenLock[tok[r]] # NoRequest
    \/ pc[r] \in {"refresh_member", "switch_member"} /\ memberLock[mem[r]] # NoRequest
    \/ /\ pc[r] \in Scanning /\ todo[r] # {}
       /\ \A t \in todo[r] : tokenLock[t] \notin {NoRequest, r}

Blockers(r) ==
    IF pc[r] = "refresh_token" THEN {tokenLock[tok[r]]}
    ELSE IF pc[r] \in {"refresh_member", "switch_member"} THEN {memberLock[mem[r]]}
    ELSE {tokenLock[t] : t \in todo[r]}

(* PostgreSQL rolls back one transaction of a set that wait for each other.*)
DeadlockVictim(r) ==
    /\ \E S \in SUBSET Request :
         /\ r \in S
         /\ \A s \in S : Blocked(s) /\ Blockers(s) \subseteq S
    /\ Reject(r)

-----------------------------------------------------------------------------
(* What a request does once it has begun. *)
RequestStep(r) ==
    \/ RefreshExpired(r) \/ RefreshWithinGrace(r)
    \/ RefreshReused(r) \/ RefreshReusedCommit(r)
    \/ RefreshActive(r) \/ RefreshMember(r) \/ RefreshInactive(r)
    \/ \E n \in Token : \/ RefreshRotate(r, n)
                        \/ LoginCommit(r, n)
                        \/ AcceptInvitationCommit(r, n)
                        \/ VerifyEmailCommit(r, n)
                        \/ SwitchCommit(r, n)
    \/ UpdateRow(r)
    \/ LogoutUpdate(r) \/ LogoutCommit(r)
    \/ SwitchMember(r) \/ SwitchInactive(r)
    \/ ChangeMemberCommit(r)
    \/ IdsUsedUp(r) \/ DeadlockVictim(r)

Arrive(r) ==
    \/ \E t \in Token : RefreshBegin(r, t)
    \/ \E m \in Member : \/ LoginBegin(r, m)
                         \/ AcceptInvitationBegin(r, m)
                         \/ VerifyEmailBegin(r, m)
                         \/ \E f \in Token : LogoutBegin(r, f, m)
                         \/ \E f \in Token, target \in Member :
                              SwitchBegin(r, f, m, target)
                         \/ \E next \in Status : ChangeMemberBegin(r, m, next)

Next ==
    \/ Tick
    \/ \E r \in Request : Arrive(r) \/ RequestStep(r) \/ Abort(r)

Spec == Init /\ [][Next]_vars

(* Every handler runs to its end.  The locks of PostgreSQL are granted in  *)
(* the order in which they are asked for, so that a request whose row is   *)
(* free again and again gets it: strong fairness.                          *)
FairSpec == Spec /\ \A r \in Request : SF_vars(RequestStep(r))

-----------------------------------------------------------------------------
(* A refresh-token family has at most one usable token, so that a stolen   *)
(* and a legitimate copy cannot both go on being rotated (refresh).        *)
OneLivePerFamily ==
    \A s, t \in rows : Live(s) /\ Live(t) /\ family[s] = family[t] => s = t

(* The tokens of a family form one chain: every token but the first is the *)
(* replacement of exactly one token of the same family and member, which   *)
(* was revoked when it was replaced (replaced_by in refresh).              *)
RotationChain ==
    \A n \in rows :
        /\ family[n] \in rows
        /\ n # family[n] =>
             \E t \in rows :
                /\ replacedBy[t] = n /\ revokedAt[t] # Never
                /\ family[t] = family[n] /\ owner[t] = owner[n]
                /\ \A s \in rows : replacedBy[s] = n => s = t

(* A suspended or removed member holds no live refresh token, whatever     *)
(* login, refresh, switch or invitation ran against the change, except one *)
(* that a verification link opened (verifyEmail does not ask for an active *)
(* membership): updateMember and removeMember revoke them all.             *)
InactiveMemberHoldsNoSession ==
    \A t \in rows : Live(t) /\ status[owner[t]] # "active" => t \in viaVerify

(* A revoked token stays revoked, as of the first time and with the        *)
(* replacement it had (COALESCE in every UPDATE): no later request moves   *)
(* its grace window or rotates it a second time.                           *)
RevocationIsFinal ==
    [][\A t \in rows : revokedAt[t] # Never =>
            /\ t \in rows'
            /\ revokedAt'[t] = revokedAt[t]
            /\ replacedBy'[t] = replacedBy[t]]_vars

(* Every request ends, though refresh locks token then member and          *)
(* switchWorkspace, updateMember and removeMember lock member then token:  *)
(* the database rolls one of them back.                                    *)
RequestsFinish == \A r \in Request : pc[r] # "idle" ~> pc[r] = "idle"

(* The refinement mapping: the current token of a session is the live one  *)
(* of its family.                                                          *)
Current == [f \in Token |->
    IF \E t \in FamilyRows(f) : Live(t)
    THEN CHOOSE t \in FamilyRows(f) : Live(t)
    ELSE NoToken]

Store == INSTANCE SessionStore WITH current <- Current, used <- rows

(* The handlers implement SessionStore: concurrency never gives a session  *)
(* two current tokens, brings a token back or reopens a closed session.    *)
ImplementsStore == Store!Spec

-----------------------------------------------------------------------------
(* The inductive invariant behind the properties above, part by part.      *)

(* Rows that no commit has made visible are blank; every row belongs to a  *)
(* member and to the family of a row.                                      *)
RowsInv ==
    /\ \A t \in Token \ rows : revokedAt[t] = Never /\ replacedBy[t] = NoToken
    /\ \A t \in rows : owner[t] \in Member /\ family[t] \in rows

(* replaced_by links a revoked row to another row of its family, no two    *)
(* rows to the same one, and none to the first row of a family.            *)
LinkInv ==
    /\ \A t \in rows : replacedBy[t] # NoToken =>
         /\ revokedAt[t] # Never
         /\ replacedBy[t] \in rows
         /\ family[replacedBy[t]] = family[t]
         /\ owner[replacedBy[t]] = owner[t]
    /\ \A s, t \in rows :
         replacedBy[s] = replacedBy[t] /\ replacedBy[t] # NoToken => s = t
    /\ \A n \in rows : n # family[n] => \E t \in rows : replacedBy[t] = n

(* Who holds which lock: a refresh past its first query holds the token it *)
(* read as active, and whoever is about to issue a session or to change a  *)
(* member holds that member.                                               *)
LockInv ==
    /\ \A t \in Token : tokenLock[t] # NoRequest => t \in rows
    /\ \A r \in Request :
         /\ todo[r] \subseteq rows
         /\ pc[r] \in {"refresh_token", "refresh_member", "rotate", "reuse_rows"} =>
              tok[r] \in rows
         /\ pc[r] \in {"refresh_member", "rotate"} =>
              Live(tok[r]) /\ tokenLock[tok[r]] = r /\ mem[r] = owner[tok[r]]
         /\ pc[r] \in Issuing \cup {"switch_member", "switch_rows", "change_rows"} =>
              mem[r] \in Member
         /\ pc[r] \in Issuing \cup {"switch_rows", "change_rows"} =>
              memberLock[mem[r]] = r
         /\ pc[r] \in {"rotate", "login", "switch_rows"} =>
              status[mem[r]] = "active"

(* A suspension or removal under way has in its hands, or still on its     *)
(* list, every live token of its member.                                   *)
ChangeInv ==
    \A r \in Request : pc[r] = "change_rows" /\ nextStatus[r] # "active" =>
        \A t \in rows : owner[t] = mem[r] /\ Live(t) =>
            t \in todo[r] \/ tokenLock[t] = r

IInv == /\ TypeOK /\ RowsInv /\ LinkInv /\ LockInv /\ ChangeInv
        /\ OneLivePerFamily /\ InactiveMemberHoldsNoSession

=============================================================================
