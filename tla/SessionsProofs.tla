--------------------------- MODULE SessionsProofs ---------------------------
(* What TLAPS proves about Sessions, for any tokens, requests and members. *)
EXTENDS Sessions, TLAPS

(* The initial states satisfy the inductive invariant. *)
LEMMA InitIInv == Init => IInv
BY UserAssumption, TimeAssumption, NullAssumption
   DEF Init, IInv, TypeOK, RowsInv, LinkInv, LockInv, ChangeInv, Live,
       OneLivePerFamily, InactiveMemberHoldsNoSession, Never,
       PC, Waiting, Scanning, Issuing, Status

(* Typing of the parts of the state that ending a transaction writes. *)
LEMMA EndTransactionType ==
    ASSUME TypeOK, NEW r \in Request, EndTransaction(r)
    PROVE  /\ tokenLock' \in [Token -> Request \cup {NoRequest}]
           /\ memberLock' \in [Member -> Request \cup {NoRequest}]
           /\ pc' \in [Request -> PC]
           /\ beganAt' \in [Request -> Nat]
           /\ tok' \in [Request -> Token \cup {NoToken}]
           /\ mem' \in [Request -> Member \cup {NoMember}]
           /\ todo' \in [Request -> SUBSET Token]
           /\ nextStatus' \in [Request -> Status]
BY DEF TypeOK, EndTransaction, PC, Status

(* The steps of one request that several actions contain keep the types. *)
LEMMA RejectType ==
    ASSUME TypeOK, NEW r \in Request, Reject(r)
    PROVE  TypeOK'
BY EndTransactionType DEF TypeOK, Reject, tokenTable, memberTable

(* A session that is issued is a row of the table's types. *)
LEMMA IssueSessionType ==
    ASSUME TypeOK, NEW n \in Token, NEW f \in Token, NEW m \in Member \cup {NoMember},
           IssueSession(n, f, m)
    PROVE  /\ rows' \subseteq Token
           /\ family' \in [Token -> Token]
           /\ owner' \in [Token -> Member \cup {NoMember}]
           /\ expiresAt' \in [Token -> Nat]
BY TimeAssumption DEF TypeOK, IssueSession

(* Revoking the rows locked writes a time. *)
LEMMA RevokeLockedType ==
    ASSUME TypeOK, NEW r \in Request, RevokeLocked(r)
    PROVE  revokedAt' \in [Token -> Nat \cup {Never}]
BY DEF TypeOK, RevokeLocked

(* A step keeps the types. *)
LEMMA TypeStep == TypeOK /\ LockInv /\ [Next]_vars => TypeOK'
<1> SUFFICES ASSUME TypeOK, LockInv, [Next]_vars PROVE TypeOK'
    OBVIOUS
<1> USE DEF TypeOK, PC, Status, tokenTable, memberTable, locks, locals,
            LockMember
<1>1. CASE Tick
    BY <1>1 DEF Tick
<1>2. CASE UNCHANGED vars
    BY <1>2 DEF vars
<1>3. ASSUME NEW r \in Request, Arrive(r) PROVE TypeOK'
    <2>1. CASE \E t \in Token : RefreshBegin(r, t)
        BY <2>1 DEF RefreshBegin, Waiting
    <2>2. CASE \E m \in Member : \/ LoginBegin(r, m)
                                 \/ AcceptInvitationBegin(r, m)
                                 \/ VerifyEmailBegin(r, m)
        <3>1. PICK m \in Member, p \in Issuing : OpenBegin(r, m, p)
            BY <2>2 DEF LoginBegin, AcceptInvitationBegin, VerifyEmailBegin, Issuing
        <3>2. QED BY <3>1 DEF OpenBegin
    <2>3. CASE \E m \in Member, f \in Token : LogoutBegin(r, f, m)
        BY <2>3 DEF LogoutBegin
    <2>4. CASE \E m \in Member, f \in Token, target \in Member :
                 SwitchBegin(r, f, m, target)
        BY <2>4 DEF SwitchBegin, Waiting
    <2>5. CASE \E m \in Member, next \in Status : ChangeMemberBegin(r, m, next)
        BY <2>5 DEF ChangeMemberBegin, Scanning
    <2>6. QED BY <1>3, <2>1, <2>2, <2>3, <2>4, <2>5 DEF Arrive
<1>4. ASSUME NEW r \in Request, RequestStep(r) \/ Abort(r) PROVE TypeOK'
    <2>1. CASE Reject(r)
        BY <2>1, RejectType
    <2>2. CASE RefreshExpired(r)
        <3>1. revokedAt' \in [Token -> Nat \cup {Never}]
            BY <2>2 DEF RefreshExpired
        <3>2. QED BY <2>2, <3>1, EndTransactionType DEF RefreshExpired
    <2>3. CASE RefreshReused(r)
        BY <2>3 DEF RefreshReused, FamilyRows, Scanning
    <2>4. CASE \/ RefreshReusedCommit(r) \/ LogoutCommit(r)
        BY <2>4, EndTransactionType, RevokeLockedType
        DEF RefreshReusedCommit, LogoutCommit
    <2>5. CASE RefreshActive(r)
        BY <2>5 DEF RefreshActive, Waiting, LockInv
    <2>6. CASE RefreshMember(r)
        BY <2>6 DEF RefreshMember, Issuing
    <2>7. ASSUME NEW n \in Token, RefreshRotate(r, n) PROVE TypeOK'
        <3>1. revokedAt' \in [Token -> Nat \cup {Never}]
            BY <2>7 DEF RefreshRotate
        <3>2. replacedBy' \in [Token -> Token \cup {NoToken}]
            BY <2>7 DEF RefreshRotate
        <3>3. QED
            BY <2>7, <3>1, <3>2, EndTransactionType, IssueSessionType
            DEF RefreshRotate
    <2>8. ASSUME NEW n \in Token, LoginCommit(r, n) PROVE TypeOK'
        BY <2>8, EndTransactionType, IssueSessionType DEF LoginCommit
    <2>9. ASSUME NEW n \in Token, AcceptInvitationCommit(r, n) PROVE TypeOK'
        <3>. mem[r] \in Member
            BY <2>9 DEF AcceptInvitationCommit, LockInv, Issuing
        <3>. UserOf[mem[r]] \in User
            BY UserAssumption
        <3>1. emailVerified' \subseteq User
            BY <2>9 DEF AcceptInvitationCommit
        <3>2. status' \in [Member -> Status]
            BY <2>9 DEF AcceptInvitationCommit
        <3>3. QED
            BY <2>9, <3>1, <3>2, EndTransactionType, IssueSessionType
            DEF AcceptInvitationCommit
    <2>10. ASSUME NEW n \in Token, VerifyEmailCommit(r, n) PROVE TypeOK'
        BY <2>10, EndTransactionType, IssueSessionType, UserAssumption
        DEF VerifyEmailCommit, LockInv, Issuing
    <2>11. ASSUME NEW n \in Token, SwitchCommit(r, n) PROVE TypeOK'
        BY <2>11, EndTransactionType, IssueSessionType, RevokeLockedType
        DEF SwitchCommit
    <2>12. CASE UpdateRow(r)
        BY <2>12 DEF UpdateRow
    <2>13. CASE LogoutUpdate(r)
        BY <2>13 DEF LogoutUpdate, FamilyRows, Scanning
    <2>14. CASE SwitchMember(r)
        BY <2>14 DEF SwitchMember, FamilyRows, Scanning
    <2>15. CASE ChangeMemberCommit(r)
        BY <2>15, EndTransactionType, RevokeLockedType DEF ChangeMemberCommit
    <2>16. QED
        BY <1>4, <2>1, <2>2, <2>3, <2>4, <2>5, <2>6, <2>7, <2>8, <2>9, <2>10,
           <2>11, <2>12, <2>13, <2>14, <2>15
        DEF RequestStep, Abort, RefreshWithinGrace, RefreshInactive,
            SwitchInactive, IdsUsedUp, DeadlockVictim
<1>5. QED BY <1>1, <1>2, <1>3, <1>4 DEF Next

-----------------------------------------------------------------------------
(* The request that ends has no obligations left, and the others keep the  *)
(* locks they had.                                                         *)
LEMMA EndTransactionFacts ==
    ASSUME TypeOK, NEW r \in Request, EndTransaction(r)
    PROVE  /\ pc'[r] = "idle" /\ todo'[r] = {}
           /\ \A q \in Request \ {r} :
                /\ pc'[q] = pc[q] /\ tok'[q] = tok[q] /\ mem'[q] = mem[q]
                /\ todo'[q] = todo[q] /\ nextStatus'[q] = nextStatus[q]
                /\ \A t \in Token : tokenLock'[t] = q <=> tokenLock[t] = q
                /\ \A m \in Member : memberLock'[m] = q <=> memberLock[m] = q
           /\ \A t \in Token : tokenLock'[t] # NoRequest => tokenLock'[t] = tokenLock[t]
BY NullAssumption DEF EndTransaction, TypeOK

(* A step keeps the lock discipline. *)
LEMMA LockStep == TypeOK /\ LockInv /\ RowsInv /\ [Next]_vars => LockInv'
<1> SUFFICES ASSUME TypeOK, LockInv, RowsInv, [Next]_vars PROVE LockInv'
    OBVIOUS
<1> USE NullAssumption
    DEF LockInv, TypeOK, Live, Issuing, tokenTable, memberTable, locks, locals,
        LockMember
<1>1. CASE Tick
    BY <1>1 DEF Tick
<1>2. CASE UNCHANGED vars
    BY <1>2 DEF vars
<1>3. ASSUME NEW r \in Request, Arrive(r) PROVE LockInv'
    <2>1. CASE \E t \in Token : RefreshBegin(r, t)
        BY <2>1 DEF RefreshBegin
    <2>2. CASE \E m \in Member : \/ LoginBegin(r, m)
                                 \/ AcceptInvitationBegin(r, m)
                                 \/ VerifyEmailBegin(r, m)
        BY <2>2 DEF LoginBegin, AcceptInvitationBegin, VerifyEmailBegin, OpenBegin, Usable
    <2>3. CASE \E m \in Member, f \in Token : LogoutBegin(r, f, m)
        BY <2>3 DEF LogoutBegin
    <2>4. CASE \E m \in Member, f \in Token, target \in Member :
                 SwitchBegin(r, f, m, target)
        BY <2>4 DEF SwitchBegin
    <2>5. CASE \E m \in Member, next \in Status : ChangeMemberBegin(r, m, next)
        BY <2>5 DEF ChangeMemberBegin
    <2>6. QED BY <1>3, <2>1, <2>2, <2>3, <2>4, <2>5 DEF Arrive
<1>4. ASSUME NEW r \in Request, RequestStep(r) \/ Abort(r) PROVE LockInv'
    <2>1. CASE Reject(r)
        BY <2>1, EndTransactionFacts DEF Reject
    <2>2. CASE RefreshExpired(r)
        BY <2>2, EndTransactionFacts DEF RefreshExpired
    <2>3. CASE RefreshReused(r)
        BY <2>3 DEF RefreshReused, FamilyRows
    <2>4. CASE \/ RefreshReusedCommit(r) \/ LogoutCommit(r)
        BY <2>4, EndTransactionFacts DEF RefreshReusedCommit, LogoutCommit, RevokeLocked
    <2>5. CASE RefreshActive(r)
        BY <2>5 DEF RefreshActive, Active
    <2>6. CASE RefreshMember(r)
        BY <2>6 DEF RefreshMember, Usable, RowsInv
    <2>7. ASSUME NEW n \in Token, RefreshRotate(r, n) PROVE LockInv'
        BY <2>7, EndTransactionFacts DEF RefreshRotate, IssueSession
    <2>8. ASSUME NEW n \in Token, LoginCommit(r, n) PROVE LockInv'
        BY <2>8, EndTransactionFacts DEF LoginCommit, IssueSession
    <2>9. ASSUME NEW n \in Token, AcceptInvitationCommit(r, n) PROVE LockInv'
        BY <2>9, EndTransactionFacts, SMTT(30) DEF AcceptInvitationCommit, IssueSession
    <2>10. ASSUME NEW n \in Token, VerifyEmailCommit(r, n) PROVE LockInv'
        BY <2>10, EndTransactionFacts, SMTT(30) DEF VerifyEmailCommit, IssueSession
    <2>11. ASSUME NEW n \in Token, SwitchCommit(r, n) PROVE LockInv'
        BY <2>11, EndTransactionFacts, SMTT(30) DEF SwitchCommit, IssueSession, RevokeLocked
    <2>12. CASE UpdateRow(r)
        BY <2>12 DEF UpdateRow, Scanning
    <2>13. CASE LogoutUpdate(r)
        BY <2>13 DEF LogoutUpdate, FamilyRows
    <2>14. CASE SwitchMember(r)
        BY <2>14 DEF SwitchMember, FamilyRows, Usable
    <2>15. CASE ChangeMemberCommit(r)
        BY <2>15, EndTransactionFacts DEF ChangeMemberCommit, RevokeLocked
    <2>16. QED
        BY <1>4, <2>1, <2>2, <2>3, <2>4, <2>5, <2>6, <2>7, <2>8, <2>9, <2>10,
           <2>11, <2>12, <2>13, <2>14, <2>15
        DEF RequestStep, Abort, RefreshWithinGrace, RefreshInactive,
            SwitchInactive, IdsUsedUp, DeadlockVictim
<1>5. QED BY <1>1, <1>2, <1>3, <1>4 DEF Next

-----------------------------------------------------------------------------
(* The steps that leave the tables alone. *)
LEMMA TablesChange ==
    ASSUME [Next]_vars
    PROVE  \/ UNCHANGED <<tokenTable, memberTable>>
           \/ \E r \in Request :
                \/ RefreshExpired(r) \/ RefreshReusedCommit(r)
                \/ LogoutCommit(r) \/ ChangeMemberCommit(r)
                \/ \E n \in Token :
                     \/ RefreshRotate(r, n) \/ LoginCommit(r, n)
                     \/ AcceptInvitationCommit(r, n) \/ VerifyEmailCommit(r, n)
                     \/ SwitchCommit(r, n)
BY DEF Next, vars, Arrive, RequestStep, Abort, Tick, Reject,
       RefreshBegin, RefreshWithinGrace, RefreshReused, RefreshActive,
       RefreshMember, RefreshInactive, LoginBegin, AcceptInvitationBegin,
       VerifyEmailBegin, OpenBegin, LogoutBegin, LogoutUpdate, SwitchBegin,
       SwitchMember, SwitchInactive, ChangeMemberBegin, UpdateRow,
       IdsUsedUp, DeadlockVictim, tokenTable, memberTable

(* What the commits do to the columns of refresh_tokens: some live rows    *)
(* are revoked, and at most one row is added, in a family of its own or in *)
(* the family of the row it replaces.                                      *)
RevokeOnly ==
    /\ UNCHANGED <<rows, family, owner, replacedBy>>
    /\ revokedAt' \in [Token -> Nat \cup {Never}]
    /\ \A t \in Token : revokedAt[t] # Never => revokedAt'[t] = revokedAt[t]
    /\ \A t \in Token \ rows : revokedAt'[t] = Never

OpenRow(n, f, m) ==
    /\ n \in Token \ rows
    /\ m \in Member
    /\ rows' = rows \cup {n}
    /\ family' = [family EXCEPT ![n] = f]
    /\ owner' = [owner EXCEPT ![n] = m]

(* The commits that revoke and issue nothing. *)
LEMMA RevokeOnlySteps ==
    ASSUME TypeOK, RowsInv, LockInv, NEW r \in Request,
           \/ RefreshExpired(r) \/ RefreshReusedCommit(r)
           \/ LogoutCommit(r) \/ ChangeMemberCommit(r)
    PROVE  RevokeOnly
BY NullAssumption
   DEF RevokeOnly, RefreshExpired, RefreshReusedCommit, LogoutCommit,
       ChangeMemberCommit, RevokeLocked, TypeOK, LockInv, RowsInv, Never

(* The commits that open a session in a new family. *)
LEMMA OpenSteps ==
    ASSUME TypeOK, RowsInv, LockInv, NEW r \in Request, NEW n \in Token,
           \/ LoginCommit(r, n) \/ AcceptInvitationCommit(r, n)
           \/ VerifyEmailCommit(r, n) \/ SwitchCommit(r, n)
    PROVE  /\ OpenRow(n, n, mem[r])
           /\ UNCHANGED replacedBy
           /\ revokedAt' \in [Token -> Nat \cup {Never}]
           /\ \A t \in Token : revokedAt[t] # Never => revokedAt'[t] = revokedAt[t]
           /\ \A t \in Token \ rows : revokedAt'[t] = Never
BY NullAssumption
   DEF OpenRow, LoginCommit, AcceptInvitationCommit, VerifyEmailCommit,
       SwitchCommit, IssueSession, RevokeLocked, TypeOK, LockInv, RowsInv,
       Issuing, Never

(* A rotation replaces a live row, which stays the only way to the new one.*)
LEMMA RotateStep ==
    ASSUME TypeOK, RowsInv, LockInv, NEW r \in Request, NEW n \in Token,
           RefreshRotate(r, n)
    PROVE  /\ Live(tok[r]) /\ mem[r] = owner[tok[r]] /\ tok[r] \in Token
           /\ beganAt[r] \in Nat
           /\ OpenRow(n, family[tok[r]], mem[r])
           /\ revokedAt' = [revokedAt EXCEPT ![tok[r]] = beganAt[r]]
           /\ replacedBy' = [replacedBy EXCEPT ![tok[r]] = n]
BY DEF OpenRow, RefreshRotate, IssueSession, TypeOK, LockInv, Issuing

(* One live token per family, and the chain of replacements, survive any   *)
(* step.                                                                   *)
TokensInv == RowsInv /\ LinkInv /\ OneLivePerFamily

(* Every step keeps rows, chains and the one live token of a family. *)
LEMMA TokensStep ==
    TypeOK /\ LockInv /\ TokensInv /\ [Next]_vars => TokensInv'
<1> SUFFICES ASSUME TypeOK, LockInv, TokensInv, [Next]_vars PROVE TokensInv'
    OBVIOUS
<1> USE DEF TokensInv, RowsInv, LinkInv, OneLivePerFamily, Live
<1>1. CASE UNCHANGED <<tokenTable, memberTable>>
    BY <1>1 DEF tokenTable, memberTable
<1>2. CASE RevokeOnly
    <2>1. RowsInv' BY <1>2 DEF RevokeOnly
    <2>2. LinkInv' BY <1>2 DEF RevokeOnly, TypeOK
    <2>3. OneLivePerFamily' BY <1>2 DEF RevokeOnly, TypeOK
    <2>4. QED BY <2>1, <2>2, <2>3
<1>3. ASSUME NEW r \in Request, NEW n \in Token,
             \/ LoginCommit(r, n) \/ AcceptInvitationCommit(r, n)
             \/ VerifyEmailCommit(r, n) \/ SwitchCommit(r, n)
      PROVE  TokensInv'
    <2>1. RowsInv' BY <1>3, OpenSteps DEF OpenRow, TypeOK
    <2>. n \in Token \ rows /\ rows' = rows \cup {n} /\ replacedBy' = replacedBy
        BY <1>3, OpenSteps DEF OpenRow
    <2>. /\ family'[n] = n
         /\ \A t \in rows : family'[t] = family[t] /\ owner'[t] = owner[t]
        BY <1>3, OpenSteps DEF OpenRow, TypeOK
    <2>. \A t \in rows : revokedAt[t] # Never => revokedAt'[t] # Never
        BY <1>3, OpenSteps DEF TypeOK
    <2>2. LinkInv'
        <3>1. (\A t \in rows : replacedBy[t] # NoToken =>
                 /\ revokedAt[t] # Never
                 /\ replacedBy[t] \in rows
                 /\ family[replacedBy[t]] = family[t]
                 /\ owner[replacedBy[t]] = owner[t])'
            OBVIOUS
        <3>2. (\A s, t \in rows :
                 replacedBy[s] = replacedBy[t] /\ replacedBy[t] # NoToken => s = t)'
            OBVIOUS
        <3>3. (\A m \in rows : m # family[m] => \E t \in rows : replacedBy[t] = m)'
            OBVIOUS
        <3>4. QED BY <3>1, <3>2, <3>3
    <2>3. OneLivePerFamily' BY <1>3, OpenSteps DEF OpenRow, TypeOK
    <2>4. QED BY <2>1, <2>2, <2>3
<1>4. ASSUME NEW r \in Request, NEW n \in Token, RefreshRotate(r, n)
      PROVE  TokensInv'
    <2>1. /\ tok[r] \in rows /\ revokedAt[tok[r]] = Never
          /\ replacedBy[tok[r]] = NoToken
        BY <1>4, RotateStep
    <2>2. n \in Token \ rows /\ n # NoToken /\ rows' = rows \cup {n} /\ n # tok[r]
        BY <1>4, <2>1, RotateStep, NullAssumption DEF OpenRow
    <2>3. /\ family'[n] = family[tok[r]] /\ owner'[n] = owner[tok[r]]
          /\ \A t \in rows : family'[t] = family[t] /\ owner'[t] = owner[t]
        BY <1>4, <2>2, RotateStep DEF OpenRow, TypeOK
    <2>4. /\ replacedBy'[tok[r]] = n /\ replacedBy'[n] = NoToken
          /\ \A t \in Token \ {tok[r]} : replacedBy'[t] = replacedBy[t]
        BY <1>4, <2>1, <2>2, RotateStep DEF TypeOK
    <2>5. /\ revokedAt'[tok[r]] # Never /\ revokedAt'[n] = Never
          /\ \A t \in Token \ {tok[r]} : revokedAt'[t] = revokedAt[t]
        BY <1>4, <2>1, <2>2, RotateStep DEF TypeOK, Never
    <2>6. RowsInv' BY <1>4, RotateStep DEF OpenRow, TypeOK
    <2>7. LinkInv'
        <3>1. (\A t \in rows : replacedBy[t] # NoToken =>
                 /\ revokedAt[t] # Never
                 /\ replacedBy[t] \in rows
                 /\ family[replacedBy[t]] = family[t]
                 /\ owner[replacedBy[t]] = owner[t])'
            BY <2>1, <2>2, <2>3, <2>4, <2>5 DEF TypeOK
        <3>2. (\A s, t \in rows :
                 replacedBy[s] = replacedBy[t] /\ replacedBy[t] # NoToken => s = t)'
            BY <2>1, <2>2, <2>4 DEF TypeOK
        <3>3. (\A m \in rows : m # family[m] => \E t \in rows : replacedBy[t] = m)'
            BY <2>1, <2>2, <2>3, <2>4 DEF TypeOK
        <3>4. QED BY <3>1, <3>2, <3>3
    <2>8. OneLivePerFamily'
        <3>1. \A t \in rows : family[t] = family[tok[r]] /\ Live(t) => t = tok[r]
            BY <2>1
        <3>2. \A t \in rows' : Live(t)' => t = n \/ (t \in rows \ {tok[r]} /\ Live(t))
            BY <2>1, <2>2, <2>5 DEF TypeOK
        <3>3. \A s, t \in rows' : family'[s] = family'[t] /\ Live(s)' /\ Live(t)' => s = t
            BY <3>1, <3>2, <2>1, <2>2, <2>3
        <3>4. QED BY <3>3
    <2>9. QED BY <2>6, <2>7, <2>8
<1>5. QED BY <1>1, <1>2, <1>3, <1>4, TablesChange, RevokeOnlySteps

-----------------------------------------------------------------------------
(* A status change keeps every live token of its member on its list or in  *)
(* its locks.                                                              *)
LEMMA ChangeStep ==
    TypeOK /\ RowsInv /\ LockInv /\ ChangeInv /\ [Next]_vars => ChangeInv'
<1> SUFFICES ASSUME TypeOK, RowsInv, LockInv, ChangeInv, [Next]_vars,
                    NEW q \in Request,
                    pc'[q] = "change_rows", nextStatus'[q] # "active",
                    NEW t \in rows', owner'[t] = mem'[q], Live(t)'
             PROVE  t \in todo'[q] \/ tokenLock'[t] = q
    BY DEF ChangeInv
<1> USE NullAssumption
    DEF ChangeInv, TypeOK, Live, tokenTable, memberTable, locks, locals,
        LockMember
<1>1. CASE Tick
    BY <1>1 DEF Tick
<1>2. CASE UNCHANGED vars
    BY <1>2 DEF vars
<1>3. ASSUME NEW r \in Request, Arrive(r)
      PROVE  t \in todo'[q] \/ tokenLock'[t] = q
    <2>1. CASE \E s \in Token : RefreshBegin(r, s)
        BY <2>1 DEF RefreshBegin
    <2>2. CASE \E m \in Member : \/ LoginBegin(r, m)
                                 \/ AcceptInvitationBegin(r, m)
                                 \/ VerifyEmailBegin(r, m)
        BY <2>2 DEF LoginBegin, AcceptInvitationBegin, VerifyEmailBegin, OpenBegin
    <2>3. CASE \E m \in Member, f \in Token : LogoutBegin(r, f, m)
        BY <2>3 DEF LogoutBegin
    <2>4. CASE \E m \in Member, f \in Token, target \in Member :
                 SwitchBegin(r, f, m, target)
        BY <2>4 DEF SwitchBegin
    <2>5. CASE \E m \in Member, next \in Status : ChangeMemberBegin(r, m, next)
        BY <2>5 DEF ChangeMemberBegin
    <2>6. QED BY <1>3, <2>1, <2>2, <2>3, <2>4, <2>5 DEF Arrive
<1>4. ASSUME NEW r \in Request, EndTransaction(r), UNCHANGED <<tokenTable, memberTable>>
      PROVE  t \in todo'[q] \/ tokenLock'[t] = q
    BY <1>4, EndTransactionFacts
<1>5. ASSUME NEW r \in Request, EndTransaction(r), RevokeOnly
      PROVE  t \in todo'[q] \/ tokenLock'[t] = q
    BY <1>5, EndTransactionFacts DEF RevokeOnly
<1>6. ASSUME NEW r \in Request, NEW n \in Token, NEW f \in Token,
             EndTransaction(r), OpenRow(n, f, mem[r]), memberLock[mem[r]] = r,
             \A s \in rows : revokedAt[s] # Never => revokedAt'[s] # Never
      PROVE  t \in todo'[q] \/ tokenLock'[t] = q
    \* The new row belongs to a member that r, not q, has locked.
    BY <1>6, EndTransactionFacts DEF LockInv, OpenRow
<1>7. ASSUME NEW r \in Request, RequestStep(r) \/ Abort(r)
      PROVE  t \in todo'[q] \/ tokenLock'[t] = q
    <2>1. CASE Reject(r)
        BY <2>1, <1>4 DEF Reject
    <2>2. CASE \/ RefreshExpired(r) \/ RefreshReusedCommit(r)
               \/ LogoutCommit(r) \/ ChangeMemberCommit(r)
        <3>1. EndTransaction(r)
            BY <2>2 DEF RefreshExpired, RefreshReusedCommit, LogoutCommit,
                        ChangeMemberCommit
        <3>2. QED BY <2>2, <3>1, <1>5, RevokeOnlySteps
    <2>3. ASSUME NEW n \in Token,
                 \/ LoginCommit(r, n) \/ AcceptInvitationCommit(r, n)
                 \/ VerifyEmailCommit(r, n) \/ SwitchCommit(r, n)
          PROVE  t \in todo'[q] \/ tokenLock'[t] = q
        <3>1. EndTransaction(r) /\ memberLock[mem[r]] = r
            BY <2>3 DEF LoginCommit, AcceptInvitationCommit, VerifyEmailCommit,
                        SwitchCommit, LockInv, Issuing
        <3>2. \A s \in rows : revokedAt[s] # Never => revokedAt'[s] # Never
            BY <2>3, OpenSteps
        <3>3. QED BY <2>3, <3>1, <3>2, <1>6, OpenSteps
    <2>4. ASSUME NEW n \in Token, RefreshRotate(r, n)
          PROVE  t \in todo'[q] \/ tokenLock'[t] = q
        <3>1. EndTransaction(r) /\ memberLock[mem[r]] = r
            BY <2>4 DEF RefreshRotate, LockInv, Issuing
        <3>2. \A s \in rows : revokedAt[s] # Never => revokedAt'[s] # Never
            BY <2>4, RotateStep DEF Never
        <3>3. family[tok[r]] \in Token
            BY <2>4, RotateStep
        <3>4. QED BY <2>4, <3>1, <3>2, <3>3, <1>6, RotateStep
    <2>5. CASE RefreshReused(r)
        BY <2>5 DEF RefreshReused
    <2>6. CASE RefreshActive(r)
        BY <2>6 DEF RefreshActive
    <2>7. CASE RefreshMember(r)
        BY <2>7 DEF RefreshMember
    <2>8. CASE UpdateRow(r)
        BY <2>8 DEF UpdateRow
    <2>9. CASE LogoutUpdate(r)
        BY <2>9 DEF LogoutUpdate
    <2>10. CASE SwitchMember(r)
        BY <2>10 DEF SwitchMember
    <2>11. QED
        BY <1>7, <2>1, <2>2, <2>3, <2>4, <2>5, <2>6, <2>7, <2>8, <2>9, <2>10
        DEF RequestStep, Abort, RefreshWithinGrace, RefreshInactive,
            SwitchInactive, IdsUsedUp, DeadlockVictim
<1>8. QED BY <1>1, <1>2, <1>3, <1>7 DEF Next

-----------------------------------------------------------------------------
(* No step leaves a live token, other than one that a verification link    *)
(* opened, with a member that is not active.                               *)
LEMMA InactiveStep ==
    /\ TypeOK /\ RowsInv /\ LockInv /\ ChangeInv
    /\ InactiveMemberHoldsNoSession /\ [Next]_vars
    => InactiveMemberHoldsNoSession'
<1> SUFFICES ASSUME TypeOK, RowsInv, LockInv, ChangeInv,
                    InactiveMemberHoldsNoSession, [Next]_vars,
                    NEW t \in rows', Live(t)', status'[owner'[t]] # "active"
             PROVE  t \in viaVerify'
    BY DEF InactiveMemberHoldsNoSession
<1> USE DEF InactiveMemberHoldsNoSession, Live
<1>1. CASE UNCHANGED <<tokenTable, memberTable>>
    BY <1>1 DEF tokenTable, memberTable
<1>2. ASSUME NEW r \in Request,
             RefreshExpired(r) \/ RefreshReusedCommit(r) \/ LogoutCommit(r)
      PROVE  t \in viaVerify'
    <2>1. RevokeOnly
        BY <1>2, RevokeOnlySteps
    <2>2. UNCHANGED memberTable
        BY <1>2 DEF RefreshExpired, RefreshReusedCommit, LogoutCommit
    <2>3. QED BY <2>1, <2>2 DEF RevokeOnly, memberTable, TypeOK
<1>3. ASSUME NEW r \in Request, ChangeMemberCommit(r)
      PROVE  t \in viaVerify'
    <2>1. RevokeOnly
        BY <1>3, RevokeOnlySteps
    <2>2. revokedAt[t] = Never /\ t \in rows /\ owner[t] \in Member
        BY <2>1 DEF RevokeOnly, RowsInv, TypeOK
    <2>3. CASE owner[t] # mem[r]
        BY <1>3, <2>1, <2>2, <2>3 DEF ChangeMemberCommit, RevokeOnly, TypeOK
    <2>4. CASE owner[t] = mem[r]
        \* Every live token of the member is locked, and revoked by now.
        <3>1. nextStatus[r] # "active"
            BY <1>3, <2>1, <2>2, <2>4 DEF ChangeMemberCommit, RevokeOnly, TypeOK
        <3>2. tokenLock[t] = r
            BY <1>3, <2>2, <2>4, <3>1 DEF ChangeMemberCommit, ChangeInv
        <3>3. revokedAt'[t] = beganAt[r] /\ beganAt[r] \in Nat
            BY <1>3, <2>2, <3>2 DEF ChangeMemberCommit, RevokeLocked, TypeOK
        <3>4. QED BY <3>3 DEF Never
    <2>5. QED BY <2>3, <2>4
<1>4. ASSUME NEW r \in Request, NEW n \in Token, OpenRow(n, n, mem[r]),
             \A s \in rows : revokedAt[s] # Never => revokedAt'[s] # Never,
             \/ LoginCommit(r, n) \/ AcceptInvitationCommit(r, n)
             \/ VerifyEmailCommit(r, n) \/ SwitchCommit(r, n)
      PROVE  t \in viaVerify'
    <2>1. CASE LoginCommit(r, n) \/ SwitchCommit(r, n)
        BY <1>4, <2>1
        DEF LoginCommit, SwitchCommit, OpenRow, LockInv, TypeOK, memberTable
    <2>2. CASE AcceptInvitationCommit(r, n)
        BY <1>4, <2>2 DEF AcceptInvitationCommit, OpenRow, TypeOK
    <2>3. CASE VerifyEmailCommit(r, n)
        BY <1>4, <2>3 DEF VerifyEmailCommit, OpenRow, TypeOK
    <2>4. QED BY <1>4, <2>1, <2>2, <2>3
<1>5. ASSUME NEW r \in Request, NEW n \in Token, RefreshRotate(r, n)
      PROVE  t \in viaVerify'
    <2>1. UNCHANGED memberTable /\ status[mem[r]] = "active"
        BY <1>5 DEF RefreshRotate, LockInv
    <2>2. \A s \in rows : revokedAt[s] # Never => revokedAt'[s] # Never
        BY <1>5, RotateStep DEF TypeOK, Never
    <2>3. QED BY <1>5, <2>1, <2>2, RotateStep DEF OpenRow, TypeOK, memberTable
<1>6. QED
    <2>1. \A r \in Request, n \in Token :
            \/ LoginCommit(r, n) \/ AcceptInvitationCommit(r, n)
            \/ VerifyEmailCommit(r, n) \/ SwitchCommit(r, n)
            => /\ OpenRow(n, n, mem[r])
               /\ \A s \in rows : revokedAt[s] # Never => revokedAt'[s] # Never
        BY OpenSteps DEF TypeOK
    <2>2. QED BY <2>1, <1>1, <1>2, <1>3, <1>4, <1>5, TablesChange

-----------------------------------------------------------------------------
(* The inductive invariant holds in every reachable state. *)
LEMMA Invariance == Spec => []IInv
<1>1. IInv /\ [Next]_vars => IInv'
    BY TypeStep, LockStep, TokensStep, ChangeStep, InactiveStep DEF IInv, TokensInv
<1>2. QED BY InitIInv, <1>1, PTL DEF Spec

(* Types are respected: every column, lock and local variable of a request *)
(* keeps a value of its kind.                                              *)
THEOREM TypeCorrect == Spec => []TypeOK
BY Invariance, PTL DEF IInv

(* A refresh-token family never has two usable tokens, however refresh,    *)
(* logout, switch and member changes interleave.                           *)
THEOREM OneLiveToken == Spec => []OneLivePerFamily
BY Invariance, PTL DEF IInv

(* The tokens of a family form a single chain of replacements. *)
THEOREM ChainCorrect == Spec => []RotationChain
<1>1. ASSUME IInv PROVE RotationChain
    <2> USE <1>1 DEF IInv, TypeOK, RowsInv, LinkInv
    <2> SUFFICES ASSUME NEW n \in rows, n # family[n]
                 PROVE  \E t \in rows :
                            /\ replacedBy[t] = n /\ revokedAt[t] # Never
                            /\ family[t] = family[n] /\ owner[t] = owner[n]
                            /\ \A s \in rows : replacedBy[s] = n => s = t
        BY DEF RotationChain
    <2>1. PICK t \in rows : replacedBy[t] = n
        OBVIOUS
    <2>2. n # NoToken
        BY NullAssumption
    <2>3. QED BY <2>1, <2>2
<1>2. QED BY Invariance, <1>1, PTL

(* Suspension and removal leave the member without a live token, except    *)
(* one that a verification link opened.                                    *)
THEOREM InactiveHoldsNone == Spec => []InactiveMemberHoldsNoSession
BY Invariance, PTL DEF IInv

(* Revocation is permanent, and so are its time and the replacement. *)
THEOREM RevokedForGood == Spec => RevocationIsFinal
<1>1. ASSUME IInv, [Next]_vars, NEW t \in rows, revokedAt[t] # Never
      PROVE  /\ t \in rows'
             /\ revokedAt'[t] = revokedAt[t]
             /\ replacedBy'[t] = replacedBy[t]
    <2> USE <1>1 DEF IInv
    <2>1. CASE UNCHANGED <<tokenTable, memberTable>>
        BY <2>1 DEF tokenTable
    <2>2. CASE RevokeOnly
        BY <2>2 DEF RevokeOnly, TypeOK
    <2>3. ASSUME NEW r \in Request, NEW n \in Token,
                 \/ LoginCommit(r, n) \/ AcceptInvitationCommit(r, n)
                 \/ VerifyEmailCommit(r, n) \/ SwitchCommit(r, n)
          PROVE  /\ t \in rows'
                 /\ revokedAt'[t] = revokedAt[t]
                 /\ replacedBy'[t] = replacedBy[t]
        BY <2>3, OpenSteps DEF OpenRow, TypeOK
    <2>4. ASSUME NEW r \in Request, NEW n \in Token, RefreshRotate(r, n)
          PROVE  /\ t \in rows'
                 /\ revokedAt'[t] = revokedAt[t]
                 /\ replacedBy'[t] = replacedBy[t]
        <3>1. tok[r] # t
            BY <2>4, RotateStep DEF Live
        <3>2. QED BY <2>4, <3>1, RotateStep DEF OpenRow, TypeOK
    <2>5. QED BY <2>1, <2>2, <2>3, <2>4, TablesChange, RevokeOnlySteps
<1>2. IInv /\ [Next]_vars => [\A t \in rows : revokedAt[t] # Never =>
            /\ t \in rows'
            /\ revokedAt'[t] = revokedAt[t]
            /\ replacedBy'[t] = replacedBy[t]]_vars
    BY <1>1
<1>3. QED BY Invariance, <1>2, PTL DEF Spec, RevocationIsFinal

-----------------------------------------------------------------------------
(* Refinement: in a state that satisfies the invariant the mapped variable *)
(* is exactly the relation between families and their live tokens.         *)
CurrentInv ==
    /\ Current \in [Token -> Token \cup {NoToken}]
    /\ \A t \in rows : Live(t) => Current[family[t]] = t
    /\ \A f \in Token : Current[f] # NoToken =>
         Current[f] \in rows /\ Live(Current[f]) /\ family[Current[f]] = f

(* With one live token per family, Current is that token. *)
LEMMA CurrentIs == TypeOK /\ OneLivePerFamily => CurrentInv
<1> SUFFICES ASSUME TypeOK, OneLivePerFamily PROVE CurrentInv
    OBVIOUS
<1> USE NullAssumption DEF TypeOK, OneLivePerFamily
<1>1. ASSUME NEW f \in Token, \E t \in FamilyRows(f) : Live(t)
      PROVE  /\ Current[f] \in FamilyRows(f) /\ Live(Current[f])
             /\ \A t \in FamilyRows(f) : Live(t) => t = Current[f]
    <2>1. Current[f] = CHOOSE t \in FamilyRows(f) : Live(t)
        BY <1>1 DEF Current
    <2>2. Current[f] \in FamilyRows(f) /\ Live(Current[f])
        BY <1>1, <2>1
    <2>3. QED BY <2>2 DEF FamilyRows
<1>2. ASSUME NEW f \in Token, ~ \E t \in FamilyRows(f) : Live(t)
      PROVE  Current[f] = NoToken
    BY <1>2 DEF Current
<1>3. \A t \in rows : t \in FamilyRows(family[t]) /\ family[t] \in Token
    BY DEF FamilyRows
<1>4. \A t \in rows : Live(t) => Current[family[t]] = t
    BY <1>1, <1>3
<1>5. \A f \in Token : Current[f] # NoToken =>
        Current[f] \in rows /\ Live(Current[f]) /\ family[Current[f]] = f
    BY <1>1, <1>2 DEF FamilyRows
<1>6. Current = [f \in Token |-> Current[f]]
    BY DEF Current
<1>7. \A f \in Token : Current[f] \in Token \cup {NoToken}
    BY <1>5
<1>8. Current \in [Token -> Token \cup {NoToken}]
    BY <1>6, <1>7
<1>9. QED BY <1>4, <1>5, <1>8 DEF CurrentInv

(* Every step of the handlers is a step of SessionStore, or none. *)
LEMMA StoreStep ==
    IInv /\ CurrentInv /\ CurrentInv' /\ [Next]_vars => [Store!Next]_Store!vars
<1> SUFFICES ASSUME IInv, CurrentInv, CurrentInv', [Next]_vars
             PROVE  Store!Next \/ UNCHANGED Store!vars
    OBVIOUS
<1> USE DEF IInv, TypeOK
<1> DEFINE F == {f \in Token : Current'[f] = NoToken}
<1>1. CASE UNCHANGED <<tokenTable, memberTable>>
    <2>1. UNCHANGED <<rows, family, revokedAt>>
        BY <1>1 DEF tokenTable
    <2>2. UNCHANGED Current
        BY <2>1 DEF Current, FamilyRows, Live
    <2>3. QED BY <2>1, <2>2 DEF Store!vars
<1>2. CASE RevokeOnly
    <2>1. ASSUME NEW f \in Token, Current'[f] # NoToken
          PROVE  Current[f] = Current'[f]
        BY <1>2, <2>1 DEF RevokeOnly, CurrentInv, Live
    <2>2. Current' = [f \in Token |-> IF f \in F THEN NoToken ELSE Current[f]]
        BY <2>1 DEF CurrentInv
    <2>3. Store!Close(F)
        BY <1>2, <2>2 DEF Store!Close, Store!Closed, RevokeOnly
    <2>4. QED BY <2>3 DEF Store!Next
<1>3. ASSUME NEW r \in Request, NEW n \in Token,
             \/ LoginCommit(r, n) \/ AcceptInvitationCommit(r, n)
             \/ VerifyEmailCommit(r, n) \/ SwitchCommit(r, n)
      PROVE  Store!Next
    <2>1. /\ n \notin rows /\ rows' = rows \cup {n}
          /\ family'[n] = n /\ revokedAt'[n] = Never
          /\ \A t \in rows : family'[t] = family[t]
          /\ \A t \in rows : revokedAt[t] # Never => revokedAt'[t] # Never
        BY <1>3, OpenSteps DEF OpenRow
    <2>2. Current'[n] = n
        BY <2>1 DEF CurrentInv, Live
    <2>3. ASSUME NEW f \in Token, f # n, Current'[f] # NoToken
          PROVE  Current[f] = Current'[f]
        BY <2>1, <2>3 DEF CurrentInv, Live
    <2>4. Current' = [[f \in Token |-> IF f \in F THEN NoToken ELSE Current[f]]
                         EXCEPT ![n] = n]
        BY <2>2, <2>3 DEF CurrentInv
    <2>5. Store!Open(n, F)
        BY <2>1, <2>4 DEF Store!Open, Store!Closed
    <2>6. QED BY <2>5 DEF Store!Next
<1>4. ASSUME NEW r \in Request, NEW n \in Token, RefreshRotate(r, n)
      PROVE  Store!Next
    <2> DEFINE f0 == family[tok[r]]
    <2>1. /\ tok[r] \in rows /\ revokedAt[tok[r]] = Never /\ f0 \in Token
          /\ n \notin rows /\ rows' = rows \cup {n} /\ n # tok[r]
        BY <1>4, RotateStep DEF OpenRow, Live
    <2>2. /\ family'[n] = f0
          /\ \A t \in rows : family'[t] = family[t]
        BY <1>4, <2>1, RotateStep DEF OpenRow
    <2>3. /\ revokedAt'[n] = Never
          /\ \A t \in rows : t # tok[r] => revokedAt'[t] = revokedAt[t]
        BY <1>4, <2>1, RotateStep DEF RowsInv
    <2>4. Current[f0] # NoToken
        BY <2>1, NullAssumption DEF CurrentInv, Live
    <2>5. Current'[f0] = n
        BY <2>1, <2>2, <2>3 DEF CurrentInv, Live
    <2>6. ASSUME NEW f \in Token, f # f0
          PROVE  Current'[f] = Current[f]
        <3>1. CASE Current'[f] # NoToken
            BY <2>1, <2>2, <2>3, <2>6, <3>1 DEF CurrentInv, Live
        <3>2. CASE Current'[f] = NoToken
            BY <2>1, <2>2, <2>3, <2>6, <3>2, NullAssumption DEF CurrentInv, Live
        <3>3. QED BY <3>1, <3>2
    <2>7. Current' = [Current EXCEPT ![f0] = n]
        BY <2>5, <2>6 DEF CurrentInv
    <2>8. Store!Exchange(f0, n)
        BY <2>1, <2>4, <2>7 DEF Store!Exchange
    <2>9. QED BY <2>1, <2>8 DEF Store!Next
<1>5. QED BY <1>1, <1>2, <1>3, <1>4, TablesChange, RevokeOnlySteps

(* The concurrent handlers implement the atomic session store: a session   *)
(* has one current token, used tokens never return, and a session that is  *)
(* closed is not opened again.                                             *)
THEOREM Refinement == Spec => ImplementsStore
<1>1. Init => Store!Init
    BY DEF Init, Store!Init, Current, FamilyRows
<1>2. IInv => CurrentInv
    BY CurrentIs DEF IInv
<1>3. IInv' => CurrentInv'
    BY <1>2, PTL
<1>4. IInv /\ IInv' /\ [Next]_vars => [Store!Next]_Store!vars
    BY <1>2, <1>3, StoreStep
<1>5. QED
    BY Invariance, <1>1, <1>4, PTL DEF Spec, Store!Spec, ImplementsStore

=============================================================================
