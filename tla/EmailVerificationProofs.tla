---------------------- MODULE EmailVerificationProofs -----------------------
(***************************************************************************)
(* For any addresses, links and requests: a link opens one session at      *)
(* most, an address is verified by a link of its own or by an invitation   *)
(* and no other way, whoever is still to be verified has a link that       *)
(* works, and just one unless a resend raced; requests block each other in *)
(* a circle only over two links that work.                                 *)
(* IInv is inductive: the types, what a request between two steps is about *)
(* and which rows it has locked for that (Placed, Held), what links and    *)
(* their locks say of each other (Linked), and what holds of an address    *)
(* without a race (Single).                                                *)
(***************************************************************************)
EXTENDS EmailVerification, FiniteSetTheorems, TLAPS

Verifying == {"verify_link", "verify_user", "verify", "verify_rows"}
Owning == {"register", "verify", "verify_rows", "accept"}

Placed ==
    \A r \in Request :
        /\ pc[r] \notin {"idle", "mail"} => who[r] \in Email
        /\ pc[r] \in Verifying => tok[r] \in Token /\ linkOf[tok[r]] = who[r]
        /\ pc[r] = "mail" => tok[r] \in Token /\ linkOf[tok[r]] # NoEmail
        /\ \A t \in todo[r] : pc[r] \in Scanning /\ linkOf[t] = who[r]
        /\ pc[r] = "register" => userLock[who[r]] = r /\ users[who[r]] = "none"
        /\ pc[r] \in {"verify", "verify_rows", "accept"} => userLock[who[r]] = r
        /\ pc[r] \in Verifying \ {"verify_link"} => linkLock[tok[r]] = r
        /\ pc[r] = "verify_rows" => link[tok[r]] = "live"

(* A link is locked to be revoked while it works, or to be verified.       *)
Linked ==
    /\ \A t \in Token : link[t] = "none" <=> linkOf[t] = NoEmail
    /\ \A t \in mailed : linkOf[t] # NoEmail
    /\ \A t \in Token, r \in Request : linkLock[t] = r =>
         /\ linkOf[t] = who[r]
         /\ \/ pc[r] \in Scanning /\ link[t] = "live"
            \/ pc[r] \in {"verify_user", "verify"} /\ t = tok[r]

(* A user is locked to be inserted or verified, and meanwhile no link is   *)
(* added to the address: a verification revokes what it saw working.       *)
Held ==
    /\ IsFiniteSet({t \in Token : linkOf[t] # NoEmail})
    /\ \A e \in Email, r \in Request : userLock[e] = r =>
         e = who[r] /\ pc[r] \in Owning
    /\ \A r \in Request : pc[r] = "verify_rows" =>
         todo[r] \subseteq LiveLinks(who[r]) \ {tok[r]}

(* Without a race an address has at most one working link, none before it  *)
(* registers and none after a link verified it, and the one resend under   *)
(* way, if any, has seen it.                                               *)
Single ==
    \A e \in Email \ raced :
        /\ \A s, t \in LiveLinks(e) : s = t
        /\ users[e] = "none" \/ VerifiedByLink(e) => LiveLinks(e) = {}
        /\ \A r \in Request : who[r] = e /\ pc[r] \in {"resend", "resend_rows"} =>
             users[e] # "none" /\ ~VerifiedByLink(e)
        /\ \A r \in Request : who[r] = e /\ pc[r] = "resend_rows" =>
             /\ \A q \in Request : who[q] = e /\ pc[q] = "resend_rows" => q = r
             /\ \A t \in LiveLinks(e) : t \in todo[r] \/ linkLock[t] = r

IInv == UnverifiedHasLink /\ LinksAreSpentOnce /\ Placed /\ Linked /\ Held /\ Single

-----------------------------------------------------------------------------
(* The initial states satisfy the inductive invariant. *)
LEMMA InitInv == Init => IInv
<1> SUFFICES ASSUME Init PROVE IInv
  OBVIOUS
<1> USE NullAssumption DEF Init
<1>1. TypeOK
  BY DEF TypeOK, Scanning
<1>2. UnverifiedHasLink /\ LinksAreSpentOnce
  BY <1>1 DEF UnverifiedHasLink, LinksAreSpentOnce, VerifiedByLink, Links, LiveLinks
<1>3. Placed /\ Linked
  BY DEF Placed, Linked, Verifying, Scanning
<1>4. Held /\ Single
  <2>1. {t \in Token : linkOf[t] # NoEmail} = {}
    OBVIOUS
  <2> QED
    BY <2>1, FS_EmptySet DEF Held, Single, VerifiedByLink, Links, LiveLinks
<1> QED
  BY <1>1, <1>2, <1>3, <1>4 DEF IInv

(* A step preserves the types. *)
LEMMA TypeStep ==
    ASSUME IInv, [Next]_vars
    PROVE  TypeOK'
<1> USE NullAssumption DEF IInv, UnverifiedHasLink, TypeOK, Placed, Links, LiveLinks, tables, locks, locals, At, EndTransaction, Scanning, Revoked, Verifying
<1>1. ASSUME NEW t \in Token, Expire(t) PROVE TypeOK'
  BY <1>1 DEF Expire
<1>2. ASSUME NEW r \in Request, NEW e \in Email, Register(r, e) PROVE TypeOK'
  BY <1>2 DEF Register
<1>3. ASSUME NEW r \in Request, NEW n \in Token, RegisterCommit(r, n) PROVE TypeOK'
  BY <1>3 DEF RegisterCommit
<1>4. ASSUME NEW r \in Request, NEW e \in Email, ResendFind(r, e) PROVE TypeOK'
  BY <1>4 DEF ResendFind
<1>5. ASSUME NEW r \in Request, ResendUpdate(r) PROVE TypeOK'
  BY <1>5 DEF ResendUpdate
<1>6. ASSUME NEW r \in Request, UpdateRow(r) PROVE TypeOK'
  BY <1>6 DEF UpdateRow
<1>7. ASSUME NEW r \in Request, NEW n \in Token, ResendCommit(r, n) PROVE TypeOK'
  BY <1>7 DEF ResendCommit
<1>8. ASSUME NEW r \in Request, NEW t \in Token, VerifyBegin(r, t) PROVE TypeOK'
  BY <1>8 DEF VerifyBegin
<1>9. ASSUME NEW r \in Request, VerifyLink(r) PROVE TypeOK'
  BY <1>9 DEF VerifyLink
<1>10. ASSUME NEW r \in Request, VerifyUser(r) PROVE TypeOK'
  BY <1>10 DEF VerifyUser
<1>11. ASSUME NEW r \in Request, VerifyReject(r) PROVE TypeOK'
  BY <1>11 DEF VerifyReject
<1>12. ASSUME NEW r \in Request, VerifyUpdate(r) PROVE TypeOK'
  BY <1>12 DEF VerifyUpdate
<1>13. ASSUME NEW r \in Request, VerifyCommit(r) PROVE TypeOK'
  BY <1>13 DEF VerifyCommit
<1>14. ASSUME NEW r \in Request, Mail(r) PROVE TypeOK'
  BY <1>14 DEF Mail
<1>15. ASSUME NEW r \in Request, Fail(r) PROVE TypeOK'
  BY <1>15 DEF Fail
<1>16. ASSUME NEW r \in Request, NEW e \in Email, AcceptUser(r, e) PROVE TypeOK'
  BY <1>16 DEF AcceptUser
<1>17. ASSUME NEW r \in Request, AcceptCommit(r) PROVE TypeOK'
  BY <1>17 DEF AcceptCommit
<1>18. CASE UNCHANGED vars
  BY <1>18 DEF vars
<1> HIDE DEF IInv, UnverifiedHasLink, TypeOK, Placed
<1> QED
  BY <1>1, <1>2, <1>3, <1>4, <1>5, <1>6, <1>7, <1>8, <1>9, <1>10, <1>11, <1>12, <1>13, <1>14, <1>15, <1>16, <1>17, <1>18 DEF Next

(* Locks keep others from what a request is about. *)
LEMMA PlacedStep ==
    ASSUME IInv, TypeOK', [Next]_vars
    PROVE  Placed'
<1> USE NullAssumption DEF IInv, UnverifiedHasLink, TypeOK, Placed, Linked, Links, LiveLinks, tables, locks, locals, At, EndTransaction, Scanning, Revoked, Verifying
<1>1. ASSUME NEW t \in Token, Expire(t) PROVE Placed'
  BY <1>1 DEF Expire
<1>2. ASSUME NEW r \in Request, NEW e \in Email, Register(r, e) PROVE Placed'
  BY <1>2 DEF Register
<1>3. ASSUME NEW r \in Request, NEW n \in Token, RegisterCommit(r, n) PROVE Placed'
  BY <1>3 DEF RegisterCommit
<1>4. ASSUME NEW r \in Request, NEW e \in Email, ResendFind(r, e) PROVE Placed'
  BY <1>4 DEF ResendFind
<1>5. ASSUME NEW r \in Request, ResendUpdate(r) PROVE Placed'
  BY <1>5 DEF ResendUpdate
<1>6. ASSUME NEW r \in Request, UpdateRow(r) PROVE Placed'
  BY <1>6 DEF UpdateRow
<1>7. ASSUME NEW r \in Request, NEW n \in Token, ResendCommit(r, n) PROVE Placed'
  BY <1>7 DEF ResendCommit
<1>8. ASSUME NEW r \in Request, NEW t \in Token, VerifyBegin(r, t) PROVE Placed'
  BY <1>8 DEF VerifyBegin
<1>9. ASSUME NEW r \in Request, VerifyLink(r) PROVE Placed'
  BY <1>9 DEF VerifyLink
<1>10. ASSUME NEW r \in Request, VerifyUser(r) PROVE Placed'
  BY <1>10 DEF VerifyUser
<1>11. ASSUME NEW r \in Request, VerifyReject(r) PROVE Placed'
  BY <1>11 DEF VerifyReject
<1>12. ASSUME NEW r \in Request, VerifyUpdate(r) PROVE Placed'
  BY <1>12 DEF VerifyUpdate
<1>13. ASSUME NEW r \in Request, VerifyCommit(r) PROVE Placed'
  BY <1>13 DEF VerifyCommit
<1>14. ASSUME NEW r \in Request, Mail(r) PROVE Placed'
  BY <1>14 DEF Mail
<1>15. ASSUME NEW r \in Request, Fail(r) PROVE Placed'
  BY <1>15 DEF Fail
<1>16. ASSUME NEW r \in Request, NEW e \in Email, AcceptUser(r, e) PROVE Placed'
  BY <1>16 DEF AcceptUser
<1>17. ASSUME NEW r \in Request, AcceptCommit(r) PROVE Placed'
  BY <1>17 DEF AcceptCommit
<1>18. CASE UNCHANGED vars
  BY <1>18 DEF vars
<1> HIDE DEF IInv, UnverifiedHasLink, TypeOK, Placed, Linked
<1> QED
  BY <1>1, <1>2, <1>3, <1>4, <1>5, <1>6, <1>7, <1>8, <1>9, <1>10, <1>11, <1>12, <1>13, <1>14, <1>15, <1>16, <1>17, <1>18 DEF Next

(* Only the owner of its lock changes a link. *)
LEMMA LinkedStep ==
    ASSUME IInv, TypeOK', [Next]_vars
    PROVE  Linked'
<1> USE NullAssumption DEF IInv, UnverifiedHasLink, TypeOK, Placed, Linked, Links, LiveLinks, tables, locks, locals, At, EndTransaction, Scanning, Revoked, Verifying
<1>1. ASSUME NEW t \in Token, Expire(t) PROVE Linked'
  BY <1>1 DEF Expire
<1>2. ASSUME NEW r \in Request, NEW e \in Email, Register(r, e) PROVE Linked'
  BY <1>2 DEF Register
<1>3. ASSUME NEW r \in Request, NEW n \in Token, RegisterCommit(r, n) PROVE Linked'
  BY <1>3 DEF RegisterCommit
<1>4. ASSUME NEW r \in Request, NEW e \in Email, ResendFind(r, e) PROVE Linked'
  BY <1>4 DEF ResendFind
<1>5. ASSUME NEW r \in Request, ResendUpdate(r) PROVE Linked'
  BY <1>5 DEF ResendUpdate
<1>6. ASSUME NEW r \in Request, UpdateRow(r) PROVE Linked'
  BY <1>6 DEF UpdateRow
<1>7. ASSUME NEW r \in Request, NEW n \in Token, ResendCommit(r, n) PROVE Linked'
  BY <1>7 DEF ResendCommit
<1>8. ASSUME NEW r \in Request, NEW t \in Token, VerifyBegin(r, t) PROVE Linked'
  BY <1>8 DEF VerifyBegin
<1>9. ASSUME NEW r \in Request, VerifyLink(r) PROVE Linked'
  BY <1>9 DEF VerifyLink
<1>10. ASSUME NEW r \in Request, VerifyUser(r) PROVE Linked'
  BY <1>10 DEF VerifyUser
<1>11. ASSUME NEW r \in Request, VerifyReject(r) PROVE Linked'
  BY <1>11 DEF VerifyReject
<1>12. ASSUME NEW r \in Request, VerifyUpdate(r) PROVE Linked'
  BY <1>12 DEF VerifyUpdate
<1>13. ASSUME NEW r \in Request, VerifyCommit(r) PROVE Linked'
  BY <1>13 DEF VerifyCommit
<1>14. ASSUME NEW r \in Request, Mail(r) PROVE Linked'
  BY <1>14 DEF Mail
<1>15. ASSUME NEW r \in Request, Fail(r) PROVE Linked'
  BY <1>15 DEF Fail
<1>16. ASSUME NEW r \in Request, NEW e \in Email, AcceptUser(r, e) PROVE Linked'
  BY <1>16 DEF AcceptUser
<1>17. ASSUME NEW r \in Request, AcceptCommit(r) PROVE Linked'
  BY <1>17 DEF AcceptCommit
<1>18. CASE UNCHANGED vars
  BY <1>18 DEF vars
<1> HIDE DEF IInv, UnverifiedHasLink, TypeOK, Placed, Linked
<1> QED
  BY <1>1, <1>2, <1>3, <1>4, <1>5, <1>6, <1>7, <1>8, <1>9, <1>10, <1>11, <1>12, <1>13, <1>14, <1>15, <1>16, <1>17, <1>18 DEF Next

(* A link is consumed under its lock, with its user. *)
LEMMA SpentStep ==
    ASSUME IInv, TypeOK', [Next]_vars
    PROVE  LinksAreSpentOnce'
<1> USE NullAssumption DEF IInv, UnverifiedHasLink, LinksAreSpentOnce, TypeOK, Placed, Linked, Links, VerifiedByLink, tables, locks, locals, At, EndTransaction, Scanning, Revoked, Verifying
<1>1. ASSUME NEW t \in Token, Expire(t) PROVE LinksAreSpentOnce'
  BY <1>1 DEF Expire
<1>2. ASSUME NEW r \in Request, NEW e \in Email, Register(r, e) PROVE LinksAreSpentOnce'
  BY <1>2 DEF Register
<1>3. ASSUME NEW r \in Request, NEW n \in Token, RegisterCommit(r, n) PROVE LinksAreSpentOnce'
  BY <1>3 DEF RegisterCommit
<1>4. ASSUME NEW r \in Request, NEW e \in Email, ResendFind(r, e) PROVE LinksAreSpentOnce'
  BY <1>4 DEF ResendFind
<1>5. ASSUME NEW r \in Request, ResendUpdate(r) PROVE LinksAreSpentOnce'
  BY <1>5 DEF ResendUpdate
<1>6. ASSUME NEW r \in Request, UpdateRow(r) PROVE LinksAreSpentOnce'
  BY <1>6 DEF UpdateRow
<1>7. ASSUME NEW r \in Request, NEW n \in Token, ResendCommit(r, n) PROVE LinksAreSpentOnce'
  <2>1. /\ users' = users /\ opened' = opened /\ invited' = invited /\ linkOf[n] = NoEmail /\ link[n] = "none"
        /\ linkOf' = [linkOf EXCEPT ![n] = who[r]] /\ link' = [Revoked(r) EXCEPT ![n] = "live"]
    BY <1>7 DEF ResendCommit
  <2>2. \A t \in Token : linkLock[t] = r => link[t] = "live"
    BY <1>7 DEF ResendCommit
  <2>3. \A t \in Token : link'[t] = "consumed" <=> link[t] = "consumed"
    BY <2>1, <2>2
  <2>4. \A t \in Token : link[t] = "consumed" => linkOf'[t] = linkOf[t]
    BY <2>1
  <2> HIDE DEF IInv, UnverifiedHasLink, TypeOK, Placed, Linked
  <2>5. LinksAreSpentOnce
    BY DEF IInv
  <2>6. \A t \in Token : opened'[t] = IF link'[t] = "consumed" THEN 1 ELSE 0
    BY <2>1, <2>3, <2>5
  <2>7. ASSUME NEW e \in Email
        PROVE  (users[e] = "verified" <=> e \in invited \/ VerifiedByLink(e))'
    <3>1. \A t \in Token : t \in Links(e)' /\ link'[t] = "consumed" <=>
            t \in Links(e) /\ link[t] = "consumed"
      BY <2>3, <2>4
    <3>2. users[e] = "verified" <=>
            e \in invited \/ \E t \in Token : t \in Links(e) /\ link[t] = "consumed"
      BY <2>5
    <3> QED
      BY <2>1, <3>1, <3>2
  <2> QED
    BY <2>6, <2>7
<1>8. ASSUME NEW r \in Request, NEW t \in Token, VerifyBegin(r, t) PROVE LinksAreSpentOnce'
  BY <1>8 DEF VerifyBegin
<1>9. ASSUME NEW r \in Request, VerifyLink(r) PROVE LinksAreSpentOnce'
  BY <1>9 DEF VerifyLink
<1>10. ASSUME NEW r \in Request, VerifyUser(r) PROVE LinksAreSpentOnce'
  BY <1>10 DEF VerifyUser
<1>11. ASSUME NEW r \in Request, VerifyReject(r) PROVE LinksAreSpentOnce'
  BY <1>11 DEF VerifyReject
<1>12. ASSUME NEW r \in Request, VerifyUpdate(r) PROVE LinksAreSpentOnce'
  BY <1>12 DEF VerifyUpdate
<1>13. ASSUME NEW r \in Request, VerifyCommit(r) PROVE LinksAreSpentOnce'
  <2> DEFINE u == tok[r]
  <2>1. /\ who[r] \in Email /\ u \in Token /\ linkOf[u] = who[r] /\ link[u] = "live"
        /\ users' = [users EXCEPT ![who[r]] = "verified"] /\ linkOf' = linkOf
        /\ link' = [Revoked(r) EXCEPT ![u] = "consumed"]
        /\ opened' = [opened EXCEPT ![u] = opened[u] + 1] /\ invited' = invited
    BY <1>13 DEF VerifyCommit
  <2>2. \A t \in Token : linkLock[t] = r => link[t] = "live"
    BY <1>13 DEF VerifyCommit
  <2>3. /\ users \in [Email -> {"none", "unverified", "verified"}]
        /\ link \in [Token -> {"none", "live", "consumed", "revoked"}]
        /\ linkOf \in [Token -> Email \cup {NoEmail}] /\ opened \in [Token -> Nat]
    OBVIOUS
  <2>4. link'[u] = "consumed" /\ \A t \in Token \ {u} : link'[t] = "consumed" <=> link[t] = "consumed"
    BY <2>1, <2>2, <2>3
  <2>5. LinksAreSpentOnce
    BY DEF IInv
  <2> HIDE DEF IInv, UnverifiedHasLink, TypeOK, Placed, Linked, u
  <2>6. \A t \in Token : opened'[t] = IF link'[t] = "consumed" THEN 1 ELSE 0
    <3>1. opened'[u] = 1
      BY <2>1, <2>3, <2>5
    <3> QED
      BY <2>1, <2>3, <2>4, <2>5, <3>1
  <2>7. ASSUME NEW e \in Email
        PROVE  (users[e] = "verified" <=> e \in invited \/ VerifiedByLink(e))'
    <3>1. CASE e = who[r]
      BY <2>1, <2>3, <2>4, <3>1
    <3>2. CASE e # who[r]
      <4>1. \A t \in Token : t \in Links(e)' /\ link'[t] = "consumed" <=>
              t \in Links(e) /\ link[t] = "consumed"
        BY <2>1, <2>4, <3>2
      <4>2. users[e] = "verified" <=>
            e \in invited \/ \E t \in Token : t \in Links(e) /\ link[t] = "consumed"
        BY <2>5
      <4>3. users'[e] = users[e] /\ invited' = invited
        BY <2>1, <2>3, <3>2
      <4> QED
        BY <4>1, <4>2, <4>3
    <3> QED
      BY <3>1, <3>2
  <2> QED
    BY <2>6, <2>7
<1>14. ASSUME NEW r \in Request, Mail(r) PROVE LinksAreSpentOnce'
  BY <1>14 DEF Mail
<1>15. ASSUME NEW r \in Request, Fail(r) PROVE LinksAreSpentOnce'
  BY <1>15 DEF Fail
<1>16. ASSUME NEW r \in Request, NEW e \in Email, AcceptUser(r, e) PROVE LinksAreSpentOnce'
  BY <1>16 DEF AcceptUser
<1>17. ASSUME NEW r \in Request, AcceptCommit(r) PROVE LinksAreSpentOnce'
  BY <1>17 DEF AcceptCommit
<1>18. CASE UNCHANGED vars
  BY <1>18 DEF vars
<1> HIDE DEF IInv, UnverifiedHasLink, LinksAreSpentOnce, TypeOK, Placed, Linked
<1> QED
  BY <1>1, <1>2, <1>3, <1>4, <1>5, <1>6, <1>7, <1>8, <1>9, <1>10, <1>11, <1>12, <1>13, <1>14, <1>15, <1>16, <1>17, <1>18 DEF Next

(* The links of an address are revoked when it gets another, or is verified. *)
LEMMA HasLinkStep ==
    ASSUME IInv, TypeOK', [Next]_vars
    PROVE  UnverifiedHasLink'
<1> USE NullAssumption DEF IInv, UnverifiedHasLink, TypeOK, Placed, Linked, Links, LiveLinks, tables, locks, locals, At, EndTransaction, Scanning, Revoked, Verifying
<1>1. ASSUME NEW t \in Token, Expire(t) PROVE UnverifiedHasLink'
  BY <1>1 DEF Expire
<1>2. ASSUME NEW r \in Request, NEW e \in Email, Register(r, e) PROVE UnverifiedHasLink'
  BY <1>2 DEF Register
<1>3. ASSUME NEW r \in Request, NEW n \in Token, RegisterCommit(r, n) PROVE UnverifiedHasLink'
  BY <1>3 DEF RegisterCommit
<1>4. ASSUME NEW r \in Request, NEW e \in Email, ResendFind(r, e) PROVE UnverifiedHasLink'
  BY <1>4 DEF ResendFind
<1>5. ASSUME NEW r \in Request, ResendUpdate(r) PROVE UnverifiedHasLink'
  BY <1>5 DEF ResendUpdate
<1>6. ASSUME NEW r \in Request, UpdateRow(r) PROVE UnverifiedHasLink'
  BY <1>6 DEF UpdateRow
<1>7. ASSUME NEW r \in Request, NEW n \in Token, ResendCommit(r, n) PROVE UnverifiedHasLink'
  <2>1. /\ users' = users /\ linkOf[n] = NoEmail /\ who[r] \in Email
        /\ linkOf' = [linkOf EXCEPT ![n] = who[r]] /\ link' = [Revoked(r) EXCEPT ![n] = "live"]
    BY <1>7 DEF ResendCommit
  <2>2. linkOf \in [Token -> Email \cup {NoEmail}] /\ \A t \in Token : linkLock[t] = r => linkOf[t] = who[r]
    OBVIOUS
  <2>3. \A e \in Email : users[e] = "unverified" => LiveLinks(e) # {}
    OBVIOUS
  <2> HIDE DEF IInv, UnverifiedHasLink, TypeOK, Placed, Linked
  <2>4. ASSUME NEW e \in Email, users'[e] = "unverified" PROVE LiveLinks(e)' # {}
    <3>1. CASE e = who[r]
      <4>1. n \in LiveLinks(e)'
        BY <2>1, <2>2, <3>1
      <4> QED
        BY <4>1
    <3>2. CASE e # who[r]
      <4>1. PICK t \in LiveLinks(e) : TRUE
        BY <2>1, <2>3, <2>4
      <4>2. t \in LiveLinks(e)'
        BY <2>1, <2>2, <3>2, <4>1
      <4> QED
        BY <4>2
    <3> QED
      BY <3>1, <3>2
  <2> QED
    BY <2>4 DEF UnverifiedHasLink
<1>8. ASSUME NEW r \in Request, NEW t \in Token, VerifyBegin(r, t) PROVE UnverifiedHasLink'
  BY <1>8 DEF VerifyBegin
<1>9. ASSUME NEW r \in Request, VerifyLink(r) PROVE UnverifiedHasLink'
  BY <1>9 DEF VerifyLink
<1>10. ASSUME NEW r \in Request, VerifyUser(r) PROVE UnverifiedHasLink'
  BY <1>10 DEF VerifyUser
<1>11. ASSUME NEW r \in Request, VerifyReject(r) PROVE UnverifiedHasLink'
  BY <1>11 DEF VerifyReject
<1>12. ASSUME NEW r \in Request, VerifyUpdate(r) PROVE UnverifiedHasLink'
  BY <1>12 DEF VerifyUpdate
<1>13. ASSUME NEW r \in Request, VerifyCommit(r) PROVE UnverifiedHasLink'
  <2>1. /\ who[r] \in Email /\ tok[r] \in Token /\ linkOf[tok[r]] = who[r]
        /\ users' = [users EXCEPT ![who[r]] = "verified"] /\ linkOf' = linkOf
        /\ link' = [Revoked(r) EXCEPT ![tok[r]] = "consumed"]
    BY <1>13 DEF VerifyCommit
  <2>2. /\ users \in [Email -> {"none", "unverified", "verified"}]
        /\ \A t \in Token : linkLock[t] = r => linkOf[t] = who[r]
    OBVIOUS
  <2>3. \A e \in Email : users[e] = "unverified" => LiveLinks(e) # {}
    OBVIOUS
  <2> HIDE DEF IInv, UnverifiedHasLink, TypeOK, Placed, Linked
  <2>4. ASSUME NEW e \in Email, users'[e] = "unverified" PROVE LiveLinks(e)' # {}
    <3>1. e # who[r] /\ users[e] = "unverified"
      BY <2>1, <2>2, <2>4
    <3>2. PICK t \in LiveLinks(e) : TRUE
      BY <2>3, <3>1
    <3>3. t \in LiveLinks(e)'
      BY <2>1, <2>2, <3>1, <3>2
    <3> QED
      BY <3>3
  <2> QED
    BY <2>4 DEF UnverifiedHasLink
<1>14. ASSUME NEW r \in Request, Mail(r) PROVE UnverifiedHasLink'
  BY <1>14 DEF Mail
<1>15. ASSUME NEW r \in Request, Fail(r) PROVE UnverifiedHasLink'
  BY <1>15 DEF Fail
<1>16. ASSUME NEW r \in Request, NEW e \in Email, AcceptUser(r, e) PROVE UnverifiedHasLink'
  BY <1>16 DEF AcceptUser
<1>17. ASSUME NEW r \in Request, AcceptCommit(r) PROVE UnverifiedHasLink'
  BY <1>17 DEF AcceptCommit
<1>18. CASE UNCHANGED vars
  BY <1>18 DEF vars
<1> HIDE DEF IInv, UnverifiedHasLink, TypeOK, Placed, Linked
<1> QED
  BY <1>1, <1>2, <1>3, <1>4, <1>5, <1>6, <1>7, <1>8, <1>9, <1>10, <1>11, <1>12, <1>13, <1>14, <1>15, <1>16, <1>17, <1>18 DEF Next

(* Who holds a user, holds its links too.  *)
LEMMA HeldStep ==
    ASSUME IInv, TypeOK', [Next]_vars
    PROVE  Held'
<1> USE NullAssumption DEF IInv, UnverifiedHasLink, TypeOK, Placed, Linked, Held, Owning, Links, LiveLinks, tables, locks, locals, At, EndTransaction, Scanning, Revoked, Verifying
<1>1. ASSUME NEW t \in Token, Expire(t) PROVE Held'
  BY <1>1 DEF Expire
<1>2. ASSUME NEW r \in Request, NEW e \in Email, Register(r, e) PROVE Held'
  BY <1>2 DEF Register
<1>3. ASSUME NEW r \in Request, NEW n \in Token, RegisterCommit(r, n) PROVE Held'
  <2>1. IsFiniteSet({t \in Token : linkOf[t] # NoEmail} \cup {n})
    BY FS_AddElement
  <2>2. {t \in Token : linkOf'[t] # NoEmail} = {t \in Token : linkOf[t] # NoEmail} \cup {n}
    BY <1>3 DEF RegisterCommit
  <2>3. IsFiniteSet({t \in Token : linkOf[t] # NoEmail})'
    BY <2>1, <2>2
  <2>4. ASSUME NEW e \in Email, NEW q \in Request, userLock'[e] = q
        PROVE  e = who'[q] /\ pc'[q] \in Owning
    BY <2>4, <1>3 DEF RegisterCommit
  <2>5. ASSUME NEW q \in Request, pc'[q] = "verify_rows"
        PROVE  (todo[q] \subseteq LiveLinks(who[q]) \ {tok[q]})'
    BY <2>5, <1>3 DEF RegisterCommit
  <2> QED
    BY <2>3, <2>4, <2>5
<1>4. ASSUME NEW r \in Request, NEW e \in Email, ResendFind(r, e) PROVE Held'
  BY <1>4 DEF ResendFind
<1>5. ASSUME NEW r \in Request, ResendUpdate(r) PROVE Held'
  BY <1>5 DEF ResendUpdate
<1>6. ASSUME NEW r \in Request, UpdateRow(r) PROVE Held'
  BY <1>6 DEF UpdateRow
<1>7. ASSUME NEW r \in Request, NEW n \in Token, ResendCommit(r, n) PROVE Held'
  <2>1. IsFiniteSet({t \in Token : linkOf[t] # NoEmail} \cup {n})
    BY FS_AddElement
  <2>2. {t \in Token : linkOf'[t] # NoEmail} = {t \in Token : linkOf[t] # NoEmail} \cup {n}
    BY <1>7 DEF ResendCommit
  <2>3. IsFiniteSet({t \in Token : linkOf[t] # NoEmail})'
    BY <2>1, <2>2
  <2>4. ASSUME NEW e \in Email, NEW q \in Request, userLock'[e] = q
        PROVE  e = who'[q] /\ pc'[q] \in Owning
    BY <2>4, <1>7 DEF ResendCommit
  <2>5. ASSUME NEW q \in Request, pc'[q] = "verify_rows"
        PROVE  (todo[q] \subseteq LiveLinks(who[q]) \ {tok[q]})'
    BY <2>5, <1>7 DEF ResendCommit
  <2> QED
    BY <2>3, <2>4, <2>5
<1>8. ASSUME NEW r \in Request, NEW t \in Token, VerifyBegin(r, t) PROVE Held'
  BY <1>8 DEF VerifyBegin
<1>9. ASSUME NEW r \in Request, VerifyLink(r) PROVE Held'
  BY <1>9 DEF VerifyLink
<1>10. ASSUME NEW r \in Request, VerifyUser(r) PROVE Held'
  BY <1>10 DEF VerifyUser
<1>11. ASSUME NEW r \in Request, VerifyReject(r) PROVE Held'
  BY <1>11 DEF VerifyReject
<1>12. ASSUME NEW r \in Request, VerifyUpdate(r) PROVE Held'
  BY <1>12 DEF VerifyUpdate
<1>13. ASSUME NEW r \in Request, VerifyCommit(r) PROVE Held'
  BY <1>13 DEF VerifyCommit
<1>14. ASSUME NEW r \in Request, Mail(r) PROVE Held'
  BY <1>14 DEF Mail
<1>15. ASSUME NEW r \in Request, Fail(r) PROVE Held'
  BY <1>15 DEF Fail
<1>16. ASSUME NEW r \in Request, NEW e \in Email, AcceptUser(r, e) PROVE Held'
  BY <1>16 DEF AcceptUser
<1>17. ASSUME NEW r \in Request, AcceptCommit(r) PROVE Held'
  BY <1>17 DEF AcceptCommit
<1>18. CASE UNCHANGED vars
  BY <1>18 DEF vars
<1> HIDE DEF IInv, UnverifiedHasLink, TypeOK, Placed, Linked, Held
<1> QED
  BY <1>1, <1>2, <1>3, <1>4, <1>5, <1>6, <1>7, <1>8, <1>9, <1>10, <1>11, <1>12, <1>13, <1>14, <1>15, <1>16, <1>17, <1>18 DEF Next

(* What a resend or a verification has seen is all there is.  *)
LEMMA SingleStep ==
    ASSUME IInv, TypeOK', [Next]_vars
    PROVE  Single'
<1>a. \A t \in Token, r \in Request : linkLock[t] = r =>
        /\ linkOf[t] = who[r]
        /\ pc[r] = "resend_rows" => link[t] = "live"
  BY DEF IInv, Linked
<1>b. /\ users \in [Email -> {"none", "unverified", "verified"}] /\ who \in [Request -> Email \cup {NoEmail}]
      /\ linkOf \in [Token -> Email \cup {NoEmail}] /\ todo \in [Request -> SUBSET Token]
      /\ link \in [Token -> {"none", "live", "consumed", "revoked"}]
      /\ linkLock \in [Token -> Request \cup {NoRequest}] /\ DOMAIN pc = Request
  BY DEF IInv, UnverifiedHasLink, TypeOK
<1>c. Single /\ \A t \in Token : link[t] = "none" <=> linkOf[t] = NoEmail
  BY DEF IInv, Linked
<1> USE NullAssumption DEF IInv, UnverifiedHasLink, TypeOK, Placed, Linked, Held, Owning, Links, LiveLinks, tables, locks, locals, At, EndTransaction, Scanning, Revoked, Verifying, Single, VerifiedByLink, LinksAreSpentOnce
<1>1. ASSUME NEW t \in Token, Expire(t) PROVE Single'
  BY <1>1 DEF Expire
<1>2. ASSUME NEW r \in Request, NEW e \in Email, Register(r, e) PROVE Single'
  BY <1>2 DEF Register
<1>3. ASSUME NEW r \in Request, NEW n \in Token, RegisterCommit(r, n) PROVE Single'
  BY <1>3 DEF RegisterCommit
<1>4. ASSUME NEW r \in Request, NEW e \in Email, ResendFind(r, e) PROVE Single'
  BY <1>4 DEF ResendFind
<1>5. ASSUME NEW r \in Request, ResendUpdate(r) PROVE Single'
  BY <1>5 DEF ResendUpdate
<1>6. ASSUME NEW r \in Request, UpdateRow(r) PROVE Single'
  BY <1>6 DEF UpdateRow
<1>7. ASSUME NEW r \in Request, NEW n \in Token, ResendCommit(r, n) PROVE Single'
  <2>0. PICK a \in Email : a = who[r]
    BY <1>7 DEF ResendCommit
  <2>1. /\ who[r] = a /\ linkOf[n] = NoEmail /\ users' = users /\ raced' = raced
        /\ pc[r] = "resend_rows" /\ todo[r] = {}
        /\ linkOf' = [linkOf EXCEPT ![n] = a] /\ link' = [Revoked(r) EXCEPT ![n] = "live"]
        /\ linkLock' = [t \in Token |-> IF linkLock[t] = r THEN NoRequest ELSE linkLock[t]]
        /\ pc' = [pc EXCEPT ![r] = "mail"] /\ who' = [who EXCEPT ![r] = NoEmail]
        /\ \A q \in Request : q # r => todo'[q] = todo[q]
    BY <1>7, <2>0 DEF ResendCommit
  <2> HIDE DEF IInv, UnverifiedHasLink, TypeOK, Placed, Linked, Held, LinksAreSpentOnce
  <2>2. \A t \in Token : linkLock[t] = r => linkOf[t] = a /\ link[t] = "live"
    BY <1>a, <2>1
  <2>3. /\ link[n] = "none" /\ link'[n] = "live" /\ linkOf'[n] = a
        /\ \A t \in Token \ {n} : /\ linkOf'[t] = linkOf[t]
                                 /\ link'[t] = IF linkLock[t] = r THEN "revoked" ELSE link[t]
    BY <1>b, <1>c, <2>1
  <2>4. ASSUME NEW e \in Email PROVE VerifiedByLink(e)' <=> VerifiedByLink(e)
    <3>1. \A t \in Token : linkOf[t] = e /\ link[t] = "consumed" <=>
            linkOf'[t] = e /\ link'[t] = "consumed"
      BY <1>b, <2>1, <2>2, <2>3
    <3> HIDE DEF Single
    <3> QED
      BY <3>1
  <2>5. ASSUME NEW e \in Email, e # a PROVE LiveLinks(e)' = LiveLinks(e)
    BY <1>b, <2>1, <2>2, <2>5
  <2>6. ASSUME a \notin raced
        PROVE  /\ LiveLinks(a)' = {n}
               /\ users[a] # "none" /\ ~VerifiedByLink(a)
               /\ \A q \in Request : who'[q] = a => pc'[q] # "resend_rows"
    <3>1. /\ users[a] # "none" /\ ~VerifiedByLink(a)
          /\ \A q \in Request : who[q] = a /\ pc[q] = "resend_rows" => q = r
          /\ \A t \in LiveLinks(a) : linkLock[t] = r
      BY <1>c, <2>1, <2>6
    <3>2. \A q \in Request : who'[q] = a => pc'[q] # "resend_rows"
      BY <1>b, <2>1, <3>1, NullAssumption
    <3>3. LiveLinks(a)' = {n}
      <4>1. \A t \in Token : linkOf'[t] = a /\ link'[t] = "live" => t = n
        BY <2>3, <3>1
      <4>2. n \in Token /\ linkOf'[n] = a /\ link'[n] = "live"
        BY <2>3
      <4> HIDE DEF Single, VerifiedByLink
      <4>3. \A t : t \in {u \in {v \in Token : linkOf'[v] = a} : link'[u] = "live"} <=> t = n
        BY <4>1, <4>2
      <4> QED
        BY <4>3
    <3> QED
      BY <3>1, <3>2, <3>3
  <2> SUFFICES ASSUME NEW e \in Email \ raced
               PROVE  /\ \A s, t \in LiveLinks(e)' : s = t
                      /\ (users[e] = "none" \/ VerifiedByLink(e) => LiveLinks(e) = {})'
                      /\ \A q \in Request : who'[q] = e =>
                           /\ pc'[q] \in {"resend", "resend_rows"} => users'[e] # "none" /\ ~VerifiedByLink(e)'
                           /\ pc'[q] = "resend_rows" =>
                                /\ \A p \in Request : who'[p] = e /\ pc'[p] = "resend_rows" => p = q
                                /\ \A t \in LiveLinks(e)' : t \in todo'[q] \/ linkLock'[t] = q
    <3>1. raced' = raced
      BY <2>1
    <3> QED
      BY <3>1
  <2>7. CASE e = a
    <3>1. /\ LiveLinks(e)' = {n} /\ users'[e] # "none" /\ ~VerifiedByLink(e)'
          /\ \A q \in Request : who'[q] = e => pc'[q] # "resend_rows"
      <4> HIDE DEF LiveLinks, VerifiedByLink, Single
      <4>1. /\ LiveLinks(a)' = {n} /\ users[e] # "none" /\ ~VerifiedByLink(e)
            /\ \A q \in Request : who'[q] = e => pc'[q] # "resend_rows"
        BY <2>6, <2>7
      <4>2. VerifiedByLink(e)' <=> VerifiedByLink(e)
        BY <2>4
      <4>3. LiveLinks(e)' = {n}
        BY <2>7, <4>1
      <4> QED
        BY <2>1, <4>1, <4>2, <4>3
    <3> QED
      BY <3>1
  <2>8. CASE e # a
    <3>1. \A q \in Request : who'[q] = e =>
            q # r /\ who[q] = e /\ pc'[q] = pc[q] /\ todo'[q] = todo[q]
      BY <2>1, <2>8
    <3>2. \A q \in Request, t \in Token : q # r /\ linkLock[t] = q => linkLock'[t] = q
      BY <2>1
    <3> QED
      <4>1. users' = users /\ (VerifiedByLink(e)' <=> VerifiedByLink(e)) /\ LiveLinks(e)' = LiveLinks(e)
        BY <2>1, <2>4, <2>5, <2>8
      <4>2. \A q \in Request : who'[q] = e /\ pc'[q] = "resend_rows" =>
              /\ \A p \in Request : who'[p] = e /\ pc'[p] = "resend_rows" => p = q
              /\ \A t \in LiveLinks(e) : t \in todo'[q] \/ linkLock'[t] = q
        BY <1>c, <3>1, <3>2
      <4>3. \A q \in Request : who'[q] = e /\ pc'[q] \in {"resend", "resend_rows"} =>
              users[e] # "none" /\ ~VerifiedByLink(e)
        BY <1>c, <3>1
      <4>4. /\ \A s, t \in LiveLinks(e) : s = t
            /\ users[e] = "none" \/ VerifiedByLink(e) => LiveLinks(e) = {}
        BY <1>c
      <4> HIDE DEF LiveLinks, VerifiedByLink, Single
      <4> QED
        BY <4>1, <4>2, <4>3, <4>4
  <2> QED
    BY <2>7, <2>8
<1>8. ASSUME NEW r \in Request, NEW t \in Token, VerifyBegin(r, t) PROVE Single'
  BY <1>8 DEF VerifyBegin
<1>9. ASSUME NEW r \in Request, VerifyLink(r) PROVE Single'
  BY <1>9 DEF VerifyLink
<1>10. ASSUME NEW r \in Request, VerifyUser(r) PROVE Single'
  BY <1>10 DEF VerifyUser
<1>11. ASSUME NEW r \in Request, VerifyReject(r) PROVE Single'
  BY <1>11 DEF VerifyReject
<1>12. ASSUME NEW r \in Request, VerifyUpdate(r) PROVE Single'
  BY <1>12 DEF VerifyUpdate
<1>13. ASSUME NEW r \in Request, VerifyCommit(r) PROVE Single'
  <2>0. PICK a \in Email : a = who[r]
    BY <1>13 DEF VerifyCommit
  <2>1. /\ a \in Email /\ todo[r] = {} /\ users' = [users EXCEPT ![a] = "verified"]
        /\ link' = [Revoked(r) EXCEPT ![tok[r]] = "consumed"] /\ linkOf' = linkOf
        /\ tok[r] \in Token /\ linkOf[tok[r]] = a
        /\ linkLock' = [t \in Token |-> IF linkLock[t] = r THEN NoRequest ELSE linkLock[t]]
        /\ pc' = [pc EXCEPT ![r] = "idle"] /\ who' = [who EXCEPT ![r] = NoEmail]
        /\ \A q \in Request : q # r => todo'[q] = todo[q]
        /\ raced' = IF \E q \in Request : pc[q] \in {"resend", "resend_rows"} /\ who[q] = a
                    THEN raced \cup {a} ELSE raced
    BY <1>13, <2>0 DEF VerifyCommit
  <2>2. \A t \in Token : link'[t] = "live" => link[t] = "live" /\ linkLock[t] # r
    BY <2>1
  <2>3. \A e \in Email : LiveLinks(e)' \subseteq LiveLinks(e)
    BY <2>1, <2>2
  <2>4. ASSUME NEW e \in Email, e # a PROVE VerifiedByLink(e)' <=> VerifiedByLink(e)
    <3>1. \A t \in Token : linkOf[t] = e => t # tok[r] /\ linkLock[t] # r
      BY <1>a, <2>0, <2>1, <2>4
    <3>2. \A t \in Token : linkOf[t] = e => link'[t] = link[t]
      BY <2>1, <3>1
    <3>3. linkOf' = linkOf
      BY <2>1
    <3> HIDE DEF IInv, UnverifiedHasLink, TypeOK, Placed, Linked, Held, Single, LinksAreSpentOnce
    <3> QED
      BY <3>2, <3>3
  <2>5. ASSUME NEW e \in Email \ raced', e # a
        PROVE  /\ \A s, t \in LiveLinks(e)' : s = t
               /\ (users[e] = "none" \/ VerifiedByLink(e) => LiveLinks(e) = {})'
    <3>1. e \notin raced /\ users'[e] = users[e]
      BY <2>1, <2>5
    <3> QED
      BY <2>3, <2>5, <2>4, <3>1
  <2>6. ASSUME NEW e \in Email \ raced', e # a, NEW q \in Request, who'[q] = e
        PROVE  /\ pc'[q] \in {"resend", "resend_rows"} => users'[e] # "none" /\ ~VerifiedByLink(e)'
               /\ pc'[q] = "resend_rows" =>
                    /\ \A p \in Request : who'[p] = e /\ pc'[p] = "resend_rows" => p = q
                    /\ \A t \in LiveLinks(e)' : t \in todo'[q] \/ linkLock'[t] = q
    <3>1. q # r /\ who[q] = e /\ pc'[q] = pc[q] /\ todo'[q] = todo[q]
      BY <2>1, <2>6
    <3>2. e \notin raced /\ users'[e] = users[e]
      BY <2>1, <2>6
    <3>3. \A p \in Request : who'[p] = e /\ pc'[p] = "resend_rows" => who[p] = e /\ pc[p] = "resend_rows"
      BY <2>1
    <3>4. \A t \in Token : linkLock[t] = q => linkLock'[t] = q
      BY <2>1, <3>1
    <3>5. pc[q] = "resend_rows" =>
            /\ \A p \in Request : who[p] = e /\ pc[p] = "resend_rows" => p = q
            /\ \A t \in LiveLinks(e) : t \in todo[q] \/ linkLock[t] = q
      BY <1>c, <3>1, <3>2
    <3>6. pc[q] \in {"resend", "resend_rows"} => users[e] # "none" /\ ~VerifiedByLink(e)
      BY <1>c, <3>1, <3>2
    <3>7. LiveLinks(e)' \subseteq LiveLinks(e) /\ LiveLinks(e)' \subseteq Token
      BY <2>3
    <3>8. VerifiedByLink(e)' <=> VerifiedByLink(e)
      BY <2>4, <2>6
    <3> HIDE DEF IInv, UnverifiedHasLink, TypeOK, Placed, Linked, Held, Single, LinksAreSpentOnce, LiveLinks, VerifiedByLink
    <3> QED
      BY <3>1, <3>2, <3>3, <3>4, <3>5, <3>6, <3>7, <3>8
  <2>7. ASSUME a \notin raced'
        PROVE  /\ LiveLinks(a)' = {}
               /\ \A q \in Request : who'[q] = a => pc'[q] \notin {"resend", "resend_rows"}
    <3>1. a \notin raced /\ \A q \in Request : who[q] = a => pc[q] \notin {"resend", "resend_rows"}
      BY <2>1, <2>7
    <3>2. \A t \in LiveLinks(a) : t = tok[r]
      BY <1>13, <2>0, <2>1, <3>1 DEF VerifyCommit
    <3>3. link'[tok[r]] # "live"
      BY <2>1
    <3> QED
      BY <2>1, <2>3, <3>1, <3>2, <3>3
  <2> SUFFICES ASSUME NEW e \in Email \ raced'
               PROVE  /\ \A s, t \in LiveLinks(e)' : s = t
                      /\ (users[e] = "none" \/ VerifiedByLink(e) => LiveLinks(e) = {})'
                      /\ \A q \in Request : who'[q] = e =>
                           /\ pc'[q] \in {"resend", "resend_rows"} => users'[e] # "none" /\ ~VerifiedByLink(e)'
                           /\ pc'[q] = "resend_rows" =>
                                /\ \A p \in Request : who'[p] = e /\ pc'[p] = "resend_rows" => p = q
                                /\ \A t \in LiveLinks(e)' : t \in todo'[q] \/ linkLock'[t] = q
    OBVIOUS
  <2>8. CASE e = a
    <3>1. a \notin raced'
      BY <2>8
    <3>2. /\ LiveLinks(a)' = {}
          /\ \A q \in Request : who'[q] = a => pc'[q] \notin {"resend", "resend_rows"}
      BY <2>7, <3>1
    <3>3. LiveLinks(e)' = {}
      BY <2>8, <3>2
    <3>4. \A q \in Request : who'[q] = e => pc'[q] \notin {"resend", "resend_rows"}
      BY <2>8, <3>2
    <3> QED
      BY <3>3, <3>4
  <2>9. CASE e # a
    <3>1. \A q \in Request : who'[q] = e =>
            /\ pc'[q] \in {"resend", "resend_rows"} => users'[e] # "none" /\ ~VerifiedByLink(e)'
            /\ pc'[q] = "resend_rows" =>
                 /\ \A p \in Request : who'[p] = e /\ pc'[p] = "resend_rows" => p = q
                 /\ \A t \in LiveLinks(e)' : t \in todo'[q] \/ linkLock'[t] = q
      BY <2>6, <2>9
    <3> QED
      BY <2>5, <2>9, <3>1
  <2> QED
    BY <2>8, <2>9
<1>14. ASSUME NEW r \in Request, Mail(r) PROVE Single'
  BY <1>14 DEF Mail
<1>15. ASSUME NEW r \in Request, Fail(r) PROVE Single'
  BY <1>15 DEF Fail
<1>16. ASSUME NEW r \in Request, NEW e \in Email, AcceptUser(r, e) PROVE Single'
  BY <1>16 DEF AcceptUser
<1>17. ASSUME NEW r \in Request, AcceptCommit(r) PROVE Single'
  BY <1>17 DEF AcceptCommit
<1>18. CASE UNCHANGED vars
  BY <1>18 DEF vars
<1> HIDE DEF IInv, UnverifiedHasLink, TypeOK, Placed, Linked, Held, Single, LinksAreSpentOnce
<1> QED
  BY <1>1, <1>2, <1>3, <1>4, <1>5, <1>6, <1>7, <1>8, <1>9, <1>10, <1>11, <1>12, <1>13, <1>14, <1>15, <1>16, <1>17, <1>18 DEF Next

(* What the theorems below rest on, in every reachable state. *)
THEOREM Inductive == Spec => []IInv
<1>1. IInv /\ [Next]_vars => IInv'
  BY TypeStep, PlacedStep, LinkedStep, SpentStep, HasLinkStep, HeldStep, SingleStep DEF IInv
<1> QED
  BY <1>1, InitInv, PTL DEF Spec

-----------------------------------------------------------------------------
(* verifyEmail opens one session for a link, whatever runs beside it, and  *)
(* an address is verified by one of its own links or by an invitation that *)
(* acceptInvitation accepted, and in no other way.                         *)
THEOREM SpentOnce == Spec => []LinksAreSpentOnce
<1>1. IInv => LinksAreSpentOnce
  BY DEF IInv
<1> QED
  BY <1>1, Inductive, PTL

(* resendVerification never leaves an unverified address without a link.   *)
THEOREM HasLink == Spec => []UnverifiedHasLink
<1>1. IInv => UnverifiedHasLink
  BY DEF IInv
<1> QED
  BY <1>1, Inductive, PTL

(* Unless a resend met another one, or a verification, an address has one  *)
(* working link while it is unverified, never two, and none before it      *)
(* registers or after a link of it was used.  (An accepted invitation      *)
(* leaves the one there is.)                                               *)
THEOREM OneLink == Spec => []OneLinkUnlessRaced
<1>1. ASSUME IInv, NEW e \in Email \ raced
      PROVE  /\ Cardinality(LiveLinks(e)) <= 1
             /\ users[e] = "unverified" => Cardinality(LiveLinks(e)) = 1
             /\ users[e] = "none" \/ VerifiedByLink(e) => LiveLinks(e) = {}
  <2>1. users[e] = "none" \/ VerifiedByLink(e) => LiveLinks(e) = {}
    BY <1>1 DEF IInv, Single
  <2>2. users[e] = "unverified" => LiveLinks(e) # {}
    BY <1>1 DEF IInv, UnverifiedHasLink
  <2>3. CASE LiveLinks(e) = {}
    BY <2>1, <2>2, <2>3, FS_EmptySet
  <2>4. CASE LiveLinks(e) # {}
    <3>1. PICK t \in LiveLinks(e) : TRUE
      BY <2>4
    <3>2. LiveLinks(e) = {t}
      BY <1>1, <3>1 DEF IInv, Single
    <3>3. Cardinality(LiveLinks(e)) = 1
      BY <3>2, FS_Singleton
    <3> QED
      BY <2>1, <3>3
  <2> QED
    BY <2>3, <2>4
<1>2. IInv => OneLinkUnlessRaced
  BY <1>1 DEF OneLinkUnlessRaced
<1> QED
  BY <1>2, Inductive, PTL

(* Two links of an address that work are more than one. *)
LEMMA TwoLinks ==
    ASSUME IInv, NEW e \in Email, NEW s \in LiveLinks(e), NEW t \in LiveLinks(e), s # t
    PROVE  Cardinality(LiveLinks(e)) > 1
<1>1. LiveLinks(e) \subseteq {u \in Token : linkOf[u] # NoEmail}
  BY NullAssumption DEF LiveLinks, Links
<1>2. IsFiniteSet(LiveLinks(e)) /\ Cardinality(LiveLinks(e)) \in Nat
  BY <1>1, FS_Subset, FS_CardinalityType DEF IInv, Held
<1>3. Cardinality(LiveLinks(e)) # 0
  BY <1>2, FS_EmptySet
<1>4. Cardinality(LiveLinks(e)) # 1
  BY <1>2, FS_Singleton
<1> QED
  BY <1>2, <1>3, <1>4

(* A verification that still has a row to revoke has found a second link. *)
LEMMA RowsAreOthers ==
    ASSUME IInv, NEW r \in Request, pc[r] = "verify_rows", todo[r] # {}
    PROVE  Cardinality(LiveLinks(who[r])) > 1
<1>1. who[r] \in Email /\ tok[r] \in LiveLinks(who[r])
  BY DEF IInv, Placed, Verifying, Links, LiveLinks
<1>2. PICK t \in todo[r] : t \in LiveLinks(who[r]) /\ t # tok[r]
  BY DEF IInv, Held
<1> QED
  BY <1>1, <1>2, TwoLinks

(* Whoever waits for a user waits for a verification or an insert of it. *)
LEMMA WaitsForUser ==
    ASSUME IInv, NEW r \in Request, NEW q \in WaitsFor(r), q \in Request,
           pc[r] = "verify_user" \/ (pc[r] = "resend_rows" /\ todo[r] = {})
    PROVE  pc[q] \in Owning
<1>1. q = userLock[who[r]] /\ who[r] \in Email
  BY DEF IInv, Placed, Scanning, WaitsFor
<1> QED
  BY <1>1 DEF IInv, Held

(* Whoever waits for a link waits for its holder. *)
LEMMA WaitsForLink ==
    ASSUME IInv, NEW r \in Request, NEW q \in WaitsFor(r), q \in Request,
           pc[r] # "verify_user", ~(pc[r] = "resend_rows" /\ todo[r] = {})
    PROVE  \/ pc[r] = "verify_link" /\ linkLock[tok[r]] = q /\ tok[r] \in Token
           \/ pc[r] \in Scanning /\ \E t \in todo[r] : t \in Token /\ linkLock[t] = q /\ q # r
<1>1. pc[r] = "verify_link" => tok[r] \in Token
  BY DEF IInv, Placed, Verifying
<1>2. todo[r] \subseteq Token /\ (todo[r] # {} => pc[r] \in Scanning)
  BY DEF IInv, UnverifiedHasLink, TypeOK, Placed
<1> QED
  BY <1>1, <1>2 DEF WaitsFor

(* With one working link the locks of an address are taken in one order,   *)
(* link before user: a circle of waiting requests needs a second link.     *)
THEOREM Circle == Spec => []CircleNeedsTwoLinks
<1>1. ASSUME IInv, NEW S \in (SUBSET Request) \ {{}},
             \A r \in S : WaitsFor(r) # {} /\ WaitsFor(r) \subseteq S
      PROVE  \E r \in S : Cardinality(LiveLinks(who[r])) > 1
  <2>1. \A r \in S : pc[r] = "register" => WaitsFor(r) = {}
    BY <1>1 DEF IInv, Placed, Scanning, WaitsFor
  <2>2. \A r \in S : pc[r] \in {"verify", "accept"} => WaitsFor(r) = {}
    BY <1>1 DEF IInv, Placed, Scanning, WaitsFor
  <2>3. CASE \E r \in S : pc[r] \in Owning
    <3>1. PICK r \in S : pc[r] = "verify_rows"
      BY <1>1, <2>1, <2>2, <2>3 DEF Owning
    <3>2. todo[r] # {}
      BY <1>1, <3>1 DEF WaitsFor
    <3> QED
      BY <1>1, <3>1, <3>2, RowsAreOthers
  <2>4. CASE ~ \E r \in S : pc[r] \in Owning
    <3>1. \A r \in S : pc[r] # "verify_user" /\ ~(pc[r] = "resend_rows" /\ todo[r] = {})
      BY <1>1, <2>4, WaitsForUser
    <3>2. \A r \in S : \A q \in WaitsFor(r) :
            pc[q] = "resend_rows" /\ \E t \in Token : linkLock[t] = q
      <4> SUFFICES ASSUME NEW r \in S, NEW q \in WaitsFor(r)
                   PROVE  pc[q] = "resend_rows" /\ \E t \in Token : linkLock[t] = q
        OBVIOUS
      <4>1. q \in S /\ \E t \in Token : linkLock[t] = q
        BY <1>1, <3>1, WaitsForLink
      <4>2. pc[q] \in Scanning \cup {"verify_user", "verify"}
        BY <1>1, <4>1 DEF IInv, Linked
      <4> QED
        BY <2>4, <3>1, <4>1, <4>2 DEF Scanning, Owning
    <3>3. PICK r \in S : pc[r] = "resend_rows" /\ \E t \in Token : linkLock[t] = r
      BY <1>1, <3>2
    <3>4. PICK s \in Token : linkLock[s] = r
      BY <3>3
    <3>5. PICK q \in WaitsFor(r) : TRUE
      BY <1>1
    <3>6. PICK t \in todo[r] : t \in Token /\ linkLock[t] = q /\ q # r
      BY <1>1, <3>1, <3>3, <3>5, WaitsForLink
    <3>7. q \in Request /\ pc[q] = "resend_rows"
      BY <1>1, <3>2, <3>5
    <3>8. who[r] \in Email /\ s \in LiveLinks(who[r])
      BY <1>1, <3>3, <3>4 DEF IInv, Placed, Linked, Links, LiveLinks
    <3>9. t \in LiveLinks(who[r])
      BY <1>1, <3>3, <3>6, <3>7 DEF IInv, Placed, Linked, Links, LiveLinks
    <3> QED
      BY <1>1, <3>4, <3>6, <3>8, <3>9, TwoLinks
  <2> QED
    BY <2>3, <2>4
<1>2. IInv => CircleNeedsTwoLinks
  BY <1>1 DEF CircleNeedsTwoLinks
<1> QED
  BY <1>2, Inductive, PTL

=============================================================================
