-------------------------- MODULE JobRankingProofs --------------------------
(* What TLAPS proves about JobRanking, for any lists, candidates, runs and *)
(* requests.                                                               *)
EXTENDS JobRanking, SequenceTheorems, TLAPS

(* The initial states satisfy the inductive invariant. *)
LEMMA InitIInv == Init => IInv
<1> SUFFICES ASSUME Init PROVE IInv
    OBVIOUS
<1>1. TypeOK
    BY ListAssumption, VersionAssumption, SMTT(20) DEF Init, TypeOK
<1>2. RankingInv /\ LockInv /\ SnapshotFaithful
    BY DEF Init, RankingInv, LockInv, SnapshotFaithful
<1> QED BY <1>1, <1>2 DEF IInv

(* Appending a version keeps versions a function from 1..current. *)
LEMMA PutVersion ==
    ASSUME NEW n \in Nat, NEW l \in List, NEW f \in [1..n -> List]
    PROVE  Put(f, n + 1, l) \in [1..(n + 1) -> List]
<1>1. (1..n) \cup {n + 1} = 1..(n + 1)
    OBVIOUS
<1> QED BY <1>1 DEF Put

(* Ending a request keeps the types and leaves the others alone. *)
LEMMA EndRequestFacts ==
    ASSUME TypeOK, NEW r \in Request, EndRequest(r)
    PROVE  /\ jobLock' \in Request \cup {NoRequest}
           /\ pc' \in [Request -> {"idle", "find", "insert", "requirements",
                                   "candidates", "score", "persist"}]
           /\ seen' \in [Request -> 0..MaxVersion]
           /\ list' \in [Request -> List]
           /\ cands' \in [Request -> SUBSET Candidate]
           /\ pc'[r] = "idle"
           /\ \A q \in Request \ {r} :
                /\ pc'[q] = pc[q] /\ seen'[q] = seen[q]
                /\ list'[q] = list[q] /\ cands'[q] = cands[q]
                /\ jobLock = q => jobLock' = q
BY ListAssumption, VersionAssumption, RequestAssumption DEF TypeOK, EndRequest

(* A step keeps the types. *)
LEMMA TypeStep == IInv /\ [Next]_vars => TypeOK'
<1> SUFFICES ASSUME IInv, [Next]_vars PROVE TypeOK'
    OBVIOUS
<1> TypeOK /\ RankingInv /\ LockInv
    BY DEF IInv
<1>1. CASE UNCHANGED vars
    BY <1>1 DEF vars, job, locals, TypeOK
<1>2. ASSUME NEW l \in List, CreateJob(l) PROVE TypeOK'
    <2>1. versions \in [1..0 -> List] /\ versions' = Put(versions, 0 + 1, l)
        BY <1>2 DEF CreateJob, TypeOK
    <2>2. versions' \in [1..(0 + 1) -> List]
        BY <2>1, PutVersion
    <2> QED BY <1>2, <2>2, VersionAssumption DEF CreateJob, TypeOK, locals
<1>3. ASSUME NEW c \in Candidate, Attach(c) PROVE TypeOK'
    BY <1>3 DEF Attach, TypeOK, locals
<1>4. ASSUME NEW r \in Request,
             \/ \E l \in List : ReplaceBegin(r, l)
             \/ RankBegin(r)
      PROVE TypeOK'
    <2>1. UNCHANGED <<job, jobLock, cands>> /\ current \in 0..MaxVersion
        BY <1>4 DEF ReplaceBegin, RankBegin, TypeOK
    <2>2. pc' \in [Request -> {"idle", "find", "insert", "requirements",
                              "candidates", "score", "persist"}]
        BY <1>4 DEF ReplaceBegin, RankBegin, TypeOK
    <2>3. seen' \in [Request -> 0..MaxVersion]
        BY <1>4, <2>1 DEF ReplaceBegin, RankBegin, TypeOK
    <2>4. list' \in [Request -> List]
        BY <1>4 DEF ReplaceBegin, RankBegin, TypeOK
    <2> QED BY <2>1, <2>2, <2>3, <2>4 DEF TypeOK, job
<1>5. ASSUME NEW r \in Request, Reject(r) PROVE TypeOK'
    BY <1>5, EndRequestFacts DEF Reject, TypeOK, job
<1>6. ASSUME NEW r \in Request, ReplaceFind(r) PROVE TypeOK'
    BY <1>6 DEF ReplaceFind, TypeOK, job
<1>7. ASSUME NEW r \in Request, ReplaceCommit(r) PROVE TypeOK'
    <2>1. /\ seen[r] = current /\ current \in Nat
          /\ list[r] \in List /\ versions \in [1..current -> List]
        BY <1>7, VersionAssumption DEF LockInv, ReplaceCommit, TypeOK
    <2>2. versions' \in [1..current' -> List]
        BY <1>7, <2>1, PutVersion DEF ReplaceCommit
    <2>3. current' \in 0..MaxVersion
        BY <1>7, VersionAssumption DEF ReplaceCommit
    <2>4. EndRequest(r)
        BY <1>7 DEF ReplaceCommit
    <2> QED BY <1>7, <2>2, <2>3, <2>4, EndRequestFacts DEF ReplaceCommit, TypeOK
<1>8. ASSUME NEW r \in Request, RankRequirements(r) PROVE TypeOK'
    BY <1>8 DEF RankRequirements, RankingInv, TypeOK, job
<1>9. ASSUME NEW r \in Request, RankCandidates(r) \/ RankScored(r) PROVE TypeOK'
    BY <1>9 DEF RankCandidates, RankScored, TypeOK, job
<1>10. ASSUME NEW r \in Request, NEW n \in Run, RankPersist(r, n) PROVE TypeOK'
    <2> DEFINE row == [version |-> seen[r], list |-> list[r], ranked |-> cands[r]]
    <2>1. seen[r] \in 1..current /\ current \in 0..MaxVersion
        BY <1>10 DEF RankPersist, RankingInv, TypeOK
    <2>2. row \in RunRow
        BY <2>1, VersionAssumption DEF RunRow, TypeOK
    <2>3. PICK N \in SUBSET Run : runs \in [N -> RunRow]
        BY DEF TypeOK
    <2>4. runs' \in [N \cup {n} -> RunRow]
        BY <1>10, <2>2, <2>3 DEF RankPersist, Put
    <2>5. \E M \in SUBSET Run : runs' \in [M -> RunRow]
        BY <2>4
    <2>6. EndRequest(r)
        BY <1>10 DEF RankPersist
    <2> QED BY <1>10, <2>5, <2>6, EndRequestFacts DEF RankPersist, TypeOK
<1> QED BY <1>1, <1>2, <1>3, <1>4, <1>5, <1>6, <1>7, <1>8, <1>9, <1>10
        DEF Next, RequestStep, Fail, ReplaceNotFound, RankNothing

-----------------------------------------------------------------------------
(* Nothing that is in the tables is changed or taken away. *)
LEMMA HistoryKept ==
    ASSUME IInv, [Next]_vars
    PROVE  /\ current \in Nat /\ current' \in Nat /\ current <= current'
           /\ \A v \in 1..current : versions'[v] = versions[v]
           /\ attached \subseteq attached'
           /\ \A n \in DOMAIN runs : n \in DOMAIN runs' /\ runs'[n] = runs[n]
<1> TypeOK /\ LockInv /\ current \in Nat
    BY VersionAssumption DEF IInv, TypeOK
<1>1. CASE UNCHANGED job
    BY <1>1 DEF job
<1>2. ASSUME NEW l \in List, CreateJob(l)
      PROVE  /\ current' \in Nat /\ current <= current'
             /\ \A v \in 1..current : versions'[v] = versions[v]
             /\ attached' = attached /\ runs' = runs
    BY <1>2 DEF CreateJob
<1>3. ASSUME NEW c \in Candidate, Attach(c)
      PROVE  /\ current' = current /\ versions' = versions
             /\ attached \subseteq attached' /\ runs' = runs
    BY <1>3 DEF Attach
<1>4. ASSUME NEW r \in Request, ReplaceCommit(r)
      PROVE  /\ current' \in Nat /\ current <= current'
             /\ \A v \in 1..current : versions'[v] = versions[v]
             /\ attached' = attached /\ runs' = runs
    <2>1. seen[r] = current /\ current' = current + 1
          /\ versions' = Put(versions, current + 1, list[r])
        BY <1>4 DEF ReplaceCommit, LockInv
    <2>2. \A v \in 1..current : v \in DOMAIN versions /\ v # current + 1
        BY DEF TypeOK
    <2>3. \A v \in 1..current : versions'[v] = versions[v]
        BY <2>1, <2>2 DEF Put
    <2> QED BY <1>4, <2>1, <2>3 DEF ReplaceCommit
<1>5. ASSUME NEW r \in Request, NEW n \in Run, RankPersist(r, n)
      PROVE  /\ current' = current /\ versions' = versions /\ attached' = attached
             /\ \A k \in DOMAIN runs : k \in DOMAIN runs' /\ runs'[k] = runs[k]
    BY <1>5 DEF RankPersist, Put
<1> QED BY <1>1, <1>2, <1>3, <1>4, <1>5
        DEF Next, RequestStep, Fail, Reject, ReplaceBegin, RankBegin,
            ReplaceNotFound, ReplaceFind, RankNothing, RankRequirements,
            RankCandidates, RankScored, vars

(* A ranking under way keeps what it has read: versions and candidates are *)
(* only added to.                                                          *)
LEMMA RankingKept ==
    ASSUME IInv, [Next]_vars, NEW q \in Request,
           pc'[q] = pc[q], seen'[q] = seen[q], list'[q] = list[q], cands'[q] = cands[q]
    PROVE  /\ pc'[q] \in {"requirements", "candidates", "score", "persist"} =>
                seen'[q] \in 1..current'
           /\ pc'[q] \in {"candidates", "score", "persist"} =>
                list'[q] = versions'[seen'[q]]
           /\ pc'[q] \in {"score", "persist"} =>
                cands'[q] # {} /\ cands'[q] \subseteq attached'
BY HistoryKept DEF IInv, RankingInv

(* A step keeps RankingInv. *)
LEMMA RankingStep == IInv /\ [Next]_vars => RankingInv'
<1> SUFFICES ASSUME IInv, [Next]_vars PROVE RankingInv'
    OBVIOUS
<1> TypeOK /\ RankingInv /\ LockInv
    BY DEF IInv
<1>1. CASE UNCHANGED locals
    BY <1>1, RankingKept DEF RankingInv, locals
<1>2. ASSUME NEW r \in Request, EndRequest(r) PROVE RankingInv'
    BY <1>2, EndRequestFacts, RankingKept DEF RankingInv
<1>3. ASSUME NEW r \in Request, NEW l \in List, ReplaceBegin(r, l) PROVE RankingInv'
    BY <1>3, RankingKept DEF RankingInv, ReplaceBegin, TypeOK
<1>4. ASSUME NEW r \in Request, RankBegin(r) PROVE RankingInv'
    <2>1. seen'[r] \in 1..current' /\ pc'[r] = "requirements"
        BY <1>4, VersionAssumption DEF RankBegin, TypeOK, job
    <2> QED BY <1>4, <2>1, RankingKept DEF RankingInv, RankBegin, TypeOK
<1>5. ASSUME NEW r \in Request, ReplaceFind(r) PROVE RankingInv'
    BY <1>5, RankingKept DEF RankingInv, ReplaceFind, TypeOK
<1>6. ASSUME NEW r \in Request, RankRequirements(r) PROVE RankingInv'
    <2>1. /\ pc'[r] = "candidates" /\ seen'[r] \in 1..current'
          /\ list'[r] = versions'[seen'[r]]
        BY <1>6 DEF RankRequirements, RankingInv, TypeOK, job
    <2> QED BY <1>6, <2>1, RankingKept DEF RankingInv, RankRequirements, TypeOK
<1>7. ASSUME NEW r \in Request, RankCandidates(r) PROVE RankingInv'
    BY <1>7, RankingKept DEF RankingInv, RankCandidates, TypeOK, job
<1>8. ASSUME NEW r \in Request, RankScored(r) PROVE RankingInv'
    BY <1>8, RankingKept DEF RankingInv, RankScored, TypeOK, job
<1> QED BY <1>1, <1>2, <1>3, <1>4, <1>5, <1>6, <1>7, <1>8
        DEF Next, RequestStep, Fail, Reject, CreateJob, Attach,
            ReplaceNotFound, ReplaceCommit, RankNothing, RankPersist, vars

(* A step keeps LockInv: the job of a lock holder does not change. *)
LEMMA LockStep == IInv /\ [Next]_vars => LockInv'
<1> SUFFICES ASSUME IInv, [Next]_vars PROVE LockInv'
    OBVIOUS
<1> TypeOK /\ LockInv
    BY DEF IInv
<1>1. CASE UNCHANGED vars
    BY <1>1 DEF LockInv, vars, job, locals
<1>2. ASSUME NEW l \in List, CreateJob(l) PROVE LockInv'
    BY <1>2 DEF LockInv, CreateJob, locals
<1>3. ASSUME NEW c \in Candidate, Attach(c) PROVE LockInv'
    BY <1>3 DEF LockInv, Attach, locals
<1>4. ASSUME NEW r \in Request, EndRequest(r), UNCHANGED current PROVE LockInv'
    BY <1>4, EndRequestFacts DEF LockInv
<1>5. ASSUME NEW r \in Request, ReplaceCommit(r) PROVE LockInv'
    <2>1. jobLock = r /\ EndRequest(r)
        BY <1>5 DEF LockInv, ReplaceCommit
    <2>2. \A q \in Request : pc'[q] # "insert"
        BY <2>1, EndRequestFacts DEF LockInv
    <2> QED BY <2>2 DEF LockInv
<1>6. ASSUME NEW r \in Request, ReplaceFind(r) PROVE LockInv'
    BY <1>6, RequestAssumption DEF LockInv, ReplaceFind, TypeOK, job
<1>7. ASSUME NEW r \in Request,
             \/ \E l \in List : ReplaceBegin(r, l)
             \/ RankBegin(r) \/ RankRequirements(r) \/ RankCandidates(r) \/ RankScored(r)
      PROVE LockInv'
    BY <1>7 DEF LockInv, ReplaceBegin, RankBegin, RankRequirements, RankCandidates,
                RankScored, TypeOK, job
<1> QED BY <1>1, <1>2, <1>3, <1>4, <1>5, <1>6, <1>7
        DEF Next, RequestStep, Fail, Reject, ReplaceNotFound, RankNothing,
            RankPersist, job

(* A step keeps SnapshotFaithful: a run is written with what the request   *)
(* read, and what it read is still so.                                     *)
LEMMA SnapshotStep == IInv /\ [Next]_vars => SnapshotFaithful'
<1> SUFFICES ASSUME IInv, [Next]_vars, NEW n \in DOMAIN runs'
             PROVE  /\ runs'[n].version \in DOMAIN versions'
                    /\ runs'[n].list = versions'[runs'[n].version]
                    /\ runs'[n].ranked \subseteq attached'
    BY DEF SnapshotFaithful
<1> TypeOK /\ RankingInv /\ SnapshotFaithful
    BY DEF IInv
<1>1. DOMAIN versions = 1..current /\ DOMAIN versions' = 1..current'
    BY TypeStep DEF TypeOK
<1>2. CASE n \in DOMAIN runs
    BY <1>1, <1>2, HistoryKept DEF SnapshotFaithful
<1>3. CASE n \notin DOMAIN runs
    <2>1. runs' # runs
        BY <1>3
    <2>2. PICK r \in Request, k \in Run : RankPersist(r, k)
        BY <2>1 DEF Next, RequestStep, Fail, Reject, CreateJob, Attach,
                    ReplaceBegin, RankBegin, ReplaceNotFound, ReplaceFind,
                    ReplaceCommit, RankNothing, RankRequirements,
                    RankCandidates, RankScored, vars, job
    <2>3. n = k /\ runs'[n] = [version |-> seen[r], list |-> list[r], ranked |-> cands[r]]
        BY <1>3, <2>2 DEF RankPersist, Put
    <2>4. /\ seen[r] \in 1..current /\ list[r] = versions[seen[r]]
          /\ cands[r] \subseteq attached
        BY <2>2 DEF RankPersist, RankingInv
    <2> QED BY <1>1, <2>2, <2>3, <2>4 DEF RankPersist
<1> QED BY <1>2, <1>3

(* What the theorems below rest on, in every reachable state. *)
LEMMA Invariance == Spec => []IInv
<1>1. IInv /\ [Next]_vars => IInv'
    BY TypeStep, RankingStep, LockStep, SnapshotStep DEF IInv
<1> QED BY InitIInv, <1>1, PTL DEF Spec

-----------------------------------------------------------------------------
(* The tables and the requests always have their types. *)
THEOREM TypeCorrect == Spec => []TypeOK
BY Invariance, PTL DEF IInv

(* Every ranking run carries the requirements of the version it names,     *)
(* whatever ran between the statements that read them.                     *)
THEOREM SnapshotCorrect == Spec => []SnapshotFaithful
BY Invariance, PTL DEF IInv

(* The version number a request computes is free when it inserts. *)
THEOREM VersionsNumbered == Spec => []VersionNumberFree
<1>1. IInv => VersionNumberFree
    <2> SUFFICES ASSUME IInv, NEW r \in Request, pc[r] = "insert"
                 PROVE  seen[r] + 1 \notin DOMAIN versions
        BY DEF VersionNumberFree
    <2> QED BY VersionAssumption DEF IInv, LockInv, TypeOK
<1> QED BY Invariance, <1>1, PTL

(* Functions that agree everywhere on their common domain are equal. *)
LEMMA SameFunction ==
    ASSUME NEW D, NEW S, NEW f \in [D -> S], NEW g \in [D -> S],
           \A x \in D : f[x] = g[x]
    PROVE  f = g
OBVIOUS

(* A version put after the last one is appended. *)
LEMMA PutAppends ==
    ASSUME NEW n \in Nat, NEW f \in [1..n -> List], NEW l \in List
    PROVE  Put(f, n + 1, l) = Append(f, l)
<1>1. f \in Seq(List) /\ Len(f) = n
    OBVIOUS
<1>2. /\ Append(f, l) \in Seq(List) /\ Len(Append(f, l)) = n + 1
      /\ \A v \in 1..n : Append(f, l)[v] = f[v]
      /\ Append(f, l)[n + 1] = l
    BY <1>1, AppendProperties
<1>3. Append(f, l) \in [1..(n + 1) -> List]
    BY <1>2, LenProperties
<1>4. \A v \in 1..(n + 1) : Put(f, n + 1, l)[v] = Append(f, l)[v]
    BY <1>1, <1>2 DEF Put
<1>5. Put(f, n + 1, l) \in [1..(n + 1) -> List]
    BY PutVersion
<1> QED BY <1>3, <1>4, <1>5, SameFunction

(* A step of the job is a step of RankingHistory or leaves it alone. *)
LEMMA HistoryStep ==
    ASSUME IInv, [Next]_vars
    PROVE  History!Next \/ UNCHANGED <<versions, runs>>
<1> TypeOK /\ RankingInv /\ LockInv /\ current \in Nat
    BY VersionAssumption DEF IInv, TypeOK
<1>1. CASE UNCHANGED <<versions, runs>>
    BY <1>1
<1>2. ASSUME NEW l \in List, CreateJob(l) PROVE History!Next
    <2>1. versions \in [1..0 -> List] /\ versions' = Put(versions, 0 + 1, l)
        BY <1>2 DEF CreateJob, TypeOK
    <2>2. versions' = Append(versions, l)
        BY <2>1, PutAppends
    <2> QED BY <1>2, <2>2 DEF CreateJob, History!Next, History!Publish
<1>3. ASSUME NEW r \in Request, ReplaceCommit(r) PROVE History!Next
    <2>1. /\ versions \in [1..current -> List] /\ list[r] \in List
          /\ versions' = Put(versions, current + 1, list[r])
        BY <1>3 DEF ReplaceCommit, LockInv, TypeOK
    <2>2. versions' = Append(versions, list[r])
        BY <2>1, PutAppends
    <2> QED BY <1>3, <2>1, <2>2 DEF ReplaceCommit, History!Next, History!Publish
<1>4. ASSUME NEW r \in Request, NEW n \in Run, RankPersist(r, n) PROVE History!Next
    <2>1. /\ seen[r] \in DOMAIN versions /\ list[r] = versions[seen[r]]
          /\ cands[r] \in (SUBSET Candidate) \ {{}}
        BY <1>4 DEF RankPersist, RankingInv, TypeOK
    <2>2. History!Record(n, seen[r], cands[r])
        BY <1>4, <2>1 DEF RankPersist, History!Record, Put
    <2> QED BY <2>1, <2>2 DEF History!Next
<1> QED BY <1>1, <1>2, <1>3, <1>4
        DEF Next, RequestStep, Fail, Reject, Attach, ReplaceBegin, RankBegin,
            ReplaceNotFound, ReplaceFind, RankNothing, RankRequirements,
            RankCandidates, RankScored, vars, job

(* The tables of a job implement RankingHistory. *)
THEOREM Refinement == Spec => ImplementsHistory
<1>1. Init => History!Init
    BY DEF Init, History!Init
<1>2. IInv /\ [Next]_vars => [History!Next]_(History!vars)
    BY HistoryStep DEF History!vars
<1> QED BY Invariance, <1>1, <1>2, PTL DEF Spec, ImplementsHistory, History!Spec

=============================================================================
