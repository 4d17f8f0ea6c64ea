----------------------------- MODULE JobRanking -----------------------------
(***************************************************************************)
(* One job: its versions (backend/internal/job create, replaceRequirements)*)
(* and its ranking runs (backend/internal/ranking create), as concurrent   *)
(* requests.  A ranking reads version, requirements and candidates by      *)
(* separate statements outside any transaction, waits for the AI service   *)
(* and then writes the run in one transaction.                             *)
(***************************************************************************)
EXTENDS Naturals

CONSTANTS
    List,         \* requirement lists; each holds a valid requirement but
    Empty,        \* this one, which parsing a description can yield
    Candidate,
    Run,          \* ids of ranking_runs rows
    Request,
    MaxVersion,   \* bound on the versions of the job
    NoRequest

ASSUME ListAssumption == Empty \in List
ASSUME VersionAssumption == MaxVersion \in Nat \ {0}
ASSUME RequestAssumption == NoRequest \notin Request

VARIABLES
    current,      \* jobs.current_version; 0 while there is no job
    versions,     \* job_versions with their job_requirements, by version
    attached,     \* job_candidates whose resume is ready
    runs,         \* ranking_runs with their ranking_results, by id
    jobLock,
    \* each request: where it is, the version its first statement saw, the
    \* requirements to write or to rank against, the candidates to rank
    pc, seen, list, cands

job    == <<current, versions, attached, runs>>
locals == <<pc, seen, list, cands>>
vars   == <<job, jobLock, locals>>

RunRow == [version : 1..MaxVersion, list : List, ranked : SUBSET Candidate]

TypeOK ==
    /\ current \in 0..MaxVersion
    /\ versions \in [1..current -> List]
    /\ attached \subseteq Candidate
    /\ \E N \in SUBSET Run : runs \in [N -> RunRow]
    /\ jobLock \in Request \cup {NoRequest}
    /\ pc \in [Request -> {"idle", "find", "insert", "requirements",
                           "candidates", "score", "persist"}]
    /\ seen \in [Request -> 0..MaxVersion]
    /\ list \in [Request -> List]
    /\ cands \in [Request -> SUBSET Candidate]

Init ==
    /\ current = 0
    /\ versions = [v \in {} |-> Empty]
    /\ attached = {}
    /\ runs = [n \in {} |-> n]
    /\ jobLock = NoRequest
    /\ pc = [r \in Request |-> "idle"]
    /\ seen = [r \in Request |-> 0]
    /\ list = [r \in Request |-> Empty]
    /\ cands = [r \in Request |-> {}]

-----------------------------------------------------------------------------
EndRequest(r) ==
    /\ pc' = [pc EXCEPT ![r] = "idle"]
    /\ seen' = [seen EXCEPT ![r] = 0]
    /\ list' = [list EXCEPT ![r] = Empty]
    /\ cands' = [cands EXCEPT ![r] = {}]
    /\ jobLock' = IF jobLock = r THEN NoRequest ELSE jobLock

Reject(r) == EndRequest(r) /\ UNCHANGED job

(* A statement, the AI service or the commit fails, or the request is      *)
(* cancelled.                                                              *)
Fail(r) == pc[r] # "idle" /\ Reject(r)

Put(f, x, value) == [y \in DOMAIN f \cup {x} |-> IF y = x THEN value ELSE f[y]]

-----------------------------------------------------------------------------
(* create of the job package: the description was parsed before.           *)
CreateJob(l) ==
    /\ current = 0
    /\ current' = 1
    /\ versions' = Put(versions, 1, l)
    /\ UNCHANGED <<attached, runs, jobLock, locals>>

(* processFile of the resume package attaches a candidate (ResumeIntake).  *)
Attach(c) ==
    /\ current # 0
    /\ attached' = attached \cup {c}
    /\ UNCHANGED <<current, versions, runs, jobLock, locals>>

-----------------------------------------------------------------------------
(* replaceRequirements.  SELECT ... FOR UPDATE OF j joins the job with the *)
(* version its snapshot calls current, then locks the job.  If the job     *)
(* changed in the meantime the join is checked again, new job row against  *)
(* old version row, fails, and the query has no row.                       *)

ReplaceBegin(r, l) ==
    /\ pc[r] = "idle"
    /\ l # Empty
    /\ pc' = [pc EXCEPT ![r] = "find"]
    /\ seen' = [seen EXCEPT ![r] = current]
    /\ list' = [list EXCEPT ![r] = l]
    /\ UNCHANGED <<job, jobLock, cands>>

ReplaceNotFound(r) ==
    /\ pc[r] = "find"
    /\ jobLock = NoRequest
    /\ seen[r] = 0 \/ seen[r] # current
    /\ Reject(r)

(* Without FOR UPDATE. *)
MutantReplaceFind(r) ==
    /\ pc[r] = "find"
    /\ seen[r] = current /\ current # 0
    /\ pc' = [pc EXCEPT ![r] = "insert"]
    /\ UNCHANGED <<job, jobLock, seen, list, cands>>

ReplaceFind(r) ==
    /\ pc[r] = "find"
    /\ jobLock = NoRequest
    /\ seen[r] = current /\ current # 0
    /\ jobLock' = r
    /\ pc' = [pc EXCEPT ![r] = "insert"]
    /\ UNCHANGED <<job, seen, list, cands>>

(* The current version edited in place. *)
MutantReplaceCommit(r) ==
    /\ pc[r] = "insert"
    /\ versions' = Put(versions, seen[r], list[r])
    /\ EndRequest(r)
    /\ UNCHANGED <<current, attached, runs>>

ReplaceCommit(r) ==
    /\ pc[r] = "insert"
    /\ seen[r] + 1 \in 1..MaxVersion \ DOMAIN versions     \* job_versions_unique
    /\ versions' = Put(versions, seen[r] + 1, list[r])
    /\ current' = seen[r] + 1
    /\ EndRequest(r)
    /\ UNCHANGED <<attached, runs>>

-----------------------------------------------------------------------------
(* create of the ranking package *)

RankBegin(r) ==
    /\ pc[r] = "idle"
    /\ current # 0
    /\ pc' = [pc EXCEPT ![r] = "requirements"]
    /\ seen' = [seen EXCEPT ![r] = current]
    /\ UNCHANGED <<job, jobLock, list, cands>>

(* The requirements looked up by the job's current version. *)
MutantRankRequirements(r) ==
    /\ pc[r] = "requirements"
    /\ list' = [list EXCEPT ![r] = versions[current]]
    /\ pc' = [pc EXCEPT ![r] = "candidates"]
    /\ UNCHANGED <<job, jobLock, seen, cands>>

RankRequirements(r) ==
    /\ pc[r] = "requirements"
    /\ list' = [list EXCEPT ![r] = versions[seen[r]]]
    /\ pc' = [pc EXCEPT ![r] = "candidates"]
    /\ UNCHANGED <<job, jobLock, seen, cands>>

RankNothing(r) ==
    /\ pc[r] = "candidates"
    /\ list[r] = Empty \/ attached = {}
    /\ Reject(r)

RankCandidates(r) ==
    /\ pc[r] = "candidates"
    /\ list[r] # Empty /\ attached # {}
    /\ cands' = [cands EXCEPT ![r] = attached]
    /\ pc' = [pc EXCEPT ![r] = "score"]
    /\ UNCHANGED <<job, jobLock, seen, list>>

(* The AI service answers with one result for every candidate. *)
RankScored(r) ==
    /\ pc[r] = "score"
    /\ pc' = [pc EXCEPT ![r] = "persist"]
    /\ UNCHANGED <<job, jobLock, seen, list, cands>>

RankPersist(r, n) ==
    /\ pc[r] = "persist"
    /\ n \notin DOMAIN runs
    /\ runs' = Put(runs, n, [version |-> seen[r], list |-> list[r], ranked |-> cands[r]])
    /\ EndRequest(r)
    /\ UNCHANGED <<current, versions, attached>>

-----------------------------------------------------------------------------
RequestStep(r) ==
    \/ ReplaceNotFound(r) \/ ReplaceFind(r) \/ ReplaceCommit(r)
    \/ RankRequirements(r) \/ RankNothing(r) \/ RankCandidates(r)
    \/ RankScored(r)
    \/ \E n \in Run : RankPersist(r, n)

Next ==
    \/ \E l \in List : CreateJob(l)
    \/ \E c \in Candidate : Attach(c)
    \/ \E r \in Request : \/ \E l \in List : ReplaceBegin(r, l)
                          \/ RankBegin(r)
                          \/ RequestStep(r)
                          \/ Fail(r)

Spec == Init /\ [][Next]_vars

-----------------------------------------------------------------------------
(* A run is of an existing version and carries that version's requirements *)
(* as they are now and were then, though versions and requirements are     *)
(* read by separate statements while replaceRequirements runs.             *)
SnapshotFaithful ==
    \A n \in DOMAIN runs :
        /\ runs[n].version \in DOMAIN versions
        /\ runs[n].list = versions[runs[n].version]
        /\ runs[n].ranked \subseteq attached

(* Concurrent replaceRequirements never compute the same version number:   *)
(* the unique constraint job_versions_unique never stops one of them.      *)
VersionNumberFree ==
    \A r \in Request : pc[r] = "insert" => seen[r] + 1 \notin DOMAIN versions

-----------------------------------------------------------------------------
(* The inductive invariant behind these, part by part.                     *)

(* A ranking under way names an existing version and has that version's    *)
(* requirements and some attached candidates.                              *)
RankingInv ==
    \A r \in Request :
        /\ pc[r] \in {"requirements", "candidates", "score", "persist"} =>
             seen[r] \in 1..current
        /\ pc[r] \in {"candidates", "score", "persist"} =>
             list[r] = versions[seen[r]]
        /\ pc[r] \in {"score", "persist"} =>
             cands[r] # {} /\ cands[r] \subseteq attached

(* Whoever is about to insert a version holds the job, and what it saw is  *)
(* still current.                                                          *)
LockInv ==
    \A r \in Request :
        pc[r] = "insert" => jobLock = r /\ current # 0 /\ seen[r] = current

IInv == TypeOK /\ RankingInv /\ LockInv /\ SnapshotFaithful

-----------------------------------------------------------------------------
History == INSTANCE RankingHistory WITH published <- versions, recorded <- runs

(* The tables of a job are a RankingHistory: versions are only appended,   *)
(* runs only added, neither ever rewritten.                                *)
ImplementsHistory == History!Spec

=============================================================================
