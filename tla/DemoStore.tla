------------------------------ MODULE DemoStore ------------------------------
(***************************************************************************)
(* The ranking demo's job store (frontend/app/api/ranking-test): handlers  *)
(* of one Node.js process that read a job, await the AI service and then   *)
(* save the whole job, to memory and to a JSON file.  Between two awaits a *)
(* handler runs alone.  Preview files are left out.                        *)
(***************************************************************************)
EXTENDS Naturals, SequencesExt

CONSTANTS
    Job,          \* ids drawn by createJob
    Cv,           \* ids drawn by analyzeFilesForJob
    Request,
    NoRequest,
    Limit,        \* jobs that saveJob keeps
    MaxFiles,     \* files of an upload
    NoJob, NoRun

ASSUME BoundAssumption == Limit \in Nat \ {0} /\ MaxFiles \in Nat \ {0}
ASSUME NoRequestAssumption == NoRequest \notin Request

VARIABLES
    store,        \* globalThis.rankingDemoStore, the job saved last first
    disk,         \* store.json
    drawn,        \* history: the ids in use or once in use
    \* each request: where it is, the job in its hands, the files uploaded
    pc, base, files,
    safe          \* history: CVs saved while no other request had their job
                  \* in hand, of jobs that were not dropped since

tables == <<store, disk>>
locals == <<pc, base, files>>
vars   == <<tables, drawn, locals, safe>>

StoredCv == [id : Cv, number : Nat, status : {"ready", "failed"}]

Jobs(s) == {s[k] : k \in DOMAIN s}
Stored(n) == {j \in Jobs(store) : j.id = n}
Ready(job) == {c \in job.cvs : c.status = "ready"}
Candidates(job) == {<<c.id, c.number>> : c \in Ready(job)}

StoredJob == [id : Job, cvs : SUBSET StoredCv, cv_count : Nat,
              run : {NoRun} \cup SUBSET (Cv \X Nat)]

ASSUME NoJobAssumption == NoJob \notin StoredJob

TypeOK ==
    /\ \A s \in {store, disk} :
         /\ s \in Seq(StoredJob) /\ Len(s) <= Limit
         /\ \A k, l \in DOMAIN s : s[k].id = s[l].id => k = l
    /\ drawn \subseteq Job \cup Cv
    /\ pc \in [Request -> {"idle", "parse", "analyze", "rank",
                           "once_parse", "once_analyze", "once_rank"}]
    /\ base \in [Request -> {NoJob} \cup StoredJob]
    /\ files \in [Request -> SUBSET Cv]
    /\ safe \subseteq Cv

Init ==
    /\ store = << >> /\ disk = << >>
    /\ drawn = {}
    /\ pc = [r \in Request |-> "idle"]
    /\ base = [r \in Request |-> NoJob]
    /\ files = [r \in Request |-> {}]
    /\ safe = {}

-----------------------------------------------------------------------------
(* saveJob: the job comes first, in place of the one that has its id (there *)
(* is one at most, see TypeOK); the jobs beyond Limit go.                  *)
Saved(job) ==
    LET all == <<job>> \o RemoveFirstMatch(store, LAMBDA j : j.id = job.id)
    IN  SubSeq(all, 1, IF Len(all) < Limit THEN Len(all) ELSE Limit)

(* persistDemoStore: an error is only logged.  If the file could not be    *)
(* opened it stays as it was; if it was emptied and not written in full it *)
(* cannot be parsed, and is read as a store without jobs.                  *)
Write(s) == store' = s /\ disk' \in {s, disk, << >>}

CvsOf(jobs) == {c.id : c \in UNION {j.cvs : j \in jobs}}

(* No request but r has the job in hand. *)
Alone(r, job) == \A q \in Request \ {r} : base[q] = NoJob \/ base[q].id # job.id

SaveJob(r, job) ==
    /\ Write(Saved(job))
    /\ LET dropped == {j \in Jobs(store) : \A k \in Jobs(store') : k.id # j.id}
       IN  safe' = (safe \ CvsOf(dropped))
                       \cup (IF Alone(r, job) THEN CvsOf({job}) \cap files[r] ELSE {})

(* r goes on with job at the next await. *)
Continue(r, p, job, fs) ==
    /\ pc' = [pc EXCEPT ![r] = p]
    /\ base' = [base EXCEPT ![r] = job]
    /\ files' = [files EXCEPT ![r] = fs]

End(r) == Continue(r, "idle", NoJob, {})

(* An error of the AI service, or of a check that follows it.              *)
Fail(r) == pc[r] # "idle" /\ End(r) /\ UNCHANGED <<tables, drawn, safe>>

-----------------------------------------------------------------------------
(* create_job, and the first step of rank_once *)
NewJob(n) == [id |-> n, cvs |-> {}, cv_count |-> 0, run |-> NoRun]

CreateBegin(r) ==
    /\ pc[r] = "idle"
    /\ Continue(r, "parse", NoJob, {})
    /\ UNCHANGED <<tables, drawn, safe>>

CreateSave(r, n) ==
    /\ pc[r] = "parse"
    /\ n \notin drawn
    /\ drawn' = drawn \cup {n}
    /\ SaveJob(r, NewJob(n))
    /\ End(r)

-----------------------------------------------------------------------------
(* upload_cvs *)

UploadBegin(r, job, fs) ==
    /\ pc[r] = "idle"
    /\ drawn' = drawn \cup fs
    /\ Continue(r, "analyze", job, fs)
    /\ UNCHANGED <<tables, safe>>

(* analyzeFilesForJob: candidates are numbered on from the CVs of the job  *)
(* that was read; a file the AI service cannot analyze is kept as failed.  *)
Analyzed(job, fs, ok, number) ==
    {[id |-> c, number |-> number[c],
      status |-> IF c \in ok THEN "ready" ELSE "failed"] : c \in fs}

Numberings(job, fs) ==
    LET n == Cardinality(job.cvs)
    IN  Bijection(fs, (n + 1)..(n + Cardinality(fs)))

(* The files that cannot be analyzed counted as well. *)
MutantWithCvs(job, new) ==
    [job EXCEPT !.cvs = @ \cup new,
                !.cv_count = @ + Cardinality(new)]

WithCvs(job, new) ==
    [job EXCEPT !.cvs = @ \cup new,
                !.cv_count = Cardinality({c \in job.cvs \cup new : c.status = "ready"})]

(* The new CVs in place of the old ones, as rank_once has it. *)
MutantUploadAlone(r, ok, number) ==
    /\ pc[r] = "analyze"
    /\ SaveJob(r, WithCvs([base[r] EXCEPT !.cvs = {}], Analyzed(base[r], files[r], ok, number)))
    /\ End(r)
    /\ UNCHANGED drawn

UploadSave(r, ok, number) ==
    /\ pc[r] = "analyze"
    /\ SaveJob(r, WithCvs(base[r], Analyzed(base[r], files[r], ok, number)))
    /\ End(r)
    /\ UNCHANGED drawn

-----------------------------------------------------------------------------
(* run_ranking *)

RankBegin(r, job) ==
    /\ pc[r] = "idle"
    /\ Ready(job) # {}
    /\ Continue(r, "rank", job, {})
    /\ UNCHANGED <<tables, drawn, safe>>

(* Only the run written, into the job as it is now stored. *)
MutantRankSave(r) ==
    /\ pc[r] \in {"rank", "once_rank"}
    /\ \E j \in Jobs(store) :
         /\ j.id = base[r].id
         /\ SaveJob(r, [j EXCEPT !.run = Candidates(base[r])])
    /\ End(r)
    /\ UNCHANGED drawn

(* rankJob: baseline scores, perhaps reranked, for every ready CV.         *)
RankSave(r) ==
    /\ pc[r] \in {"rank", "once_rank"}
    /\ SaveJob(r, [base[r] EXCEPT !.run = Candidates(base[r])])
    /\ End(r)
    /\ UNCHANGED drawn

-----------------------------------------------------------------------------
(* rank_once: create, upload and rank in one request *)

OnceBegin(r, fs) ==
    /\ pc[r] = "idle"
    /\ drawn' = drawn \cup fs
    /\ Continue(r, "once_parse", NoJob, fs)
    /\ UNCHANGED <<tables, safe>>

OnceCreated(r, n) ==
    /\ pc[r] = "once_parse"
    /\ n \notin drawn
    /\ drawn' = drawn \cup {n}
    /\ SaveJob(r, NewJob(n))
    /\ Continue(r, "once_analyze", NewJob(n), files[r])

(* Without a ready CV rankJob answers 422, but the job is saved by then.   *)
OnceUploaded(r, ok, number) ==
    /\ pc[r] = "once_analyze"
    /\ LET job == WithCvs(base[r], Analyzed(base[r], files[r], ok, number))
       IN  /\ SaveJob(r, job)
           /\ IF ok = {} THEN End(r) ELSE Continue(r, "once_rank", job, {})
    /\ UNCHANGED drawn

-----------------------------------------------------------------------------
Reset(r) ==
    /\ pc[r] = "idle"
    /\ Write(<< >>)
    /\ safe' = {}
    /\ UNCHANGED <<drawn, locals>>

Stopped ==
    /\ pc' = [r \in Request |-> "idle"]
    /\ base' = [r \in Request |-> NoJob]
    /\ files' = [r \in Request |-> {}]
    /\ safe' = {}
    /\ UNCHANGED drawn

(* loadDemoStoreFromDisk reads what was written last.                      *)
Restart == store' = disk /\ UNCHANGED disk /\ Stopped

(* The process stops while writeFileSync rewrites the file: it cannot be   *)
(* parsed and the store starts empty.                                      *)
RestartTorn ==
    /\ \E r \in Request : pc[r] # "idle"
    /\ store' = << >> /\ disk' = << >>
    /\ Stopped

-----------------------------------------------------------------------------
Uploads == {fs \in SUBSET (Cv \ drawn) :
               IsFiniteSet(fs) /\ fs # {} /\ Cardinality(fs) <= MaxFiles}

Handler(r) ==
    \/ CreateBegin(r)
    \/ \E n \in Job : CreateSave(r, n) \/ OnceCreated(r, n)
    \/ \E job \in Jobs(store), fs \in Uploads : UploadBegin(r, job, fs)
    \/ \E job \in Jobs(store) : RankBegin(r, job)
    \/ \E fs \in Uploads : OnceBegin(r, fs)
    \/ /\ pc[r] \in {"analyze", "once_analyze"}
       /\ \E ok \in SUBSET files[r], number \in Numberings(base[r], files[r]) :
            UploadSave(r, ok, number) \/ OnceUploaded(r, ok, number)
    \/ RankSave(r)
    \/ Fail(r)
    \/ Reset(r)

Next ==
    \/ \E r \in Request : Handler(r)
    \/ Restart
    \/ RestartTorn

Spec == Init /\ [][Next]_vars

-----------------------------------------------------------------------------
(* The count that the pages show, and by which they allow a ranking, is    *)
(* the number of CVs that can be ranked, in memory and on disk, whatever   *)
(* saves overlapped.                                                       *)
CountAgrees ==
    \A j \in Jobs(store) \cup Jobs(disk) : j.cv_count = Cardinality(Ready(j))

(* Candidate numbers name one CV of a job, though overlapping uploads give *)
(* out the same ones: the whole job is replaced by each save.              *)
NumbersDistinct ==
    \A j \in Jobs(store) \cup Jobs(disk) :
        \A c, d \in j.cvs : c.number = d.number => c = d

(* The latest run is of CVs that the job still has, under the numbers they *)
(* were ranked by.                                                         *)
RunFaithful ==
    \A j \in Jobs(store) \cup Jobs(disk) :
        j.run # NoRun => j.run \subseteq Candidates(j)

(* A CV whose upload was saved while nobody else worked on its job stays   *)
(* in the store until a reset, a restart or the limit takes its job:       *)
(* uploads are lost to overlapping requests only.                          *)
LostOnlyToOverlap == safe \subseteq CvsOf(Jobs(store))

=============================================================================
