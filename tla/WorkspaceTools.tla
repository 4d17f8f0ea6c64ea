--------------------------- MODULE WorkspaceTools ----------------------------
(***************************************************************************)
(* The tools of the shell around every page of the ranking demo, which     *)
(* seed and reset the store and import CVs into a job, step by step over   *)
(* several requests; other tabs send requests as they like.                *)
(***************************************************************************)
EXTENDS DemoStore

CONSTANT Fixtures     \* jobs of the sample data

ASSUME FixturesAssumption == Fixtures \in 1..Limit

VARIABLES
    tool,         \* how far seedWorkspace or importCVsToJob is, else "idle"
    by,           \* their request
    toolJob,      \* the id of the job they are at
    left,         \* jobs still to be seeded
    alone         \* history: nobody else had a request since the seed began

tools == <<tool, by, toolJob, left, alone>>
tvars == <<vars, tools>>

Seeding == {"reset", "creating", "created", "uploading", "uploaded", "ranking"}

TTypeOK ==
    /\ TypeOK
    /\ alone \in BOOLEAN
    /\ tool \in {"idle", "importing"} \cup Seeding
    /\ by # NoRequest <=> tool \in {"creating", "uploading", "ranking", "importing"}
    /\ by # NoRequest => pc[by] \in {"parse", "analyze", "rank"}
    /\ toolJob \in Job \cup {NoJob} /\ left \in 0..Fixtures

TInit ==
    /\ Init
    /\ tool = "idle" /\ by = NoRequest /\ toolJob = NoJob /\ left = Fixtures
    /\ alone = FALSE

(* The list of jobs that CVs can be imported into; the job chosen may be   *)
(* gone from the store by then, or its page.                               *)
Importable == drawn \cap Job

-----------------------------------------------------------------------------
Tool(step, r, n) == tool' = step /\ by' = r /\ toolJob' = n

(* An error is shown and the tool stops. *)
ToolStops == Tool("idle", NoRequest, NoJob) /\ UNCHANGED <<left, alone>>

(* seedWorkspace: the store is reset first.                                *)
SeedBegin(r) ==
    /\ tool = "idle"
    /\ Reset(r)
    /\ Tool("reset", NoRequest, NoJob)
    /\ left' = Fixtures
    /\ alone' = (\A q \in Request : pc[q] = "idle")

(* The requests for a job, each sent when the one before was answered.     *)
SeedCreate(r) ==
    /\ tool = "reset"
    /\ CreateBegin(r)
    /\ Tool("creating", r, NoJob)
    /\ UNCHANGED <<left, alone>>

SeedCreated(n) ==
    /\ tool = "creating"
    /\ CreateSave(by, n)
    /\ Tool("created", NoRequest, n)
    /\ UNCHANGED <<left, alone>>

SeedUpload(r, fs) ==
    /\ tool = "created"
    /\ \E j \in Stored(toolJob) : UploadBegin(r, j, fs)
    /\ Tool("uploading", r, toolJob)
    /\ UNCHANGED <<left, alone>>

SeedUploaded(ok, number) ==
    /\ tool = "uploading"
    /\ UploadSave(by, ok, number)
    /\ Tool("uploaded", NoRequest, toolJob)
    /\ UNCHANGED <<left, alone>>

SeedRank(r) ==
    /\ tool = "uploaded"
    /\ \E j \in Stored(toolJob) : RankBegin(r, j)
    /\ Tool("ranking", r, toolJob)
    /\ UNCHANGED <<left, alone>>

SeedRanked ==
    /\ tool = "ranking"
    /\ RankSave(by)
    /\ left' = left - 1
    /\ IF left' = 0 THEN Tool("idle", NoRequest, NoJob)
       ELSE Tool("reset", NoRequest, NoJob)
    /\ UNCHANGED alone

(* The seed goes on to the next job. *)
MutantToolFails ==
    /\ by # NoRequest
    /\ Fail(by)
    /\ IF tool = "importing" \/ left = 0 THEN ToolStops
       ELSE /\ left' = left - 1
            /\ Tool(IF left' = 0 THEN "idle" ELSE "reset", NoRequest, NoJob)
            /\ UNCHANGED alone

(* A request fails; the jobs seeded so far stay.                           *)
ToolFails ==
    /\ by # NoRequest
    /\ Fail(by)
    /\ ToolStops

(* The job is gone, or without a CV that can be ranked; or a file of the   *)
(* sample data cannot be fetched.                                          *)
SeedStops ==
    /\ tool \in {"reset", "created", "uploaded"}
    /\ ToolStops
    /\ UNCHANGED vars

(* importCVsToJob *)
Import(r, n, fs) ==
    /\ tool = "idle"
    /\ n \in Importable
    /\ \E j \in Stored(n) : UploadBegin(r, j, fs)
    /\ Tool("importing", r, n)
    /\ alone' = FALSE
    /\ UNCHANGED left

Imported(ok, number) ==
    /\ tool = "importing"
    /\ UploadSave(by, ok, number)
    /\ ToolStops

(* resetWorkspace *)
ResetWorkspace(r) ==
    /\ tool = "idle"
    /\ Reset(r)
    /\ alone' = FALSE
    /\ UNCHANGED <<tool, by, toolJob, left>>

-----------------------------------------------------------------------------
(* Requests of other tabs, and of pages that are gone *)
Elsewhere(r) ==
    /\ r # by
    /\ Handler(r)
    /\ alone' = FALSE
    /\ UNCHANGED <<tool, by, toolJob, left>>

(* The server restarts: the requests fail. *)
ServerRestarts ==
    /\ Restart \/ RestartTorn
    /\ IF by = NoRequest THEN UNCHANGED <<tool, by, toolJob>>
       ELSE Tool("idle", NoRequest, NoJob)
    /\ alone' = FALSE
    /\ UNCHANGED left

-----------------------------------------------------------------------------
TNext ==
    \/ \E r \in Request :
         \/ SeedBegin(r) \/ SeedCreate(r) \/ SeedRank(r) \/ ResetWorkspace(r)
         \/ \E fs \in Uploads :
              SeedUpload(r, fs) \/ \E n \in Job : Import(r, n, fs)
         \/ Elsewhere(r)
    \/ \E n \in Job : SeedCreated(n)
    \/ /\ tool \in {"uploading", "importing"}
       /\ \E ok \in SUBSET files[by], number \in Numberings(base[by], files[by]) :
            SeedUploaded(ok, number) \/ Imported(ok, number)
    \/ SeedRanked \/ ToolFails \/ SeedStops
    \/ ServerRestarts

TSpec == TInit /\ [][TNext]_tvars

-----------------------------------------------------------------------------
Whole(j) == j.cvs # {} /\ j.run = Candidates(j)

(* The types, and: the count that the pages show, and by which they allow  *)
(* a ranking, is the number of CVs that can be ranked, and candidate       *)
(* numbers name one CV of a job, in memory and on disk, whatever saves     *)
(* overlapped.                                                             *)
StoreConsistent == TTypeOK /\ CountAgrees /\ NumbersDistinct

(* A seed that nobody disturbs leaves, wherever it stops, whole jobs but   *)
(* for the one it was at: their CVs are stored and those that could be     *)
(* analyzed ranked.  And when it reports that all is ready, all of the     *)
(* jobs are there.                                                         *)
SeedIsWhole ==
    alone =>
        /\ \A k \in 2..Len(store) : Whole(store[k])
        /\ left = 0 => Len(store) = Fixtures /\ Whole(store[1])

=============================================================================
