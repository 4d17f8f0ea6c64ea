---------------------------- MODULE ResumeIntake ----------------------------
(***************************************************************************)
(* Bulk upload of resumes (backend/internal/resume bulkUpload and          *)
(* processFile): for each file in turn a look for its checksum, the AI     *)
(* service, the object store and one database transaction, in that order.  *)
(* A candidate, its resume, its file and its parse run are made together   *)
(* and are one Resume here; nothing ever deletes them.                     *)
(***************************************************************************)
EXTENDS Naturals, SequencesExt

CONSTANTS
    Content,      \* file contents, by SHA-256
    Resume,       \* ids drawn by processFile
    Job,
    Request,
    MaxFiles,     \* maxFiles
    NoContent, NoResume, NoJob

ASSUME FilesAssumption == MaxFiles \in Nat \ {0}
ASSUME NullAssumption == NoContent \notin Content /\ NoResume \notin Resume /\ NoJob \notin Job

VARIABLES
    rows,         \* committed resumes
    checksum,     \* resume_files.checksum_sha256
    attached,     \* job_candidates
    objects,      \* the object store, by the resume in the key
    \* each request: where it is, its job, its files, the id of the resume in
    \* hand, the answers for the files done
    pc, job, files, id, items,
    known         \* history: the rows when the checksum was looked for

tables == <<rows, checksum, attached>>
vars   == <<tables, objects, pc, job, files, id, items, known>>

Item == [status : {"ready", "duplicate"}, resume : Resume]
            \cup [status : {"failed"}, resume : {NoResume}]

TypeOK ==
    /\ rows \subseteq Resume
    /\ checksum \in [Resume -> Content \cup {NoContent}]
    /\ \A n \in Resume : n \in rows <=> checksum[n] # NoContent
    /\ attached \subseteq Job \X rows
    /\ objects \subseteq Resume
    /\ pc \in [Request -> {"idle", "lookup", "analyze", "put", "insert", "respond"}]
    /\ job \in [Request -> Job \cup {NoJob}]
    /\ files \in [Request -> BoundedSeq(Content, MaxFiles)]
    /\ id \in [Request -> Resume \cup {NoResume}]
    /\ items \in [Request -> BoundedSeq(Item, MaxFiles)]
    /\ known \in [Request -> SUBSET Resume]

Init ==
    /\ rows = {}
    /\ checksum = [n \in Resume |-> NoContent]
    /\ attached = {}
    /\ objects = {}
    /\ pc = [r \in Request |-> "idle"]
    /\ job = [r \in Request |-> NoJob]
    /\ files = [r \in Request |-> << >>]
    /\ id = [r \in Request |-> NoResume]
    /\ items = [r \in Request |-> << >>]
    /\ known = [r \in Request |-> {}]

-----------------------------------------------------------------------------
Upload(r, j, fs) ==
    /\ pc[r] = "idle"
    /\ pc' = [pc EXCEPT ![r] = "lookup"]
    /\ job' = [job EXCEPT ![r] = j]
    /\ files' = [files EXCEPT ![r] = fs]
    /\ UNCHANGED <<tables, objects, id, items, known>>

(* processFile returns; bulkUpload notes the answer and takes the next file. *)
NextFile(r, status, n) ==
    /\ items' = [items EXCEPT ![r] = Append(@, [status |-> status, resume |-> n])]
    /\ pc' = [pc EXCEPT ![r] =
                 IF Len(items[r]) + 1 = Len(files[r]) THEN "respond" ELSE "lookup"]
    /\ id' = [id EXCEPT ![r] = NoResume]
    /\ known' = [known EXCEPT ![r] = {}]
    /\ UNCHANGED <<job, files>>

(* The file in hand: the first without an answer. *)
Current(r) == files[r][Len(items[r]) + 1]

(* Any resume for any checksum. *)
MutantWithContent(c) == rows

WithContent(c) == {n \in rows : checksum[n] = c}

(* The statement that looks for the checksum is in no transaction.  Which  *)
(* of several resumes it takes (the newest) is left open.                  *)
AttachDuplicate(r, n) ==
    /\ pc[r] = "lookup"
    /\ n \in WithContent(Current(r))
    /\ attached' = attached \cup {<<job[r], n>>}
    /\ UNCHANGED <<rows, checksum, objects>>

Duplicate(r, n) == AttachDuplicate(r, n) /\ NextFile(r, "duplicate", n)

(* The insert is done but its answer is lost. *)
DuplicateUnknown(r, n) == AttachDuplicate(r, n) /\ NextFile(r, "failed", NoResume)

(* Only the resumes of this job looked at. *)
MutantNoDuplicate(r) ==
    /\ pc[r] = "lookup"
    /\ \A n \in WithContent(Current(r)) : <<job[r], n>> \notin attached
    /\ known' = [known EXCEPT ![r] = rows]
    /\ pc' = [pc EXCEPT ![r] = "analyze"]
    /\ UNCHANGED <<tables, objects, job, files, id, items>>

NoDuplicate(r) ==
    /\ pc[r] = "lookup"
    /\ WithContent(Current(r)) = {}
    /\ known' = [known EXCEPT ![r] = rows]
    /\ pc' = [pc EXCEPT ![r] = "analyze"]
    /\ UNCHANGED <<tables, objects, job, files, id, items>>

(* The AI service has analyzed the file; a fresh id is drawn for it.       *)
Analyzed(r, n) ==
    /\ pc[r] = "analyze"
    /\ n \notin rows \cup objects \cup {id[q] : q \in Request}
    /\ id' = [id EXCEPT ![r] = n]
    /\ pc' = [pc EXCEPT ![r] = "put"]
    /\ UNCHANGED <<tables, objects, job, files, items, known>>

Stored(r) ==
    /\ pc[r] = "put"
    /\ objects' = objects \cup {id[r]}
    /\ pc' = [pc EXCEPT ![r] = "insert"]
    /\ UNCHANGED <<tables, job, files, id, items, known>>

(* The error of storage.Put logged, not returned. *)
MutantPutFailed(r) ==
    /\ pc[r] = "put"
    /\ pc' = [pc EXCEPT ![r] = "insert"]
    /\ UNCHANGED <<tables, objects, job, files, id, items, known>>

(* The object store reports an error, with the object stored or not. *)
PutFailed(r) ==
    /\ pc[r] = "put"
    /\ objects' \in {objects, objects \cup {id[r]}}
    /\ NextFile(r, "failed", NoResume)
    /\ UNCHANGED tables

Commit(r) ==
    /\ rows' = rows \cup {id[r]}
    /\ checksum' = [checksum EXCEPT ![id[r]] = Current(r)]
    /\ attached' = attached \cup {<<job[r], id[r]>>}
    /\ UNCHANGED objects

Inserted(r) ==
    /\ pc[r] = "insert"
    /\ Commit(r)
    /\ NextFile(r, "ready", id[r])

(* The transaction is committed but its answer is lost. *)
InsertUnknown(r) ==
    /\ pc[r] = "insert"
    /\ Commit(r)
    /\ NextFile(r, "failed", NoResume)

(* Any other error; what the object store holds by then stays there. *)
FileFailed(r) ==
    /\ pc[r] \in {"lookup", "analyze", "insert"}
    /\ NextFile(r, "failed", NoResume)
    /\ UNCHANGED <<tables, objects>>

(* The answer is sent, or the process stops. *)
Ended(r) ==
    /\ pc' = [pc EXCEPT ![r] = "idle"]
    /\ job' = [job EXCEPT ![r] = NoJob]
    /\ files' = [files EXCEPT ![r] = << >>]
    /\ id' = [id EXCEPT ![r] = NoResume]
    /\ items' = [items EXCEPT ![r] = << >>]
    /\ known' = [known EXCEPT ![r] = {}]
    /\ UNCHANGED <<tables, objects>>

Respond(r) == pc[r] = "respond" /\ Ended(r)
Crash(r) == pc[r] # "idle" /\ Ended(r)

-----------------------------------------------------------------------------
Next ==
    \E r \in Request :
        \/ \E j \in Job, fs \in BoundedSeq(Content, MaxFiles) \ {<< >>} : Upload(r, j, fs)
        \/ \E n \in Resume : \/ Duplicate(r, n) \/ DuplicateUnknown(r, n)
                            \/ Analyzed(r, n)
        \/ NoDuplicate(r)
        \/ Stored(r) \/ PutFailed(r)
        \/ Inserted(r) \/ InsertUnknown(r)
        \/ FileFailed(r)
        \/ Respond(r) \/ Crash(r)

Spec == Init /\ [][Next]_vars

-----------------------------------------------------------------------------
(* Besides the types: every committed resume has its file in the object    *)
(* store, at every step and after every failure: Put comes before the      *)
(* transaction.                                                            *)
StoredFilesHaveObjects == TypeOK /\ rows \subseteq objects

(* What bulkUpload answers is true: the k-th answer is for the k-th file,  *)
(* and one that says ready or duplicate names a committed resume of that   *)
(* file's content, with its object, attached to the job.  In the end every *)
(* file has its answer.                                                    *)
AnswersTrue ==
    \A r \in Request :
        /\ pc[r] = "respond" => Len(items[r]) = Len(files[r])
        /\ \A k \in 1..Len(items[r]) :
             LET item == items[r][k]
             IN  item.status # "failed" =>
                   /\ item.resume \in rows \cap objects
                   /\ checksum[item.resume] = files[r][k]
                   /\ <<job[r], item.resume>> \in attached

(* A second candidate for the same content is made only by uploads that    *)
(* overlap: the first was not yet there when the second looked for it.  So *)
(* a retry after an answer, a "failed" one too, or after a crash makes     *)
(* none.                                                                   *)
DuplicatesOnlyByRace ==
    [][\A r \in Request, n \in rows' \ rows :
         pc[r] = "insert" /\ id[r] = n =>
           \A m \in WithContent(checksum'[n]) : m \notin known[r]]_vars

=============================================================================
