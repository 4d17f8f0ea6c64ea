------------------------------ MODULE JobPage --------------------------------
(***************************************************************************)
(* The pages of a new job and of a job over the ranking demo's store: the   *)
(* latter shows the job as it was when the page was loaded or the job      *)
(* ranked, previews CVs and has the job ranked, while other tabs send      *)
(* requests to the store.                                                  *)
(***************************************************************************)
EXTENDS DemoStore

CONSTANT NoCv

VARIABLES
    shown,        \* the page's job
    mine,         \* the request by which the page has a job created or ranked
    preview,      \* previewCV
    document,     \* the CV that previewDocument is of
    loading,      \* previewLoading
    asked,        \* the CVs whose document was asked for
    overlapped    \* history: another document was under way when the
                  \* preview was opened

page  == <<shown, mine, preview, document, loading, asked, overlapped>>
pvars == <<vars, page>>

PTypeOK ==
    /\ TypeOK
    /\ shown \in {NoJob} \cup StoredJob
    /\ preview \in StoredCv \cup {NoCv} /\ document \in Cv \cup {NoCv}
    /\ asked \subseteq Cv
    /\ {loading, overlapped} \subseteq BOOLEAN
    /\ mine # NoRequest => pc[mine] = IF shown = NoJob THEN "parse" ELSE "rank"

PInit ==
    /\ Init
    /\ shown = NoJob /\ mine = NoRequest
    /\ preview = NoCv /\ document = NoCv /\ loading = FALSE
    /\ asked = {} /\ overlapped = FALSE

(* The page of all jobs links to those that it found in the store.         *)
Linkable == drawn \cap Job

-----------------------------------------------------------------------------
(* The page of a new job *)

(* createJD; the page has no job yet, and sends one request at a time.     *)
CreateJD(r) ==
    /\ shown = NoJob /\ mine = NoRequest
    /\ CreateBegin(r)
    /\ mine' = r
    /\ UNCHANGED <<shown, preview, document, loading, asked, overlapped>>

(* The browser goes on to the page of the job, see Open. *)
Created(r, n) ==
    /\ r = mine
    /\ CreateSave(r, n)
    /\ mine' = NoRequest
    /\ UNCHANGED <<shown, preview, document, loading, asked, overlapped>>

-----------------------------------------------------------------------------
(* The page of a job *)

(* It is opened and refreshed: that the answer comes later makes no        *)
(* difference, as the page does not ask again; it may be an error.  Other  *)
(* calls of the page that was open before go unheard.                      *)
Open(n) ==
    /\ n \in Linkable
    /\ mine' = NoRequest
    /\ shown' \in Stored(n) \cup {NoJob}
    /\ preview' = NoCv /\ document' = NoCv /\ loading' = FALSE
    /\ asked' = {} /\ overlapped' = FALSE
    /\ UNCHANGED vars

(* runRanking: the button goes by the count of the job shown.              *)
RunRanking(r) ==
    /\ shown # NoJob /\ shown.cv_count # 0 /\ mine = NoRequest
    /\ \E j \in Stored(shown.id) : RankBegin(r, j)
    /\ mine' = r
    /\ UNCHANGED <<shown, preview, document, loading, asked, overlapped>>

(* The answer takes the place of the job; the preview stays as it is.  The *)
(* page waits for it at least 2.75 s, which is left out.                   *)
Ranked(r) ==
    /\ r = mine
    /\ RankSave(r)
    /\ shown' = Head(store')
    /\ mine' = NoRequest
    /\ UNCHANGED <<preview, document, loading, asked, overlapped>>

(* The service's error is shown, on either page. *)
RequestFails(r) ==
    /\ r = mine
    /\ Fail(r)
    /\ mine' = NoRequest
    /\ UNCHANGED <<shown, preview, document, loading, asked, overlapped>>

(* The document before is kept. *)
MutantOpenPreview(c, pdf) ==
    /\ shown # NoJob /\ preview = NoCv
    /\ c \in shown.cvs
    /\ preview' = c
    /\ overlapped' = (asked # {})
    /\ IF pdf THEN loading' = TRUE /\ asked' = asked \cup {c.id} ELSE UNCHANGED <<loading, asked>>
    /\ UNCHANGED <<vars, shown, mine, document>>

(* openPreviewCV; the preview covers the list.  pdf: the CV has a document *)
(* to preview.  That one is asked for twice at a time is left out.         *)
OpenPreview(c, pdf) ==
    /\ shown # NoJob /\ preview = NoCv
    /\ c \in shown.cvs
    /\ preview' = c /\ document' = NoCv
    /\ overlapped' = (asked # {})
    /\ IF pdf THEN loading' = TRUE /\ asked' = asked \cup {c.id} ELSE UNCHANGED <<loading, asked>>
    /\ UNCHANGED <<vars, shown, mine>>

(* The document comes, or an error: whatever preview is open by then.      *)
DocumentArrives(c) ==
    /\ c \in asked
    /\ asked' = asked \ {c}
    /\ document' \in {c, document}
    /\ loading' = FALSE
    /\ UNCHANGED <<vars, shown, mine, preview, overlapped>>

(* closePreviewCV *)
ClosePreview ==
    /\ preview # NoCv
    /\ preview' = NoCv /\ document' = NoCv /\ loading' = FALSE
    /\ UNCHANGED <<vars, shown, mine, asked, overlapped>>

(* What is seen: the document in the drawer, the results in their tab, and *)
(* the evaluation under the preview (previewResult): the first result with *)
(* the number of the CV previewed, by its candidate or resume id; the CVs  *)
(* that it may be of.                                                      *)
DocumentShown == IF preview = NoCv \/ loading THEN NoCv ELSE document

RankingResults == IF shown = NoJob \/ shown.run = NoRun THEN {} ELSE shown.run

ResultsListed == IF mine # NoRequest THEN {} ELSE RankingResults

EvaluationShown ==
    IF preview = NoCv THEN {}
    ELSE {x[1] : x \in {y \in RankingResults : y[2] = preview.number}}

-----------------------------------------------------------------------------
(* Requests of other tabs, and of pages that are gone *)
OtherRequest(r) ==
    /\ r # mine
    /\ Handler(r)
    /\ UNCHANGED page

(* The server restarts: the requests fail. *)
RequestsLost ==
    /\ Restart \/ RestartTorn
    /\ mine' = NoRequest
    /\ UNCHANGED <<shown, preview, document, loading, asked, overlapped>>

-----------------------------------------------------------------------------
PNext ==
    \/ \E n \in Job : Open(n)
    \/ \E r \in Request :
         \/ CreateJD(r) \/ \E n \in Job : Created(r, n)
         \/ RunRanking(r) \/ Ranked(r) \/ RequestFails(r) \/ OtherRequest(r)
    \/ shown # NoJob /\ \E c \in shown.cvs, pdf \in BOOLEAN : OpenPreview(c, pdf)
    \/ \E c \in Cv : DocumentArrives(c)
    \/ ClosePreview
    \/ RequestsLost

PSpec == PInit /\ [][PNext]_pvars

-----------------------------------------------------------------------------
(* Besides the types: the document shown in a preview is of the CV         *)
(* previewed, unless that of another preview was still under way when it   *)
(* was opened.                                                             *)
DocumentIsOfCv ==
    /\ PTypeOK
    /\ DocumentShown # NoCv /\ ~overlapped => DocumentShown = preview.id

(* Candidate numbers are given anew to other CVs by overlapping uploads.   *)
(* Still the results listed are of the CVs that the page lists, and the    *)
(* evaluation shown in a preview is of the CV previewed: unless the job,   *)
(* when it came back ranked, had lost that CV.                             *)
ResultIsOfCv ==
    /\ shown # NoJob => ResultsListed \subseteq Candidates(shown)
    /\ preview # NoCv /\ preview \in shown.cvs => EvaluationShown \subseteq {preview.id}

=============================================================================
