# CVRanking: TLA+ specifications, TLC runs and TLAPS proofs

CVRanking ranks the CVs of a job for recruiters. A Go API (`backend/`) keeps everything in
PostgreSQL, counts requests in Redis, stores files in an S3-like object store and asks a Python
service (`ai-service/`) to parse job descriptions and CVs and to score candidates. A Next.js
application (`frontend/`) has the pages, a self-contained ranking demo and an interview copilot.

All the server's state is in shared tables, every HTTP request runs its own goroutine, and
transactions run at PostgreSQL's default READ COMMITTED. So the hard behaviour is what several
requests do to each other between their statements. This project models that, the failures
between the steps, and what the repository's documents promise about it.

## Inventory

| Part (source) | State | Operations | Hard behaviour | What makes it correct |
|---|---|---|---|---|
| Refresh sessions (`auth/sessions.go`, `profile.go`, `members.go`, `invitations.go`) | `refresh_tokens`, row locks | login, refresh with rotation and reuse detection, logout, switchWorkspace, verifyEmail, acceptInvitation, updateMember/removeMember's revocation | opposite lock orders, UPDATEs that miss concurrent inserts, grace period, lost answers | at most one live token per family; one chain per family; revocation is final; inactive members hold none but by a verification link |
| Members and invitations (`auth/members.go`, `invitations.go`) | `workspace_members`, `workspace_invitations` | change role or status, remove, invite, resend, revoke, accept | checks before the transaction, counts without locks | the last administrator is lost only to a named race; an invitation is decided once and only by its live link |
| E-mail verification, registration (`auth/sessions.go`, `invitations.go`) | `users`, `email_verification_tokens` | register, resend, verify, acceptInvitation | concurrent resends; an invitation verifies without a link | a link is spent once; an unverified user has a link; a second one needs a named race |
| Rate limiter (`auth/rate_limit.go`) | a Redis counter with expiry | Allow | counter and expiry apart | never more than the limit per window |
| Jobs (`job/handler.go`) | `jobs`, `job_versions`, `job_requirements` | create, replaceRequirements | concurrent edits, `FOR UPDATE` re-check | versions are append-only and numbered without gaps |
| Rankings (`ranking/handler.go`) | `ranking_runs`, `ranking_results` | create | snapshot read by separate statements, long AI call | a run carries exactly the requirements of its version |
| Resume upload (`resume/handler.go`) | resumes, files, `job_candidates`, objects | bulkUpload | object store outside the transaction, duplicate lookup outside it, lost commit answers, crashes | no resume without its file; answers true of the very content; only overlapping uploads make a second candidate of one content |
| Candidate status (`resume/handler.go`) | `candidates.status`, history | updateCandidateStatus | concurrent updates | the history is a chain |
| AI service (`ai-service/app`) | none | parse, analyze, score | numeric edges, ties | the order follows the assessments, and the upload decides between equals only; more years score no less on each side of the minimum, and reaching it scores 0.92 at least |
| Demo's reranking (`frontend/app/api/ranking-test`) | none | baseline, Gemini, Groq, merge | keys and retries, answers that are incomplete or out of range | everybody is ranked; a model moves only whom it names, sent to it or not |
| Frontend demo store (`frontend/app/api/ranking-test`) | jobs in memory and a JSON file | create, upload, rank, reset | read, await, write back the whole job; the file rewritten in place | each stored job agrees with itself; an upload is lost only to an overlapping request |
| Copilot's speech capture (`lib/copilot/services/speechService.js`) | session transcript, phrase and fingerprint of the final flag, two timers | start, stop, result, error and end callbacks of the browser | callbacks after a stop, timers against late results, restarts by the browser | each phrase is passed on once, in order; what is shown ends up passed on |
| Copilot's audio (`audioStreamer.js`, `liveApiService.js`, `audio-visualizer.tsx`) | microphone, audio context, worklet, socket, equaliser | start, stop, connect, disconnect | permissions, modules and sockets that come after a stop; services that outlive the page | nothing is on, or sent, when the page does not listen, but after a stop while starting or a reset |
| Interview page (`frontend/app/interviewer`, `copilot/*.tsx`) | transcript, speakers, questions, evaluations, report | hear, type, analyze, choose a question, report, reset | answers of overlapping calls, answers after a reset, speakers that are classified later | no text lost; what is shown is about this interview, unless its call was under way at a reset; work is announced while it goes on, until another call ends |
| Pages of a new job and of a job (`frontend/app/jobs`) | the job as it was loaded, the preview | create, open, rank, preview | documents that come late, numbers that overlapping uploads give out anew | document and evaluation are of the CV previewed, but for two named overlaps |
| Workspace tools (`demo-shell.tsx`) | how far the tool is | seed, import, reset | several requests, one of which fails; other tabs | a seed leaves whole jobs |
| JD assistant (`frontend/app/api/jd-assistant`) | threads of a chat in memory | ask | - | - |
| Platform, audit, worker, migrations, placeholder packages | configuration and clients | wiring | - | - |

Requests meet only in the tables: auth's middleware (`authenticate`) reads members and tokens
before every handler; `resume` attaches candidates that `ranking` reads; `ranking` reads the
versions `job` writes. `ai` and `storage` are called while no transaction is open. In the
frontend, the pages meet in the demo store, and the interview page, the speech service and the audio
services through the callbacks the page gives them.
`PROJECT.json` lists every component with its status, and every hazard at its line.

## Conventions

* A request is one process. Each of its statements that another request can come between is one
  action. A transaction's writes become visible in the action that models `Commit`; the row locks it
  takes are state, and a rollback (`Fail`, `Abort`, `Reject`) writes nothing and frees them.
* The response of a handler is left out unless a property is about it.
* Ids, tokens, contents and names are model values; a UUID or an opaque token that is drawn is one
  that was never used. Audit rows are inserted in the caller's transaction and are left out.
* An action whose name begins with `Mutant` is in no specification. It is a plausible bug in the
  definition that follows it, and `PROJECT.json` says which property notices it.

## Modules

**`Sessions`** models the rotating refresh sessions. `rows`, `family`, `owner`, `expiresAt`,
`revokedAt` and `replacedBy` are the columns of `refresh_tokens`; `tokenLock` and `memberLock` the row
locks; `pc`, `beganAt`, `tok`, `mem`, `todo`, `nextStatus` the locals of each request. `Refresh*` are
the branches of `refresh` and `classifyRefresh`; `Login*`, `AcceptInvitation*` and `VerifyEmail*` issue
sessions, `Logout*`, `Switch*` and `ChangeMember*` revoke them. An `UPDATE` of several rows fixes
its rows at its snapshot (`todo`) and locks them one by one (`UpdateRow`), which is what lets a
concurrently inserted row escape. `now()` in SQL is the beginning of the transaction (`beganAt`),
`handler.now()` the moment it is called. `DeadlockVictim` is PostgreSQL's deadlock detection.
**`SessionStore`** is what the module promises: a session has one current token, which moves
forward to unused tokens and, once closed, stays closed. **`SessionsProofs`** has the proofs.

**`Membership`** models roles and invitations of one workspace: `updateMember`, `removeMember` and
`ensureAnotherAdmin`, `createInvitation` with its unique index, `resendInvitation`, `revokeInvitation`
and `acceptInvitation`. A change reads under `FOR UPDATE` of the target only
(`ChangeFind`) and commits later, so two of them can rely on each other's target.

**`JobRanking`** models one job: `create` and `replaceRequirements` of `job`, `create` of `ranking`.
`ReplaceNotFound` contains the re-check PostgreSQL makes when `FOR UPDATE OF j` waited on a row that
was changed meanwhile. A ranking reads version, requirements and candidates in three actions, waits for
the AI service and writes its run in a fourth. **`RankingHistory`** is the promise: an append-only
sequence of requirement lists and write-once runs that carry the list of their version.

**`ResumeIntake`** models `bulkUpload` and `processFile`: the checksum lookup, the AI call, the object
store, the transaction, with an error of each, commits whose answer is lost and crashes. `files`
keeps what each request uploaded, `items` what it answered for each file, so that an answer is
compared with the content of its own file (`AnswersTrue`); `Current` is the file in hand.

**`DemoStore`** models the job store of the frontend's ranking demo: `store` is
`globalThis.rankingDemoStore`, `disk` the JSON file, `base` the copy of the job a handler read before
its `await`. JavaScript runs one handler between two awaits, so an action reaches from one to the next.
`SaveJob` writes the whole job back; `Write` lets the file keep its old content or be left unreadable.
`safe` is a history variable for `LostOnlyToOverlap`.

**`BaselineRanking`** is the scorer of the AI service as operators over whole numbers: `Assess` with
one operator per kind of requirement, `ScoreCandidate`, `RankCandidates`, with the stable sort
(`InOrder`) of Python and JavaScript. Tokens, proficiencies and the power 0.6 (`Concave`) are tables, of
which the proofs assume that they have scores, and that more years are worth no less (`ConcaveGrows`). **`AIRerank`** is `rankJob` of the demo on top of it: `Score`,
then `Gemini*` with the keys in turn from a random `cursor`, then `Groq*`, and `Reranked`, which
merges an answer into the baseline. `env` is the process environment: keys, some given twice, and the
limit on candidates, from which `geminiKeys`, `aiRerankStatus` and `aiCandidateLimit` are made.
`DemoStore` saves what it gives.
An `Answer` may have a remark on any candidate of the job, those beyond the limit too: ids are
`candidate-1` and so on, and the code looks up the whole baseline in it. As they are places in the
upload, another order of upload gives the same CVs other ids (`Uploaded`).

**`EmailVerification`** models `register`, `resendVerification`, `verifyEmail` and, as it verifies an
address without a link, `acceptInvitation` over `users` and `email_verification_tokens` (`linkOf`, `link`, `expired`), with the locks of both tables. `opened`
counts the sessions each link gave; `raced` names the addresses where `resendVerification` met
another resend, or a verification, under way; `invited` those that accepted an invitation, whether
the user was there or is made by it (`AcceptUser`, `AcceptCommit`). `VerifiedByLink` is the other way. The
session itself is in `Sessions`, workspace and invitation in `Membership`.

**`SpeechCapture`** models `SpeechService` against the browser's speech recogniser (`recogniser`,
`heard`, an external part): a phrase may bring guesses (`Interim`), a final text, both in one event,
or nothing before the debounce timer makes a final text of the guess (`Timeout`) and aborts the
recogniser, which `End` restarts. The transcript is kept as the phrases passed on (`finals`), so
that a phrase can be told from its words.

**`AudioCapture`** models what the interview page switches on besides: the streamer's microphone,
context and worklet node (`open`, `loaded`, `context`), the connection to the live service (`socket`,
`ws`, `greeted`) and the equaliser with a microphone of its own. A start is numbered, and all that it
makes has its number; `Granted`, `Loaded`, `SocketOpens`, `EqualiserGranted` are the continuations
of its awaits and callbacks, which come in any order, or after a stop. `SwitchOn`, `SwitchOff`,
`Reset` and `Leave` are what the page does in one step to all of them. Of the speech service it keeps
what the page shows: whether it listens, its role and its language.

**`Interview`** models the rest of the page: a text that is heard (`Heard`, with the role that the
words or the AI service give it: `HeardAnswer`), typed (`Typed`, `TypedAnswer`), analyzed (`Trigger`,
`QuestionsArrive`, `EvaluationArrives`), the choice of a question, the report and the summary. A
text is the number it was said with. `call` has the requests under way, with the transcript they
were sent (`of`); `Past` stands for anything of an interview that was reset. `said`,
`waited`, `cleared`, `relabelled` and `awaited` are history.

**`JobPage`** and **`WorkspaceTools`** compose `DemoStore` with its clients. In both, a
request of the client is a step of `DemoStore` together with the client's own; any step of
`DemoStore`'s `Handler` may be on behalf of other tabs (`Elsewhere`, `OtherRequest`), and a restart of
the server ends the requests of all (`ServerRestarts`, `RequestsLost`).
`JobPage` is the page of a new job and the page of a job: it keeps the job as it was loaded
(`shown`), the CV previewed and the document that arrives for it. `WorkspaceTools` is the panel around
every page: `seedWorkspace` resets the store and then creates, fills and ranks a job at a time (`tool`,
`left`), `importCVsToJob` and `resetWorkspace` are one request each. The store's own properties are
checked there, under the seed, the import and two tabs.

`MCSessions` (for both runs of `Sessions`), `MCMembership`, `MCJobRanking`, `MCResumeIntake`,
`MCEmailVerification`, `MCSpeechCapture`, `MCAudioCapture`, `MCInterview`, `MCJobPage`,
`MCWorkspaceTools` and `MCAIRerank` hold the symmetry sets and small constants of the runs. A module
that ends in `Proofs` has proofs: `CopilotProofs` those about `AudioCapture`, `SpeechCapture` and
`Interview`, `DemoStoreProofs` those about the store and its clients, `RankingProofs` those about
`BaselineRanking` and `AIRerank`, the others those about the module they are named after. As the three
modules of the copilot are proved about together, `SpeechCapture` has `SInit`, `SNext`, `SSpec`,
`listening` for the service's field `isListening` and `ChangeLanguage` for its `setLanguage`, and
`Interview` `IInit`, `INext` and `ISpec`.

## Runs

| Run | Instance | Shows |
|---|---|---|
| `sessions` | 1 member, 3 tokens, 2 requests, clock 0..2, grace 0 | one live token per family, one chain, final revocations, refinement of `SessionStore` |
| `sessions_members` | 1 user in 2 workspaces, one still to be verified, 2 tokens, 2 requests, clock 0 | no live token for inactive members but the one of a verification link; every request ends, the opposite lock orders notwithstanding |
| `membership` | 2 people, 2 invitations, 2 requests | invitations decided once, by their live link, one pending per address; the last administrator is lost to a named race only |
| `job_ranking` | 3 lists (one empty), 3 versions, 2 candidates, 2 runs, 2 requests | snapshots are faithful, version numbers never collide, refinement of `RankingHistory` |
| `resume_intake` | 2 contents, 3 resumes, 2 jobs, 2 requests of up to 2 files | files and rows agree, answers are true of the content of their file, only overlapping uploads duplicate |
| `email_verification` | 1 address, 3 tokens, 3 requests | a link is spent once, and an address is verified by one of its own or by an invitation; an unverified user has a link; two live links, and a circle of waits, only after a named race |
| `speech_capture` | 2 texts, up to 4 phrases, 6 passed on | phrases in order and once, but around a stop; nothing shown is lost; listening resumes |
| `audio_capture` | 2 starts, 2 languages | nothing stays on, and nothing is sent, when the page does not listen, but for two cases it names; the page shows what the service does |
| `interview` | 2 texts, 2 calls at a time | no text lost or doubled; all that is shown is about this interview's transcript; work is announced; answers are the candidate's |
| `job_page` | 1 job, 2 CVs, 2 requests | document and evaluation shown are of the CV previewed, but for two cases it names |
| `workspace_tools` | a seed of 2 jobs over a store of 2, 3 ids of jobs, 2 CVs, 2 requests, failed writes and restarts | counts, numbers and runs of stored jobs agree; uploads are lost to overlaps only; an undisturbed seed leaves whole jobs |
| `ai_rerank` | 3 jobs, 5 CVs for each of 3 candidates, 5 environments, 3 kinds of remark | the upload decides between equals only; who is better on every requirement scores no less, and the drop at the minimum ends at 0.92; a model loses nobody and moves only whom it names; no key twice, none skipped |

In most modules the type invariant is the first conjunct of one of the properties, whose comment
says so ("Besides the types").

*Bounds.* The properties relate at most two tokens, requests, invitations or resumes; the third
token gives a family two rotations, or a rotation and a new session; the third version an edit after
an edit that lost a race. Two requests are enough for every race named here because each is between
one request that has read and one that writes. Three parties matter for lock queues only, and the
proofs hold for any number of them. The clock (`MaxTime`) reaches the end of the
grace period and of a token's life. `Token`, `Run`, `Resume`, the demo's `Job` and `Cv` are also
bounds: when they run out a request ends without effect (`IdsUsedUp`) or goes no further, and can
still fail. `MaxSpoken` and `MaxFinals` bound what is said and passed on: four phrases are one
before, one flushed, one repeated and one after. `EmailVerification` has three requests, for two
resends and a verification, or an invitation in the place of any. `AudioCapture` has two starts (`MaxStarts`): one that was left behind
and one that meets its rests. `Interview` has two texts (`MaxSaid`), one classified while the other
comes in, and two calls, which overlap in every pair of kinds. `JobPage` needs one job: its pages
show one at a time; two CVs to take one for the other, and a second request to get between.
`WorkspaceTools` needs a third job id for a job that the limit (`Limit`) drops. `ai_rerank` has jobs
with every kind of requirement, CVs that are equal, that differ in years only, and that say nothing;
environments with a key given twice, with one provider, with none, and limits of one candidate and of
less than one.

`CHECK_DEADLOCK FALSE` is set for `membership`, because a workspace that lost its last
administrator and has no pending invitation really has no further step; for `ai_rerank`, which is one
request that ends; and for `interview`, whose texts run out.

*Fairness.* `FairSpec` of `Sessions` asks for strong fairness of each request's steps. Go runs every
request's goroutine, and PostgreSQL queues those who wait for a row lock and grants it in turn, so
that a request whose row is free again and again gets it; deadlock detection is a step of the
request it cancels. No fairness is asked of arrivals, clock, errors or clients. `RequestsFinish`
needs it. `FairSpec` of `SpeechCapture` asks that a recognition that was stopped or aborted ends,
which the browser promises with its `end` event; `RestartsWhileListening` needs it. All other
properties are safety properties.

## What the models say about the documents and comments

Where the code does less than one expects, the property names the exception, and the run shows that
there is no other:

* `docs/architecture/security.md` has a reused refresh token revoke its family; a rotation in
  flight inserts a token that the `UPDATE` at `sessions.go:526` does not see, and it stays live.
  `OneLivePerFamily` holds all the same.
* `README.md:135` has the last active administrator protected; two changes of members that rely on
  each other (`members.go:248`), or an administrator who accepts an older invitation with a lesser
  role, leave none (`AdminsLostOnlyToRaces`).
* Seven of eight required years score 0.923, eight score 0.92 (`baseline.py:160`, `165`):
  `MoreYearsNeverHurt` compares on each side of the minimum, and says of those who cross it that they
  keep 0.92 at least.
* Equal candidates are ordered by id (`baseline.py:373`), which is the place in the upload
  (`route.ts:426`), compared as a string: the upload decides ties (`UploadDecidesTiesOnly`).
* An accepted invitation (`invitations.go:398`) verifies an address without any of its links and leaves
  the one of its registration live, which still opens a session (`OneLinkUnlessRaced`).
* A positive limit of candidates below 1 (`route.ts:575`) is cut to 0: no model is asked, though the
  page announces one. `ProvidersInTurn` has `aiCandidateLimit = 0` as a case of its own.
* Any later analysis wipes the error of a report that failed, and the summary then shows a score of
  8.5 without a report: `awaited` in `BusyWhileWorking`.
* A stop while the microphone is still being asked for does not stop it, and a reset while listening
  leaves streamer and socket on: `untimely` and `wasReset` in `AudioCapture`.

## Proofs

Each is for all values of the constants that the module's `ASSUME`s allow: finite or
infinite sets of requests, rows and texts, any bounds. The pattern is the same everywhere: an
inductive invariant (`IInv`, where no other name is given), which TLC has checked on the run's instance, a lemma for the initial states and
one per part of `IInv` or for the whole, with one case per action; then the properties.

`SessionsProofs` proves `TypeCorrect`, `OneLiveToken`, `ChainCorrect`, `InactiveHoldsNone`,
`RevokedForGood` and `Refinement`. None of the safety properties is inductive alone. `IInv` adds
* `RowsInv`: uncommitted rows are blank, owners and families exist;
* `LinkInv`: `replaced_by` goes from a revoked row to another row of its family, injectively, and
  reaches every row but the first;
* `LockInv`: a request past its first query holds the token it read as live; whoever is
  about to issue a session or to change a member holds the member's row, so that "still
  active" and "no successor yet", once read, are true at the commit;
* `ChangeInv`: a suspension under way holds, or still has on its list, every live token of its member.

`OneLivePerFamily` follows because a rotation revokes, in the step in which it inserts, the token it
holds locked; `InactiveMemberHoldsNoSession` because an issuer and a suspension exclude each other
by the member row. `TypeStep`, `LockStep`, `TokensStep`, `ChangeStep`, `InactiveStep` each preserve
one part, by one case per action; `Invariance` combines them. `Refinement` shows that each step of a
handler maps to a step of `SessionStore` or to a stutter, under the mapping `Current`.

`JobRankingProofs` proves `TypeCorrect`, `SnapshotCorrect`, `VersionsNumbered` and `Refinement`. Its
`IInv` adds to `TypeOK` and `SnapshotFaithful`
* `RankingInv`: a ranking's version exists and its requirements are that version's, which
  holds to the end because versions are never rewritten;
* `LockInv`: whoever is about to insert a version holds the job's row, and the version it saw is
  still the current one.

`MembershipProofs` proves `OnePending`, `LiveInvitation` and `LostOnlyToRaces`. `IInv` adds what a
request between two steps is about (`Aimed`), that whoever joins has the lock of an invitation that is
pending (`Locked`), which keeps resends and revocations out until the commit, and that what
`ensureAnotherAdmin` found holds until members change (`Counted`); the last is why every loss of the last
administrator needs a change in between.

`ResumeIntakeProofs` proves `ObjectsThere`, `TrueAnswers` and `RacesOnly`. `IInv` adds how many files
and answers a request has (`Sized`) and what it knows of the resume in hand (`InHand`): its id is
nobody else's and not committed, its object is stored before it is inserted, and no resume of
those that the lookup saw has its content.

`EmailVerificationProofs` proves `SpentOnce`, `HasLink`, `OneLink` and `Circle`. `IInv` adds which rows
a request has locked at each step and what it read of them (`Placed`, `Held`), that a link that is
locked works, or is being used by the holder of the lock (`Linked`), and that without a race there
is one live link, or the one that a resend is about to revoke (`Single`). So a resend that revokes links inserts one in
the same step, two verifications of one link exclude each other, and whoever verifies an address, by
link or by invitation, holds its user's row (`Owning`). `Circle` reads off `IInv` that in a circle of
waiting requests either a verification has a second link to revoke, or everybody is a resend
that holds one link and waits for another (`WaitsForUser`, `WaitsForLink`).

`CopilotProofs` proves `NothingLeftOn`, `NothingSent` and `PageIsRight` of `AudioCapture`. `CaptureInv`
adds that nothing is there of starts to come (`Fresh`), whom `ws` and the equaliser belong to
(`Quiet`), and, unless something untimely happened, that either all is off or only what the last start
made is there (`Settled`). Of `SpeechCapture` it proves `Follows`, `OnceInOrder` and `ShownKept`.
`SpeechInv` adds that what is heard or shown comes after all that was passed on (`Later`) and that the
final text before a guess is forgotten (`Forgotten`), so that the same words said again are no
repetition. Of `Interview` it proves all four properties of the run: `NothingLost`,
`ShownOfInterview`, `EvaluatedAnswers` and `BusyShown`. `InterviewInv` adds
* `Waiting`: no two calls ask for the speaker of one text, such a text is not in the transcript, and if
  a later one is, it has been noted as waiting. That is why an answer that comes late
  neither doubles a text nor puts it out of order unnoticed;
* `Working`: an evaluation under way has an answer to evaluate, and a report asked for is under way,
  failed or there;
* `About` and `Answered`: what calls under way are about, and will be evaluated, is of the transcript
  as it stands or of a past interview. A new text is no old answer because no text is twice in the
  transcript (`Complete`).

The proof is in two layers. `InsertIs`, `TriggerIs`, `EndIs` and `ResetCalls` say what the parts of the
actions do to transcript and calls. `StepIs` shows that each step inserts a text (`Inserted`), asks about one first
(`Asked`), leaves the texts (`TextsKept`) or resets; the parts of the invariant are then preserved by those four
instead of by twenty actions.

`DemoStoreProofs` proves `Consistent`, `Faithful`, `LostToOverlap`, `WholeSeed`, `DocumentOfCv` and
`ResultOfCv`, the first three about every handler of `DemoStore`. `DInv` says that each job in memory, on
disk or in the hands of a
request is a good one (`Goods`: its CVs are numbered through, so that the numbers an upload goes on with
are free), that a CV belongs to one job (`Own`), and that whoever has a job in hand has its safe CVs, so
that saving it loses none (`Held`). `SavedIs`, `UploadGood` and `SaveStep` are the lemmas about `saveJob`
and `upload_cvs` that all handlers share. `Tooled` and `Seeded` say how far a tool is, and what an
undisturbed seed has left in the store at each of its awaits. Each step of `JobPage` is one of
`DemoStore` or none (`PageIsHandler`), so `DInv` holds there too; `Shown` adds what the page has in
hand: a good job, whose numbers are one CV's each.

`RankingProofs` proves the four properties of `AIRerank` for any finite set of candidates, any jobs, keys
and answers: `UploadDecidesTiesOnlyHolds`, `BetterNeverScoresLessHolds`, `ModelOnlyReordersHolds` and
`ProvidersInTurnHolds`. Most of it is about the operators. Induction is by least counterexamples
(`HasLeast`, `Every`), which are sets and so within the prover's reach:
* `SumIs`, `SumsStep`, `SumBound`: `SumFunction` is a recursive function on the sets of arguments; sums
  are bounded and grow with their parts, so that a weighted mean stays in the range of what it is the
  mean of (`MeanIsFinal`) and grows with it (`MeanGrows`), the rounding included (`RoundedMonotone`);
* `SortingIs`: a total order on the first n numbers puts each of them at a place of its own, the
  number of those before it. `InOrder` follows the order (`RankOrderIs`, `RerankedIs`), and reordering
  what is sorted changes no one's place (`OrderOfPayload`), because scores, confidences and ids
  together are an order without ties. `RankedOf` and `ProfileDecides` say that an entry of the ranking depends on
  the CV alone, apart from its id, and `OnlyTies` that whoever got ahead by another id was an equal;
* `AssessInRange`: every kind of requirement gives a score and a confidence in their ranges, and
  `YearsGrow` is about both sides of the minimum and the drop between them;
* `KeysAre`: no key is there twice; `RoundIs`: a round that starts anywhere has asked each of them once.

`RerankInv` is inductive and says that the baseline and what is saved are functions of the inputs and
the answer (`Saved`), and which keys were tried at each step (`Turns`). `OrderIsOfAnswer` then compares
two candidates before and after the merge: whoever gets ahead was raised, or the other lowered, because
the place in the baseline decides between equals.

Only model-checked: `RequestsFinish` and `RestartsWhileListening`, as liveness is beyond the prover.

## Not modelled

Cryptography (password hashes, JWT signatures: a token is a fresh value), SMTP, HTTP parsing and
validation messages, names and texts, audit rows, the parsers of the AI service, and
the empty packages. `deleted_at` of jobs, resumes and candidates, which nothing sets. Read-only handlers
are no actions. A rate-limited call is a call that did not happen. Further:

* the rate limiter is one Redis script, candidate status one locked transaction: neither has a step
  that another process can come into;
* the grace period's clock is read after the lock wait, the weight is rounded by `numeric(8,4)`: the
  numbers are abstracted;
* in `DemoStore`, the preview files (one per CV, written once);
* in `Interview`, the moment between a `setState` and the next rendering (a handler sees what the
  page shows), the double calls of React's development mode, the page's unmounting, its tabs and
  the texts still being said;
* the settings other than keys and languages, the JD assistant, and where panels float.

## What is left

1. The composition of `Interview` with `SpeechCapture` (both share the speech service's callbacks).
2. Clients of the ranking request with time limits and retries around `JobRanking`.
3. The parser's merge of date ranges and its first-match rules.
4. Runs for the sentences above as violations of their own, and for "a duplicate refresh is tolerated
   for five seconds", which `classifyRefresh` measures by a clock read after the lock queue.
