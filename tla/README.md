# A formal model of the HSK 3.0 application

TLA+ specifications of the parts of this repository whose correctness depends
on interleavings, lost answers, crashes and time; TLC configurations that
model-check them on small instances; and proofs, checked by TLAPS, that hold
for every instance.  `PROJECT.json` maps every definition to the lines it
models.

## 1. The system

A NestJS backend (an API process and a worker process), PostgreSQL through
Prisma, a private S3-compatible object store, a pg-boss job queue that lives in
the same database, a ClamAV scanner, a mail provider, and a Next.js frontend
whose server keeps the session cookies (a "BFF").  Several API processes may
run, so everything two requests share is in PostgreSQL or in the object store;
almost every hard behaviour is two transactions, or a transaction and an
object-store call, in an order nobody wrote down.

| Component | State it keeps | Operations | What makes it hard | What makes it correct |
|---|---|---|---|---|
| **Media ingestion** (`cms/media-ingestion`) | `MediaIngestion`, `Media`, objects | `ingest`, `retryCleanup` | lost COMMIT acknowledgements, late PUTs, crashes, concurrent requests with one Idempotency-Key | fencing by `processingToken`; no untracked object; a true answer; at most one Media |
| **Accounts** (`auth`, `user`) | `User`, `UserSession`, `AccountDeletionRequest`, jobs | login, refresh, logout, deletion request, anonymization | transactions that wait for each other's rows, unlocked reads, a job racing a change of mind | linear rotation; nothing before the grace period ends; nothing left after erasure |
| **Frontend sessions** (`proxy.ts`, `features/auth`) | cookies, refreshes in flight | refresh, me, recovery, login, logout | several tabs, several processes, answers lost after the rotation | no false alarm; an outage signs nobody out; a logout leaves no session behind the browser's back |
| **Data export** (`user/data-export*`) | `DataExportJob`, export objects | request, job, download, purge | crash between PUT and UPDATE, operator intervention, clock windows, reading while the learner goes on | every file is purged; a file describes one moment |
| **Lesson activity** (`learning/activity`) | attempts, progress, events, plan items | start, submit, complete | several devices, retries, editors who publish and archive meanwhile | a key is stored once; progress that follows the attempts; completion earned |
| **CMS** (`cms`) | revisions, reviews, lessons, topics, exercises, imports, `Media` | revise, review, publish, archive, import, quarantine | two editors, lock order, media withdrawn meanwhile | only the latest approved revision goes live, complete |
| **Path, home** (`learning/path`, `learning/home`) | none of their own | read the path, the next lesson, the streak | parallel reads outside a transaction, midnight, time zones | what is offered opens; following it finishes |
| **Onboarding** (frontend and backend) | goals, plans | pages, forms, `setGoal`, `generateLearningPlan` | a chain of calls that fails half way, two tabs, edits | no dead end; a plan for the active goal |
| **Curriculum tables** (migrations) | levels, lessons, topics, tests, goals, ... | triggers of every write | READ COMMITTED, rows locked by triggers and foreign keys | bands fit their levels; content stays where its parent is |
| **Upload admission**, scanner | slots, `MediaUploadRateLimit` | guard, acquire, scan, release | deadline, disconnect and completion of one upload | slots are held exactly while an upload is inside |
| **Private media access** | none; two secrets | issue and verify links, read objects | rotation of the secret, late headers | links survive; streams are closed |
| **Mailed links** | token rows, mail jobs | request, mail, confirm | a retried job replaces a token already mailed; the account closes | old links are dead; requests settle |
| **Rate limiting**, lockout | `RateLimitCounter`, counters of `User` | increment, claim, reset | attempts that read together; ends of windows | the limits bite when, and as long as, they say |
| **Media metrics** | cache, active collection | scrape, collect | a call that outlives its timeout | one call at a time |
| **Migration scripts** | migration history, process groups, sessions | deploy, resolve | killed processes whose sessions go on; late deadlines | the history and the exit codes are true |
| Job queue | pg-boss tables | send, fetch, retry | retries, exhaustion | a transactional job runs if and only if its transaction committed |
| Configuration, health, dictionary, other pages and scripts | none that others depend on | | | |

Components interact through rows (an export and a deletion lock the same `User`
row), through jobs enqueued in the transaction that needs them, and through
object keys written in rows.

## 2. The modules

| Module | What it is |
|---|---|
| `MediaIngestion` | one row under concurrent upload and cleanup requests |
| `MediaIngestionLifecycle` | abstract: what the table's CHECKs and trigger allow |
| `IdempotentUpload` | abstract: what an Idempotency-Key promises |
| `MCMediaIngestion` | the instances TLC checks |
| `MediaIngestionProofs` | the theorems about `MediaIngestion` |
| `AccountDeletion` | one account under logins, refreshes, deletion requests, the job |
| `AccountPromise` | abstract: what an owner who asks for deletion is promised |
| `MCAccountDeletion` | the instances TLC checks |
| `AccountDeletionProofs` | the theorems about `AccountDeletion` |
| `DataExport` | one user's exports: requests, job runs, downloads, purges, the operator |
| `MCDataExport` | the instances TLC checks |
| `DataExportProofs` | the theorems about `DataExport` |
| `LessonActivity` | one learner's five writes from several devices, the editors, the account |
| `LearnerRecord` | abstract: how a learner's rows may change, without locks, retries or content |
| `MCLessonActivity` | the instances TLC checks |
| `LessonActivityProofs` | the theorems about `LessonActivity` |
| `SessionRefresh`, `MCSessionRefresh` | one browser's cookies, the frontend processes, the backend's sessions |
| `SessionRefreshProofs` | the theorems about `SessionRefresh` |
| `CmsWorkflow`, `MCCmsWorkflow` | administrators' transactions around a lesson, lock by lock |
| `CmsWorkflowProofs` | the theorems about `CmsWorkflow` |
| `CurriculumIntegrity` | the triggers of the curriculum's tables under concurrent statements |
| `ExportSnapshot` | what one run of the export reads |
| `MigrationRecovery` | deploying a migration and resolving a failed one |
| `LearningPath`, `StudyStreak`, `Onboarding` | a learner's path, streak, and way through goal and plan |
| `MCDataIntegrity` | composes the six before it but `Onboarding`, on disjoint state, for any values of their constants |
| `DataIntegrityProofs` | the theorems about these five, and that the composition runs each of them |
| `MCLearnerJourney` | composes `LearningPath` and `Onboarding` for their liveness |
| `UploadAdmission` | uploads from the guards to the answer, the scanner included |
| `MediaMetrics` | the database gauges of the metrics endpoint |
| `MediaAccess` | signed links and the reads they allow |
| `AccountMail` | password-reset and verification links |
| `LoginAttempts` | the two counters that bound sign-in attempts |
| `MCBackendEdge` | composes the five before it, on disjoint state, for any values of their constants |
| `BackendEdgeProofs` | the theorems about the five, and that the composition runs each of them |

Operators whose comment begins with "Mutant" are deliberately broken forms of
the operator that follows them.  No specification uses them; substituting one
must make a property fail, which shows that the property depends on the code.

### 2.1 Media ingestion

`MediaIngestion.tla` follows `media-ingestion.service.ts` await by await: `pc`
is the await a request is at, so every step is the code between two awaits.
Rows of different (actor, Idempotency-Key) pairs share nothing, so there is one
`row`.  A request's identity is its `processingToken`; the object key an attempt
builds is named by the attempt.

- A transaction is one step (`Acked`) when the client hears of its COMMIT.  When
  it does not (`Lost`), it stays in `inflight`; it later commits against the row
  it then finds (`Land`) or rolls back (`Vanish`).  The service's rereads are
  actions of their own, since they may see either.  A lost answer is always one
  the service classifies as a connection error or a timeout; a deterministic
  failure of a small closing transaction is covered by `Lost` then `Vanish`.
- A PUT the client stopped waiting for stays in `puts` until it lands
  (`LandPut`), dies (`DropPut`), or its latency bound passes.  The S3 client
  makes up to `PutAttempts` attempts; the adapter's deadline and error
  classification decide which failure the service records.
- The 60-second settling window is `Settling`, a storage deadline `OpTimeout`.
  The code reads the clock after HEAD/DELETE/HEAD: `view.seen` is the instant
  the provider answered, `now` the one the code compares.  The first stamp is
  read later still, in the transaction that stores it, so two observations may
  be a little closer than the 60 seconds of `docs/adr/ADR-005` (line 89):
  `CleanedIsGone` says what the window is for, and `TimingAssumption` what it
  needs.
- `Crash` ends a request at any await.
- Abstracted: file processing and scanning are a choice of verdict
  (`Validate`); the refusals of `finalizeMedia` (account, source, fence) are one
  branch; audit rows and metrics are left out; a failed DELETE may have deleted.

`MediaIngestionLifecycle` states what the database accepts of the row (status
moves, the fence, the cleanup mark, the CHECKs).  `LifecycleRespected` says that
the service implements it: the trigger's exception is never met, not even by a
transaction that commits late.  `IdempotentUpload` is the client's view;
`UploadIsIdempotent` maps its assets to `media` and its answers to `reply`.

### 2.2 Accounts

`AccountDeletion.tla` models one account at the level of statements.  PostgreSQL
runs these transactions under READ COMMITTED, so what a transaction reads may
change before it writes; what it has locked may not.  A transaction that can
wait while it holds a lock is cut at that point: `userLock` is the
`FOR UPDATE` lock of a deletion request on the `User` row (it also blocks the
foreign-key check of an INSERT into `UserSession`), and `sessionLock` the lock a
refresh holds on the session it claimed.  Waiting is a step that is not enabled.
A deletion request that waits for a session whose refresh waits for the user is
a real deadlock: PostgreSQL aborts one (`AbortRefresh`, `AbortDeletion`).

- `view.began` is the instant a call last read the clock by `CURRENT_TIMESTAMP`,
  which is the start of its transaction; `due` is `scheduledAt`.
- A login checks the account, verifies the password and only then inserts its
  session (`OpenSession`), in a statement of its own.  The model keeps the
  window open: the account may be pending by then.
- The job of a request is delivered from `due` on, at least once: a thrown
  error, a dead worker or a lost acknowledgement uses a retry
  (`Anonymize` with `JobRetried` is a commit whose acknowledgement was lost);
  a job without retries left is `failed` until an operator enqueues it again, as
  `docs/operations/WORKER_JOB_PROCESSING.md` asks (`Requeue`, external).
- Abstracted: passwords, the lockout counter and the e-mail throttle are a
  choice between going on and an error; session expiry and the 10-second grace
  of a reused token are choices; tokens for password reset, the mail job and the
  audit row belong to other components.

`AccountPromise` is what ADR-001 promises: erasure no earlier than the grace
period, a sign-in that takes the request back until then, and erasure for good.

Documents say that a job that comes before `scheduledAt` returns without a
change (`WORKER_JOB_PROCESSING.md`, ADR-001); the code throws instead
(`anonymize-account.job.ts:94`).  No run shows it because the queue never
delivers the job before `startAfter`, which is `scheduledAt`.

### 2.3 Data export

`DataExport.tla` models the exports of one user.  A `DataExportJob` row is named
by the request that inserts it; a run of its job, and the object it uploads, by
the row and a number, since every run draws a fresh random key.

- A request is a transaction cut at the `User` lock (`Check`) and at its COMMIT
  (`Insert`); `began` is its `CURRENT_TIMESTAMP`, hence `createdAt`.  The account
  may be closed and reopened under the same lock (`AccountDeletion` has the
  details).
- A run is cut at its awaits: the locking transaction (`Claim`), the snapshot,
  the upload, the final UPDATE.  The two UPDATEs that end a run name the row by
  id only, whatever its status is by then.  An upload that fails may have stored
  the object, or store it later (`late`, `PutLands`).
- pg-boss gives up on a run that throws, whose worker died, that expired, or
  that a stopping worker abandoned (`JobExpires`); the run may still be going
  when the job is handed out again.  It accepts an answer only for a job that
  is active.
- `FailStuck` is the runbook's UPDATE, external to the source.
- `outputExpiresAt` is always `completedAt + Availability` while the status is
  completed, so it is no variable.  The list of exports, the checksum and what
  an export contains are left out; a download that finds no row answers 404 and
  changes nothing.
- The purge's `LIMIT 100` in id order is any non-empty part of the rows that are
  due.

### 2.4 Lesson activity

`LessonActivity.tla` models the writes of one learner: starting and completing a
lesson or a topic, and submitting an exercise.  Each is one transaction that
locks the learner's `User` row `FOR UPDATE`, then locks and reads the content it
is about (`FOR SHARE`), and from there to its COMMIT touches only rows that
these two locks protect.  So it has three steps: `LockUser`, `LockContent`, and
one that judges, writes and commits.  `stage` says which locks a request holds;
waiting is a step that is not enabled.

- A `body` is what a device sends: key, operation, target, answer.  A device
  sends any body again at any time, whether or not it heard the answer (`Send`);
  the same key may come with another body.  `Abort` is every rollback the code
  does not decide.  A lock timeout or a lost connection is answered 503; when the
  transaction is the victim of a deadlock, the service answers 409 and asks for a
  retry (`lesson-activity-persistence.ts:13-15`), also when the key is stored.
  That deadlock needs a lesson or topic editor who works from the learner's own
  account: she holds the lesson and needs a `KEY SHARE` lock on the account's row
  for `authorId` (`cms.service.ts:877-898`), while the learner's write holds that
  row and waits for the lesson.
- A submission looks its key up before it locks content, the other four after:
  a replay of a start or a completion is therefore answered 404 once the content
  is hidden, as `docs/api/api.md:487-491` says, while a replayed submission
  keeps its answer.
- `loaded` is what a write has read under its locks: the public graph of the
  lesson, the exercise's version, the stored event, the latest attempt number.
- Editors take the lesson `FOR UPDATE` before they change its topics or
  exercises.  An exercise author first locks her own `User` row, `FOR SHARE`;
  when she works from the learner's account (`author.own`, a choice among
  `AuthorIsLearner`) the two kinds of transaction could wait for each other, so her
  locks are separate steps in `LockOrder`.  Withdrawing a recording locks only its `Media` row: it is the one
  change of the content that a write may overlap.
- Content is named by its place (`orderIndex`, id); a republication that moves
  an item is not modelled.  The lessons are those of one published level, and a
  plan is generated for that level (`GeneratePlan`, onboarding and goal changes).
- Answers are right or wrong: version `v` of an exercise has the right answer
  `v`.  Durations, the payload of the answers and the read-only queries are left
  out.

`LearnerRecord` has no requests, locks or content: five operations on statuses,
submissions and a journal, each under a fresh key.  `RecordSpec` says that
`LessonActivity` implements it.

### 2.5 Frontend sessions

`SessionRefresh.tla` has one browser with its two cookies (`jar`), its requests,
and the frontend processes, each with its single-flight map (`flight`).  A token
is named by the session it belongs to.  Time is what the code compares: an access
token is fresh (more than 120 s left), expiring or expired; a rotated session is
within its ten seconds of grace or past them.

- Every call of the frontend to the backend is two steps, the backend's and the
  answer's; an answer may be lost, or come after the client gave up (`late`).
- Assumed, and stated by the guards: a request with a fresh token finishes within
  the 120 s, and a request or an answer is on its way for less than the ten
  seconds of grace, unless it counts as lost (`LoseAnswer`).  The client's
  timeout is 8 s.
- `signIn` is a history variable: the login a session descends from.
- Session caps, devices and passwords are left out; other browsers are too.

### 2.6 CMS workflow

`CmsWorkflow.tla` takes each administrator's transaction apart into the locks it
takes, in the order of the code (`...Locks`), a decision and the COMMIT.  The
locks are what the properties depend on, so they are data (`todo`, `held`) and
one pair of actions serves every operation.

- Content is abstract; what the readiness rules read of it (the audio of a
  listening exercise, a published story) is kept.
- An import's rows are the exercises they become; the validation of a row is the
  choice of file.
- Operations on lessons and topics do not lock the row of the administrator who
  acts, those on exercises and media do.  Which of two reviews of one revision
  is the latest depends on `createdAt`; the model has them in commit order.
- A published lesson may lose its only topic, and the audio of a published
  exercise may be archived later: readers filter both (`LessonActivity`).
  `GoesLiveReady` is about the moment of publication.

### 2.7 Curriculum, snapshot, migrations

`CurriculumIntegrity.tla` gives each statement the program of locks and checks
that PostgreSQL, the foreign keys and the triggers run for it, triggers in
alphabetical order.  The transactions of `OnboardingService` are programs too.
The ownership of review events is left out.  The two triggers that read the Topic
without a lock of their own, those of words and of progress, fire before the
foreign key locks it; what follows for words is in section 3.

`ExportSnapshot.tla` is the REPEATABLE READ transaction of the export: the
snapshot is taken at its first statement, and the learner's transactions commit
at any time.  Rows count one unit of size.  Whether the export reads every table
is not modelled: `assertExportCoverageComplete` is called by a unit test only.

`MigrationRecovery.tla` has the supervising script, its process group, the
schema engine and its session in PostgreSQL, each of which can go on when another
is killed.  `sound` says whether the target's tables are as the history tells.
With `Guarded` FALSE (any target but the one whose residue is probed) a resolve
may mark as rolled back a migration that a later COMMIT applies; the comment at
`bounded-prisma-migrate-resolve-rolled-back.ts:239-240` and
`docs/database/P0_SCHEMA_MIGRATION_RUNBOOK.md:787-789` take it for impossible.
The engine appends its row to the history before it sends the batch, so a batch
that the database refused leaves a row that is neither finished nor rolled back.
What the script makes of it, it reads from the engine's output: exit 75 when a
lock was not granted (before or within the batch), the preflight's own code for a
refusal of the domain checks, and a plain failure when the output does not tell.
Either of the first two says that nothing was applied, not that nothing was
written: the row stands until an operator resolves it
(`docs/operations/MEDIA_INGESTION_RELEASE_RUNBOOK.md:67`).  Exit codes 124 and 70
after a lost COMMIT acknowledgement may hide a commit; the scripts claim nothing
else of them.  A target that failed twice cannot be resolved.

### 2.8 The edge of the backend

`UploadAdmission.tla`: one action is one callback of Node's event loop.  Multer
calls the handler only after the body is complete, and Nest does not cancel a
handler when its client leaves.  Multer is assumed to call back for a body that
arrives, fails or is cut, and for nothing else.  So one upload keeps its slot for
good (`Stranded`): its client leaves after the whole body has arrived, while the
guards still run; the interceptor then arms no deadline and places no listener
(`media-ingestion-boundary.interceptor.ts:158`), and the destroyed request gives
Multer nothing to call back about.  The rate-limit row is shared by all processes
and its transaction reads `CURRENT_TIMESTAMP`; the slots belong to one process.
The scan is a connection of its own: answers come in pieces (`Data`), exact,
wrong, too long or never.

`MediaMetrics.tla`: a promise that settles runs all its reactions before any
other callback.  The scrape's own deadline of 4.75 s is left out: the
collection's timer, at most 4.5 s, fires first.

`MediaAccess.tla`: a process with a current and a previous secret; `Rotate` and
`EndRotation` are the operator's restarts as `.env.example:46-49` asks.  One row
and one process: with several processes restarted one after another, a link
signed with the new secret may reach one that does not know it yet.  The stored
object may be intact, corrupt, swapped or gone.  A read is cut at the deadline,
the headers and the body; `stream` is the response the store's client holds.

`AccountMail.tla`: requests, the `short` policy of the queues, the job's two
transactions and its retries, the confirmation's transaction, and the closing of
the account.  A mail may be delivered although sending it failed.  Not claimed:
a session opened by a login during a reset is not among those the reset revokes;
two worker processes could leave two unused tokens; a link issued after the
account was closed works once it is reopened; a confirmation and a deletion may
deadlock, and the victim rolls back.

`LoginAttempts.tla`: the statements of the throttle and of the lockout, each by
the database's clock.  Whether the password is right is a choice.

### 2.9 The learner's journey

`LearningPath.tla`: the queries of `loadPathState` run side by side, so each has
a read of its own (`Load`), and content and progress change in between.
`Unlocked`, `Current`, `NextLesson` are the policies as functions of the copies;
`Accepts` is the check of `startLesson`, which finds the previous lesson by a
query of its own.

`StudyStreak.tla`: days, a moment fixed by the request, two queries that read
together, the gaps-and-islands query, and the second attempt in the default zone.

`Onboarding.tla`: the four pages with their redirects, the forms, the chain of
calls in the frontend, the two transactions of the backend, another tab, and
edits of the content; `late` has the calls nobody waits for.  Whether Next.js
remounts the plan form after a redirect to the same page is a choice; a late 401
of an abandoned submission that would clear a newer cookie is left out, and the
status a page reads is one atomic read.

## 3. What the runs check

| Run | Instance | Shows |
|---|---|---|
| `media_ingestion` | 2 uploads of one content, 2 cleanups, lost answers, crashes, 2 PUT attempts | `CleanedIsGone`, `SideEffectsAreFenced`, `RepliesAreTrue`, `UploadIsIdempotent` |
| `account_deletion` | 2 logins, 2 refreshes, 2 deletion requests, 1 retry | `RotationRespectsDeletion`, `PromiseIsKept` |
| `export_overlap` | 1 request, 1 retry, 2 purge workers | `DownloadsFindTheFile`, `PurgeForgetsNothing`, `ExportsSettle` |
| `export_orphan` | 1 request, 1 retry | **violated**: a file no row names survives the purge |
| `lesson_course` | 1 device, a whole lesson (2 topics, 2 exercises, one of them listening), editors of topics, an exercise author who may be the learner | `CompletionIsEarned`, `RecordSpec` |
| `lesson_devices` | 2 devices, 2 lessons, one exercise under 2 keys and a reused key, one key expires, the account closes and reopens | `AcknowledgedIsStored`, `RetryIsNotAConflict` |
| `session_refresh` | 2 tabs, 2 frontend processes, 4 sessions, 1 fault | `NoFalseAlarm`, `LogoutEndsTheSignIn`, `OnlyAVerdictClears`, `RequestsAreAnswered` |
| `session_race` | 2 tabs, 1 frontend process, no fault | **violated**: the loser of a refresh race clears the winner's cookies |
| `cms_workflow` | 3 administrators, 3 transactions, a draft lesson, 2 topics, 3 exercises, an audio, an import key with two files | `OnlyApprovedGoesLive`, `GoesLiveReady`, `VersionNamesTheContent`, `ImportsAreExact`, `NoDeadlock` |
| `data_integrity` | 3 transactions of 17 statements; 2 writes during an export; 2 migration runs; 3 lessons on 2 levels with an edit; 6 instants of 2-instant days | `BandsFit`, `PlacesAgree`, `PlanFollowsTheGoal`, `CopyHangsTogether`, `HistoryIsTrue`, `ExitsAreTrue`, `OffersAreHonoured`, `StreakIsExact` |
| `backend_edge` | 2 uploads for 1 slot; 2 scrapes, 3 collections; 1 link, 1 read, 2 rotations; 2 mail requests, 2 confirmations; 3 attempts | `SlotsAreHeld`, `UploadsEnd`, `OneCollection`, `LinksSurviveRotation`, `StreamsAreClosed`, `OldLinksAreDead`, `RequestsSettle`, `LimitsAreExact` |
| `learner_journey` | 3 lessons on 2 levels with an edit; 2 goals, a change, a fault | `FollowingFinishes`, `LearnersArrive` |

Other configurations are run by hand, when the part they are about changes:

| Configuration | Shows |
|---|---|
| `MCMediaTwoContents.cfg` | two contents under one key, reachable database: `UploadIsIdempotent`, `AttemptsSettle` |
| `MCMediaOrphan.cfg` | **violated** `FailedHasNoObject`: `classifyS3WriteFailure` (`s3-object-storage.adapter.ts:368`) judges the last of two PUT attempts, so a `definite_not_written` may leave an object, while ADR-005 line 81 lets it go straight to `failed` |
| `MCAccountSettles.cfg` | `RequestsSettle`: every due deletion request ends, through exhausted retries and the runbook |
| `MCDataExport.cfg` | 2 requests, no retry: `GrantsAreSpaced` and the others |
| `MCExportTwoADay.cfg` | **violated** `OneExportPerDay`: the completing UPDATE (`data-export.job.ts:1089`) ignores the status, so a failed export completes after the next was granted, while ADR-001 line 119 promises one in 24 hours |
| `MCActivityLiveness.cfg` | `RequestsAreAnswered`, `AuthorsFinish`: no cycle in the lock order of learners and authors |
| `MCCurriculumWords.cfg` | **violated** `WordsStay`: the trigger of `LessonWord` reads the Topic before the foreign key locks it, so a word is inserted while its topic moves to another lesson; `docs/database/P0_DATA_DICTIONARY.md:69` says that the trigger ensures the lesson |
| `MigrationRecovery.cfg` | `RunsEnd`, `ReportsComeLast`; with `Guarded` FALSE, `HistoryIsTrue` is **violated** |

They, and the properties below marked (p), are not among the runs that are
repeated every time: (p) properties are proved instead (section 4).

Media ingestion:

- `CompletedIsStored` (p): a completed row has its object and exactly one Media;
  compensation that raced a commit in flight would break it.
- `ObjectsAreTracked` (p): no object, present or still to land, under a key the row
  does not name, whatever crashes.
- `CleanedIsGone`: `OBJECT_CLEANED` is true for good.
- `SideEffectsAreFenced`: who touches the store owns the row at that moment.
- `RepliesAreTrue`: an answered outcome is the recorded one.
- `ReservedKeyIsNeverReused` (p): a reserved key pins the row.
- `AttemptsSettle` (by hand): no handler path forgets a row in progress.

Accounts:

- `RequestMatchesAccount` (p): the account and its requests agree, so the job's
  "Abnormal state" never occurs.
- `ErasedIsClean` (p): no session row survives erasure, although logins insert
  theirs after the checks.  It holds only because a login cannot last half the
  grace period (`TimesAssumption`).
- `RotationIsLinear` (p): a refresh token opens at most one session.
- `RotationRespectsDeletion`: a refresh opens a session only for an active
  account.  The unlocked read is safe because a deletion request must revoke
  the session the refresh has locked.
- `PromiseIsKept`: the refinement.
- `RequestsSettle` (by hand): every due request ends.

Data export:

- `DownloadsFindTheFile`: between the query and the read of the bucket, no run
  and no purge takes the file away.
- `GrantsAreSpaced` (p): two concurrent requests are not both granted, and none is
  after the account was closed.
- `PurgeForgetsNothing`: the purge clears rows by id with a key it read long
  before; the row still names the object it deleted.
- `ExportsSettle` (and `FilesAreDeleted`, by hand in `MCExportOverlap.cfg`): through
  exhausted retries, the runbook and a purge that is cut short.

Lesson activity:

- `LoadedContentIsLive` (p): between the content locks and the COMMIT no editor
  changes what the write was judged by.
- `PointerIsFresh` (p): the place to resume at is never an exercise attempted or a
  topic completed, although attempts, publications and archivings alternate.
- `RecordIsCoherent` (p): no attempt, topic or plan item is ahead of its lesson.
- `CompletionIsEarned`: at the COMMIT that completes a lesson, all that is public
  at that moment is done.
- `KeysAreStoredOnce`, `AttemptsAreNumbered` (p): the unique indexes are never hit.
- `AttemptsAreJournaled` (p), `AcknowledgedIsStored`: an answered submission has its
  event, and the event its attempt under the number that was answered.
- `RetryIsNotAConflict`: a device that repeats a stored write is never told that its
  key or its work is taken.  After a deadlock or an outage it may be told to retry.
- `ClosedAccountIsFrozen` (p): no write overtakes the closing of the account.
- `RecordSpec`: the refinement.
- `RequestsAreAnswered`, `AuthorsFinish` (by hand): the lock order has no cycle.

Frontend sessions:

- `NoFalseAlarm`: tabs, processes, retries and logouts never make an honest
  browser look like a thief, whose alarm would end every session of the user;
  it needs an answer that was lost.
- `OnlyAVerdictClears`: `auth/me` clears the cookies only when the backend refuses
  the session the request presented (E-01), not on a timeout or a 5xx.  The cookies
  in the jar may be another, live session by then: that is `WinnerIsKept`.
- `LogoutEndsTheSignIn`: a logout that clears the cookies leaves of its sign-in no
  session alive but one that another request of the browser is bringing back,
  unless a call failed.  Two cases are excepted although no call fails in them,
  because there a session does live on behind a cleared jar: another tab has
  already replaced the cookies the logout presented, or its access token expires
  on the way.  The backend answers 401 and `session-route-handlers.ts:254-290`
  clears the cookies all the same.
- `RequestsAreAnswered`: none hangs on a flight that another request started.
- `WinnerIsKept` (violated): `session-route-handlers.ts:209` clears the cookies
  on the 401 of a request that lost the race and went on with its unexpired
  access token; `docs/api/api.md:167-174` calls that race harmless.

CMS:

- `OnlyApprovedGoesLive`, `GoesLiveReady`: what is published is the latest
  revision with an approval, under live parents and with ready audio, whatever
  the others did between the locks.
- `VersionNamesTheContent`: answers are graded against the version the learner
  saw.
- `ImportsAreExact`: all rows of a file or none, once for a key and a source.
- `NoDeadlock`: no circle of waiting transactions.

Data integrity:

- `BandsFit`: no interleaving of statements leaves a band outside its level,
  although each trigger reads only committed rows.
- `PlacesAgree`: stories, topic events and exercises stay in the level, the lesson
  and the topic they name while those move; `WordsStay` (by hand) says what happens
  where the trigger reads before the lock.
- `PlanFollowsTheGoal`: a plan belongs to the goal active at its COMMIT.
- `CopyHangsTogether`: plan items, attempts, events and completions in a file
  name one another; no page repeats or skips a row.
- `HistoryIsTrue`: whoever is killed and whatever commits late, the migration
  history tells what happened.  For the `Guarded` target only, the one whose
  residue the script probes; for any other it fails (2.7).
- `ExitsAreTrue`: success means that the migration is there, a refusal by the
  script that the run changed nothing, and a refusal or a lock timeout by the
  database that whatever row the run left is of a migration that is not applied.

The backend's edge:

- `SlotsAreHeld`, `UploadsEnd`: one release for each slot, not before the handler
  ends, and not never, also when the client left before anybody listened; the
  exception is `Stranded` (2.8).
- `OneCollection`: calls that outlive their timer do not pile up in the pool.
- `LinksSurviveRotation`: an unexpired link is refused only if its media was
  withdrawn.  `StreamsAreClosed`: no body stays open after the answer.
- `OldLinksAreDead`, `RequestsSettle`: a reset or a closing kills the links
  mailed before; a request that was accepted is followed by an attempt that ends.
- `LimitsAreExact`: however many attempts overlap, an address is blocked from the
  attempt that exceeds its limit to the very end of the block and not before; and
  since the last success fewer than `MaxLogin` passwords were looked at within the
  time of a lock when another is.

The learner's journey:

- `OffersAreHonoured`: two different computations of "unlocked", one from rows
  read at different moments, agree unless the content was edited in between.
- `FollowingFinishes`: the path never runs dry before the goal is reached.
- `StreakIsExact`: a run of days in one zone, as of one moment.
- `LearnersArrive`: no page is a dead end for a learner who goes on.

The violated `OneExportPerDay` runs with a `StuckAge` longer than any run, so the
operator plays no part in it: of two overlapping runs one marks the export
failed (too large), the next request is granted, the other run completes it.

**Bounds.** Two requests of each kind give every pairwise race and a third
party (the other kind) beside it; a row has one owner at a time, so a third
request of one kind meets only situations a second one can.  The clock bound
`MaxTime` lets the settling window (resp. the grace period) pass with time to
spare; the windows are shrunk but keep the order of the real times (8 s
timeouts, 60 s window; seconds and 7 days).  `PutAttempts = 2` is the client's
`maxAttempts`.  One retry stands for three: the second adds no new state.
`MaxTime` bounds the clock in `Tick` only.  Symmetry is used in safety runs and
permutes calls of one kind, which the specifications do not distinguish.
In the data-export runs one unit is a day: availability and rate window 1,
retention 2, and runs and downloads last at most 1, the longest the proved
assumption `Availability + RunTime <= Retention` admits; two requests and two
runs do not fit one instance, so `MCDataExport.cfg` has no retries and
`export_overlap` one row.
Two devices give every race for one learner's rows, since a third would wait for
the same `User` lock; `lesson_course` has one device because what it asks is
about the editors, who are unbounded there.  `MaxVersion` bounds how often an
exercise is revised, `Bodies` what the devices may send, and the `Edited...` sets
what the editors touch.
In `session_refresh` four sessions let a session be rotated, its successor be
rotated too and a login follow; two tabs on two processes meet in every race, and
one fault is one lost answer or one outage.  In `cms_workflow` three transactions
are two that meet and one that prepared or follows; three administrators are
needed for a circle of three, and the seed puts the publication of a lesson, a
topic and a listening exercise within reach of three transactions.  The sides of
the three composed runs share no variable and explore one at a time, so nothing
is lost by not interleaving them; `MCDataIntegrity` has three transactions for a
write skew that needs two and a third to observe it, all three about bands and
plans (`BandTables`) or about where content belongs (`PlaceTables`), two kinds
that have only the rows of `Lesson` in common; `PageSize` 2 against two
rows from before (`MaxOld`) and those of two writes, for pages that are not full,
full, and more than one.  `MaxInstant` 6 is three
days.  `MaxCollections`, `MaxRotations`, `MaxTokens`, `MaxRetries`, `MaxEdits`,
`MaxChanges`, `MaxFaults`, `MaxOps`, `MaxRevisions`, `MaxAttempts` and
`MaxSessions` bound counters that nothing else would.
Deadlock checking is off in the other runs, where every call
ends, or a bound is reached, and then nothing happens; it is on in the lesson runs, where a device may
always send again.

**Fairness.** `FairSpec` of media ingestion: a request that has begun is driven
to its answer (every await has a deadline).  No request is forced to arrive,
and the database is assumed reachable; with an unreachable one the row stays in
progress and an operator reconciles it, as the runbook says.  `FairSpec` of
accounts: calls that began end; the clock advances; a failed job is enqueued
again (the runbook); and a job that can commit again and again commits in the
end (strong fairness, since a waiting lock disables it in between).
`FairSpec` of data export: runs end, jobs are handed out and
given up, the operator follows the runbook, the purge runs again and again, and
the store does not refuse an object for ever (strong fairness of `Delete` and
`Clear`).  `FairSpec` of lesson activity: row locks are granted in the order they
were asked for, so a request or an author whose lock is free again and again
gets it (strong fairness of a request's steps and of `TakeLock`), and an author
who has her locks finishes; no abort is assumed, so a deadlock would show.

`FairSpec` of session refresh: running processes serve what arrived and their
calls end, by an answer or by the client's timer.  `Fairness` of upload
admission: the callbacks of Node's loop run and timers fire (the deadline, the
scanner's timeout, the end of a transaction and of the store's call); nothing is
assumed of the client, of ClamAV, or of Multer while a body is unfinished or its
request destroyed.  `Fairness` of mailed links: handlers return,
the worker fetches, its attempts end, and pg-boss expires the jobs of a dead
process.  `Fairness` of the path: requests are answered, and the learner asks and
follows, again and again (strong fairness of `Follow`, which an outdated answer
disables).  `Fairness` of onboarding: pages and calls get on, and the learner
perseveres, trying each level (strong fairness of `Choose`).  The composed runs
use these; the other sides' properties are safety.

## 4. What is proved

`MediaIngestionProofs`, `AccountDeletionProofs`, `DataExportProofs` and
`LessonActivityProofs` prove, for any sets of requests and any constants that
satisfy the modules' assumptions, every safety property of their modules that
holds, the refinements and the type invariants included.  The assumptions are
`RequestsAssumption`, `TimingAssumption`, `FaultsAssumption`, `CallsAssumption`,
`TimesAssumption`, `NamesAssumption`, `PeriodsAssumption`, `ContentAssumption`
and `BodiesAssumption`: names are distinct, the time bounds are ordered as in
production, and a course is finite with each exercise in the lesson of its topic.

`SessionRefreshProofs`, `CmsWorkflowProofs`, `DataIntegrityProofs` and
`BackendEdgeProofs` prove every safety property that the runs check of their
modules.  The last two are about the composed modules, whose properties are those
of the parts: `EachPart` and `EachRuns` say that a behaviour of the composition is
one of each part.  What they assume:

- `BoundsAssumption` (`SessionRefresh`): there is a frontend process.
- `ShapeAssumption`, `ParentAssumption`, `TableAssumption` (`CmsWorkflow`): a topic
  has one lesson, an exercise a lesson and perhaps a topic; rows of two tables
  are two rows, ids are keys, and an exercise belongs to one data source.
- `SeedAssumption`, `StatementsAssumption` (`CurriculumIntegrity`): an exercise
  starts in the lesson of its topic; plans are made by the service only.
- `IntegrityAssumption` (`MCDataIntegrity`): finitely many writes, pages of at least
  one row; finitely many lessons whose ids and orders are numbers, each on a level;
  days of at least one instant, the default zone's beginning no later (a zone
  ahead of it is the same but for the number of its days).  `HistoryTrue` also
  assumes `Guarded`: the target is the migration whose residue the script probes
  (2.7 says what happens for another).
- `LimitsAssumption` (`UploadAdmission`), `EdgeAssumption` (`MCBackendEdge`): names
  and bounds, and that a learner's link is valid no longer than an
  administrator's, which is what the operator waits before the previous secret
  is dropped.

The properties are not inductive.  Each proof module defines an inductive invariant,
`IInv`, or one for each part of a composition:

- Media: what a status says of the other columns (`RowShape`), what a request at
  an await may assume of the row (`UploadAt`, `CleanupAt`), what a transaction
  in flight may still do (`TxOK`, `SentBy`), and when an abandoned PUT can land
  (`Timing`).  The heart is that a request owns the row exactly while its token
  is the row's, so a late transaction of anyone else finds its guard false; and
  that an absence seen `Settling` after another one, less a storage timeout, is
  later than the deadline of every PUT issued before the first.
- Accounts: the holder of the `User` row decided on an active account
  (`AccountOK`); a refresh past its claim holds a live session, so no deletion
  request has committed since (`SessionsOK`); a login under way read its clock
  at most `RequestTime` ago, so at the deadline of a request every login
  admitted before it has ended (`ClockOK`, `ErasedOK`).
- Data export: a run still busy on a settled row claimed it before it was
  settled, at most `RunTime` ago (`ClockOK`); so it is over before the file is
  old enough to purge, and what a purge selected is what the row names until it
  is cleared (`PurgesOK`), and a download is over too (`DownloadsOK`).

- Lesson activity: the `User` lock has one holder, who found the account active
  (`LocksOK`), and a lesson that is shared is not locked by an author
  (`SharingOK`); so what a write has read is still true when it commits
  (`LoadedContentIsLive`, `LoadedOK`: the key is still unused, the latest attempt
  still the latest).  `NumbersOK` is the numbering in a form a step preserves,
  `PointerOK` keeps the pointer within its lesson.  The refinement maps each
  commit to the operation of `LearnerRecord` and every other step to a stutter.

- Uploads: the limiter's count is the number of uploads inside the boundary; so
  an upload that enters finds a slot and one that leaves gives one back
  (`Enter`, `Exit`), and every other callback moves an upload without crossing
  the boundary (`Move`, `Keep`).
- Links: each link expires within the validity of its kind and was signed with
  the current secret, or with the previous one while that is kept (`Bounded`,
  `Verifiable`); a read holds a response only at the steps that give it back.
- Metrics: the active collection is the one whose call runs; a timer settles the
  promise and leaves the collection active.
- Mailed links (`MailInv`): one token at most is unused and one call at most has
  claimed it; what was mailed before a reset or a closing is not unused.
- Sign-in attempts (`LoginInv`): the attempts that passed in the window are those
  the counter has counted, and a block begins with the one too many (`ThrottleInv`);
  the passwords looked at within the time of a lock and since the last success are
  no more than the row counts, and the claim that reaches the limit locks (`LockInv`).
- Frontend sessions (`SessionInv`): the two cookies are of one session; a logout
  about to revoke another session than the one it presented has rotated that
  one.  As long as no call failed (`Calm`), a rotated session whose token is still
  in the jar has its successor on the way, in a flight, in an answer or in a
  logout that is going to clear the jar (`Replaced`); a token whose grace is over
  is nowhere any more (`Retired`), so whoever presents a rotated token is within
  the grace.  That a token is only rotated when it is no longer fresh (`Aged`)
  keeps a new pair of cookies from being refreshed at once.  Of each sign-in at most
  one session is alive (`FamilyInvariance`), and without a failed call one that the
  jar does not hold is on its way to it in another request.
- CMS (`IInv` of `CmsWorkflowProofs`) is two-phase locking: a transaction holds, or
  has yet to take, a lock on every row its decision reads (`CoverInv`), and two
  transactions share a row only in share mode (`LockInv`), so what was decided
  still holds at the COMMIT (`DecidedInv`).  Locks are taken in the order of
  `Rank`, the table and then the id (`OrderInv`); in a circle of waiting
  transactions the one that waits for the highest row would wait for a higher one.
- Curriculum (`CurriculumInv`, `PlacesInv`): the same for statements whose locks are taken by
  foreign keys and triggers one after another; `Keeps` says which of the rows a
  check was about stay locked after it, and `Compatible` that no lock another
  transaction holds contradicts it.
- Export snapshot (`SnapshotInv`): every moment of the database hangs together
  (`EveryMoment`), hence the snapshot; the pages read so far are the rows up to
  the last id, in order (`PagesInv`).  That a page is the lowest rows of what is
  left goes by counting the rows below each (`Ranks`).
- Migrations (`MigrationInv`): only the holder of the advisory lock changes the
  history; the residue is probed under it, so nothing of a migration that was
  marked as rolled back is still to be committed, whoever was killed.
- Path (`PathInv`): while the content is not edited, what a query has read is still
  so, but for progress, which only grows (`LoadInv`); and the unlock rule grows with
  progress (`OpenGrows`), so what was open in the copy is open on the server.  The
  choices among lessons (the previous, the latest, the current one) are defined
  because their orders are strict and total and the sets finite (`Best`).
- Streak (`StreakInv`): today and the run are those of one zone, one moment and the
  events the query saw.  A day less its rank is the same for two days exactly when
  no day between them is missing (`IslandIs`), so the group of the last day is the
  run that ends with it (`RunIs`), and counting it is counting back from today or
  yesterday (`RunCounts`).

Each action has one lemma that it keeps `IInv`, with one step for each part.
TLC also checked each `IInv` as an invariant on the instances above before they
were proved.

**Only model-checked:** liveness (`UploadsEnd`, `RequestsSettle`, `ExportsSettle`,
`RequestsAreAnswered`, `FollowingFinishes`, `LearnersArrive`, and by hand
`AttemptsSettle`, `FilesAreDeleted`, `AuthorsFinish`, `RunsEnd`), because TLAPS does
not handle `ENABLED`; and the violations.  Every invariant and action property of a
passing run is proved.

## 5. What is not modelled, and what is left

- Register, password change, the administration of users, profile updates: single
  transactions on one row, without a hand-over to anything else.
- Lists and pages of public lessons, topics and words, health, the dictionary:
  they only read.  `learning.service.ts:74-77` orders pages by `orderIndex` alone,
  so two pages may overlap where places are equal; nothing claims otherwise.
- Configuration and bootstrap run once, before anything is concurrent; pg-boss's
  start-up, shutdown and schedules are the library's.
- Mail transports, log lines and the counters that decide nothing.
- Seeds, generators, scans and evidence scripts are one-off tools run by hand.
- The other pages of the frontend are user interface; generated types are data.

What is left to prove: nothing that the runs check but liveness.  `Onboarding` has
no safety property; what its rows promise is proved of `CurriculumIntegrity`.

## 6. Running

    tlc -workers 2 -config MCMediaIngestion.cfg MCMediaIngestion.tla
    tlc -workers 2 -config MCSessionRefresh.cfg MCSessionRefresh.tla
    tlc -workers 2 -config MCBackendEdge.cfg MCBackendEdge.tla
    tlc -workers 2 -config MigrationRecovery.cfg MigrationRecovery.tla
    tlapm MediaIngestionProofs.tla

and likewise for the other configurations, each with the `MC` module that its
name or the table of runs gives (`MCActivity...` with `MCLessonActivity`,
`MCExport...` with `MCDataExport`, `MCMedia...` with `MCMediaIngestion`,
`MCAccount...` with `MCAccountDeletion`, `MCSession...` with `MCSessionRefresh`,
`MCCurriculumWords` with `MCDataIntegrity`),
and for the other modules of proofs.  A run takes about three minutes at most on two
cores, a module of proofs at most seven.
