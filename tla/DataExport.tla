------------------------------ MODULE DataExport ------------------------------
(***************************************************************************)
(* The personal-data exports of one user: the rate-limited request, the     *)
(* worker that writes the file and marks the row, the download, the hourly  *)
(* purge, and the operator who follows the runbook.                         *)
(* Source: backend/src/modules/user/data-export.service.ts, jobs/           *)
(* data-export.job.ts, jobs/purge-expired-exports.job.ts, the queue in      *)
(* backend/src/infrastructure/jobs/jobs.module.ts.                          *)
(*                                                                          *)
(* A DataExportJob row is named by the call that inserts it.  A run of its  *)
(* job is named by the row and a number, and so is the object it writes:    *)
(* each run draws a fresh random key.  pg-boss hands a job out again when   *)
(* it has given up on a run (an error, a dead worker, an expired or stopped *)
(* one), and the run it gave up on may still be going.                      *)
(***************************************************************************)
EXTENDS Integers, FiniteSets

CONSTANTS
  Requests,      \* POST /users/me/data-exports calls
  Downloads,     \* GET /users/me/data-exports/:id/download calls
  Purges,        \* workers of privacy.purge-expired-exports
  None,          \* no key, no lock
  RateWindow,    \* 24 hours: how long a request blocks the next
  Availability,  \* 24 hours: outputExpiresAt - completedAt
  Retention,     \* 7 days: age at which a file is purged
  StuckAge,      \* 30 minutes: age at which the runbook calls a run stuck
  RunTime,       \* bound on a run and on a download, from its clock reading
  RetryLimit,    \* retryLimit of the queue privacy.data-export
  MaxTime        \* bound on the clock, for model checking

ASSUME NamesAssumption ==
  None \notin Requests /\ None \notin Requests \X (1 .. RetryLimit + 1)

ASSUME PeriodsAssumption ==
  /\ RateWindow \in Nat /\ Availability \in Nat /\ Retention \in Nat
  /\ StuckAge \in Nat /\ RunTime \in Nat /\ RetryLimit \in Nat /\ MaxTime \in Nat
  /\ Availability + RunTime <= Retention

Runs == Requests \X (1 .. RetryLimit + 1)
RunsOf(r) == {a \in Runs : a[1] = r}

VARIABLES
  active,       \* User.status is active and deletedAt is null
  userLock,     \* the request that holds the User row FOR UPDATE
  status,       \* DataExportJob.status, "none" before the row exists
  created,      \* createdAt
  started,      \* startedAt
  completedAt,  \* completedAt; outputExpiresAt is Availability later
  key,          \* outputStorageKey
  job,          \* the state of the pg-boss job of each row
  tries,        \* how often it was handed out
  objects,      \* the objects in the bucket
  late,         \* uploads given up on that the bucket may still carry out
  run,          \* the await each run is at
  runAt,        \* when it claimed the row
  pc,           \* the await each call is at
  began,        \* when its transaction or its query ran
  found,        \* the key a download found
  batch,        \* the rows and keys a purge selected and has not cleared
  current,      \* the one it is at
  now           \* the database clock

rows == <<status, created, started, completedAt, key>>
user == <<active, userLock>>
queue == <<job, tries>>
store == <<objects, late>>
runs == <<run, runAt>>
calls == <<pc, began, found>>
purge == <<batch, current>>
vars == <<user, rows, queue, store, runs, calls, purge, now>>

Calls == Requests \cup Downloads
UnderWay == {"requested", "processing"}
Counted == UnderWay \cup {"completed"}
Entry == Requests \X Runs

Init ==
  /\ active = TRUE /\ userLock = None
  /\ status = [r \in Requests |-> "none"]
  /\ created = [r \in Requests |-> 0]
  /\ started = [r \in Requests |-> 0]
  /\ completedAt = [r \in Requests |-> 0]
  /\ key = [r \in Requests |-> None]
  /\ job = [r \in Requests |-> "none"]
  /\ tries = [r \in Requests |-> 0]
  /\ objects = {} /\ late = {}
  /\ run = [a \in Runs |-> "idle"]
  /\ runAt = [a \in Runs |-> 0]
  /\ pc = [c \in Calls |-> "start"]
  /\ began = [c \in Calls |-> 0]
  /\ found = [d \in Downloads |-> None]
  /\ batch = [p \in Purges |-> {}]
  /\ current = [p \in Purges |-> None]
  /\ now = 0

-----------------------------------------------------------------------------
(* POST /users/me/data-exports: one transaction, cut where it may wait and   *)
(* where others may read before it commits.                                 *)

Goto(c, l) == pc' = [pc EXCEPT ![c] = l]

\* BEGIN: CURRENT_TIMESTAMP, hence createdAt, is read here.
Request(r) ==
  /\ pc[r] = "start"
  /\ Goto(r, "lock")
  /\ began' = [began EXCEPT ![r] = now]
  /\ UNCHANGED <<user, rows, queue, store, runs, found, purge, now>>

Limited(r) ==
  \E s \in Requests : status[s] \in Counted /\ created[s] > began[r] - RateWindow

\* Mutant: the user is read without FOR UPDATE.
CheckUnlocked(r) ==
  /\ pc[r] = "lock"
  /\ IF active /\ ~Limited(r) THEN Goto(r, "insert") ELSE Goto(r, "done")
  /\ UNCHANGED <<user, rows, queue, store, runs, began, found, purge, now>>

\* FOR UPDATE on the User row, then the 24-hour check.
Check(r) ==
  /\ pc[r] = "lock" /\ userLock = None
  /\ IF active /\ ~Limited(r)
     THEN userLock' = r /\ Goto(r, "insert")
     ELSE UNCHANGED userLock /\ Goto(r, "done")
  /\ UNCHANGED <<active, rows, queue, store, runs, began, found, purge, now>>

Unlock(r) == userLock' = IF userLock = r THEN None ELSE userLock

\* The row and the job, in one transaction.
Insert(r) ==
  /\ pc[r] = "insert"
  /\ status' = [status EXCEPT ![r] = "requested"]
  /\ created' = [created EXCEPT ![r] = began[r]]
  /\ job' = [job EXCEPT ![r] = "waiting"]
  /\ Unlock(r) /\ Goto(r, "done")
  /\ UNCHANGED <<active, started, completedAt, key, tries, store, runs, began,
                 found, purge, now>>

AbortRequest(r) ==
  /\ pc[r] \in {"lock", "insert"}
  /\ Unlock(r) /\ Goto(r, "done")
  /\ UNCHANGED <<active, rows, queue, store, runs, began, found, purge, now>>

\* A deletion request closes the account, a sign-in reopens it: both write the
\* User row, and wait for its lock (see AccountDeletion).
CloseAccount ==
  /\ active /\ userLock = None /\ active' = FALSE
  /\ UNCHANGED <<userLock, rows, queue, store, runs, calls, purge, now>>

ReopenAccount ==
  /\ ~active /\ userLock = None /\ active' = TRUE
  /\ UNCHANGED <<userLock, rows, queue, store, runs, calls, purge, now>>

-----------------------------------------------------------------------------
(* The job privacy.data-export, and its queue.                              *)

Fetch(r) ==
  /\ job[r] = "waiting"
  /\ job' = [job EXCEPT ![r] = "active"]
  /\ tries' = [tries EXCEPT ![r] = @ + 1]
  /\ run' = [run EXCEPT ![<<r, tries[r] + 1>>] = "claim"]
  /\ UNCHANGED <<user, rows, store, runAt, calls, purge, now>>

\* pg-boss takes an answer only for a job that is active.
JobDone(r) ==
  job' = IF job[r] = "active" THEN [job EXCEPT ![r] = "completed"] ELSE job

\* Mutant: the limit counts attempts after the first retry.
JobErrorOnceMore(r) ==
  job' = IF job[r] = "active"
         THEN [job EXCEPT ![r] = IF tries[r] <= RetryLimit + 1 THEN "waiting"
                                                               ELSE "failed"]
         ELSE job

JobError(r) ==
  job' = IF job[r] = "active"
         THEN [job EXCEPT ![r] = IF tries[r] <= RetryLimit THEN "waiting"
                                                           ELSE "failed"]
         ELSE job

Finish(a) == run' = [run EXCEPT ![a] = "done"]

Step(a, l) == run' = [run EXCEPT ![a] = l]

\* Mutant: an export that was started is left alone.
ClaimRequested(a) ==
  /\ run[a] = "claim"
  /\ IF status[a[1]] = "requested"
     THEN /\ status' = [status EXCEPT ![a[1]] = "processing"]
          /\ started' = [started EXCEPT ![a[1]] = now]
          /\ runAt' = [runAt EXCEPT ![a] = now]
          /\ Step(a, "snapshot")
          /\ UNCHANGED job
     ELSE /\ Finish(a) /\ JobDone(a[1])
          /\ UNCHANGED <<status, started, runAt>>
  /\ UNCHANGED <<user, created, completedAt, key, tries, store, calls, purge, now>>

\* Mutant: every export but a failed one is run again.
ClaimAgain(a) ==
  /\ run[a] = "claim"
  /\ IF status[a[1]] # "failed"
     THEN /\ status' = [status EXCEPT ![a[1]] = "processing"]
          /\ started' = [started EXCEPT ![a[1]] = now]
          /\ runAt' = [runAt EXCEPT ![a] = now]
          /\ Step(a, "snapshot")
          /\ UNCHANGED job
     ELSE /\ Finish(a) /\ JobDone(a[1])
          /\ UNCHANGED <<status, started, runAt>>
  /\ UNCHANGED <<user, created, completedAt, key, tries, store, calls, purge, now>>

\* The locking transaction: only a requested or processing export is run.
Claim(a) ==
  /\ run[a] = "claim"
  /\ IF status[a[1]] \in UnderWay
     THEN /\ status' = [status EXCEPT ![a[1]] = "processing"]
          /\ started' = [started EXCEPT ![a[1]] = now]
          /\ runAt' = [runAt EXCEPT ![a] = now]
          /\ Step(a, "snapshot")
          /\ UNCHANGED job
     ELSE /\ Finish(a) /\ JobDone(a[1])
          /\ UNCHANGED <<status, started, runAt>>
  /\ UNCHANGED <<user, created, completedAt, key, tries, store, calls, purge, now>>

\* The repeatable-read snapshot: within 10 MB, or too large.
Snapshot(a) ==
  /\ run[a] = "snapshot"
  /\ Step(a, "put") \/ Step(a, "large")
  /\ UNCHANGED <<user, rows, queue, store, runAt, calls, purge, now>>

\* The UPDATE has no condition on the status.  Its acknowledgement may be lost.
MarkFailed(a) ==
  /\ run[a] = "large"
  /\ status' = [status EXCEPT ![a[1]] = "failed"]
  /\ completedAt' = [completedAt EXCEPT ![a[1]] = now]
  /\ Finish(a)
  /\ JobDone(a[1]) \/ JobError(a[1])
  /\ UNCHANGED <<user, created, started, key, tries, store, runAt, calls, purge, now>>

\* Mutant: an upload whose answer is late counts as done.
PutHopeful(a) ==
  /\ run[a] = "put"
  /\ \/ objects' = objects \cup {a} /\ UNCHANGED late
     \/ late' = late \cup {a} /\ UNCHANGED objects
  /\ Step(a, "complete")
  /\ UNCHANGED <<user, rows, queue, runAt, calls, purge, now>>

\* putPrivateObject.  A failed one may have stored the object, or store it later.
Put(a) ==
  /\ run[a] = "put"
  /\ \/ objects' = objects \cup {a} /\ Step(a, "complete") /\ UNCHANGED <<late, job>>
     \/ /\ Finish(a) /\ JobError(a[1])
        /\ \/ objects' = objects \cup {a} /\ UNCHANGED late
           \/ late' = late \cup {a} /\ UNCHANGED objects
           \/ UNCHANGED store
  /\ UNCHANGED <<user, rows, tries, runAt, calls, purge, now>>

PutLands(a) ==
  /\ a \in late
  /\ late' = late \ {a} /\ objects' = objects \cup {a}
  /\ UNCHANGED <<user, rows, queue, runs, calls, purge, now>>

\* The UPDATE has no condition on the status.  Its acknowledgement may be lost.
Complete(a) ==
  /\ run[a] = "complete"
  /\ status' = [status EXCEPT ![a[1]] = "completed"]
  /\ key' = [key EXCEPT ![a[1]] = a]
  /\ completedAt' = [completedAt EXCEPT ![a[1]] = now]
  /\ Finish(a)
  /\ JobDone(a[1]) \/ JobError(a[1])
  /\ UNCHANGED <<user, created, started, tries, store, runAt, calls, purge, now>>

Running(a) == run[a] \notin {"idle", "done"}

\* A statement fails and the handler throws, or its worker dies.
RunStops(a) ==
  /\ Running(a)
  /\ Finish(a)
  /\ JobError(a[1]) \/ UNCHANGED job
  /\ UNCHANGED <<user, rows, tries, store, runAt, calls, purge, now>>

\* pg-boss gives up on a run: it expired, or its worker is being stopped.
JobExpires(r) ==
  /\ job[r] = "active" /\ JobError(r)
  /\ UNCHANGED <<user, rows, tries, store, runs, calls, purge, now>>

\* The runbook for an export stuck in processing.
FailStuck(r) ==
  /\ status[r] = "processing" /\ job[r] = "failed"
  /\ started[r] + StuckAge < now
  /\ status' = [status EXCEPT ![r] = "failed"]
  /\ completedAt' = [completedAt EXCEPT ![r] = now]
  /\ UNCHANGED <<user, created, started, key, queue, store, runs, calls, purge, now>>

-----------------------------------------------------------------------------
(* GET /users/me/data-exports/:id/download: the row, then the object.       *)

Downloadable(r) ==
  status[r] = "completed" /\ now < completedAt[r] + Availability /\ key[r] # None

Find(d) ==
  /\ pc[d] = "start"
  /\ \E r \in Requests : Downloadable(r) /\ found' = [found EXCEPT ![d] = key[r]]
  /\ Goto(d, "get")
  /\ began' = [began EXCEPT ![d] = now]
  /\ UNCHANGED <<user, rows, queue, store, runs, purge, now>>

Get(d) ==
  /\ pc[d] = "get"
  /\ \/ Goto(d, IF found[d] \in objects THEN "file" ELSE "missing")
     \/ Goto(d, "error")
  /\ UNCHANGED <<user, rows, queue, store, runs, began, found, purge, now>>

-----------------------------------------------------------------------------
(* The job privacy.purge-expired-exports.                                   *)

\* Mutant: the file goes when it can no longer be downloaded.
ExpiredEarly ==
  {e \in Entry : key[e[1]] = e[2] /\ completedAt[e[1]] + Availability <= now}

\* Mutant: only exports that are completed are purged.
ExpiredCompleted ==
  {e \in Entry : /\ status[e[1]] = "completed"
                 /\ key[e[1]] = e[2] /\ completedAt[e[1]] + Retention < now}

Expired == {e \in Entry : key[e[1]] = e[2] /\ completedAt[e[1]] + Retention < now}

\* The first hundred rows: which they are is left open.
Select(p) ==
  /\ batch[p] = {} /\ current[p] = None
  /\ \E b \in SUBSET Expired : b # {} /\ batch' = [batch EXCEPT ![p] = b]
  /\ UNCHANGED <<user, rows, queue, store, runs, calls, current, now>>

\* Mutant: every storage error is taken for not_found.
DeleteLenient(p) ==
  /\ current[p] = None
  /\ \E e \in batch[p] :
       /\ objects' = objects \ {e[2]} \/ UNCHANGED objects
       /\ current' = [current EXCEPT ![p] = e]
       /\ batch' = [batch EXCEPT ![p] = @ \ {e}]
  /\ UNCHANGED <<user, rows, queue, late, runs, calls, now>>

\* deletePrivateObject: an object that is not there is no error.
Delete(p) ==
  /\ current[p] = None
  /\ \E e \in batch[p] :
       /\ objects' = objects \ {e[2]}
       /\ current' = [current EXCEPT ![p] = e]
       /\ batch' = [batch EXCEPT ![p] = @ \ {e}]
  /\ UNCHANGED <<user, rows, queue, late, runs, calls, now>>

\* The UPDATE names the row only, not the key that was deleted.
Clear(p) ==
  /\ current[p] # None
  /\ key' = [key EXCEPT ![current[p][1]] = None]
  /\ current' = [current EXCEPT ![p] = None]
  /\ UNCHANGED <<user, status, created, started, completedAt, queue, store, runs,
                 calls, batch, now>>

\* A storage error, which may hide a deletion, a failed UPDATE, or a dead
\* worker: the rest of the batch waits for the next hour or the retry.
PurgeStops(p) ==
  /\ batch[p] # {} \/ current[p] # None
  /\ \/ \E e \in batch[p] : current[p] = None /\ objects' = objects \ {e[2]}
     \/ UNCHANGED objects
  /\ batch' = [batch EXCEPT ![p] = {}]
  /\ current' = [current EXCEPT ![p] = None]
  /\ UNCHANGED <<user, rows, queue, late, runs, calls, now>>

-----------------------------------------------------------------------------
\* From the claim on, a run ends within RunTime; so does a download.
Busy(a) == run[a] \in {"snapshot", "large", "put", "complete"}

Tick ==
  /\ now < MaxTime
  /\ \A a \in Runs : Busy(a) => now < runAt[a] + RunTime
  /\ \A d \in Downloads : pc[d] = "get" => now < began[d] + RunTime
  /\ now' = now + 1
  /\ UNCHANGED <<user, rows, queue, store, runs, calls, purge>>

RequestStep(r) == Request(r) \/ Check(r) \/ Insert(r) \/ AbortRequest(r)

RunStep(a) ==
  Claim(a) \/ Snapshot(a) \/ MarkFailed(a) \/ Put(a) \/ Complete(a) \/ RunStops(a)

JobStep(r) == Fetch(r) \/ JobExpires(r) \/ FailStuck(r)

DownloadStep(d) == Find(d) \/ Get(d)

PurgeStep(p) == Select(p) \/ Delete(p) \/ Clear(p) \/ PurgeStops(p)

Next ==
  \/ \E r \in Requests : RequestStep(r) \/ JobStep(r)
  \/ \E a \in Runs : RunStep(a) \/ PutLands(a)
  \/ \E d \in Downloads : DownloadStep(d)
  \/ \E p \in Purges : PurgeStep(p)
  \/ CloseAccount \/ ReopenAccount \/ Tick

Spec == Init /\ [][Next]_vars

\* Time passes, runs come to an end, pg-boss hands jobs out and gives up on
\* dead runs, an operator follows the runbook, and the hourly purge is not
\* refused by the bucket, or cut short, for ever.
FairSpec ==
  /\ Spec
  /\ WF_vars(Tick)
  /\ \A r \in Requests : /\ WF_vars(Fetch(r)) /\ WF_vars(JobExpires(r))
                         /\ WF_vars(FailStuck(r))
  /\ \A a \in Runs : WF_vars(RunStep(a))
  /\ \A d \in Downloads : WF_vars(Get(d))
  /\ \A p \in Purges : /\ WF_vars(Select(p)) /\ SF_vars(Delete(p))
                       /\ SF_vars(Clear(p))

-----------------------------------------------------------------------------
(* Properties.                                                              *)

TypeOK ==
  /\ active \in BOOLEAN /\ userLock \in Requests \cup {None}
  /\ status \in [Requests -> Counted \cup {"none", "failed"}]
  /\ created \in [Requests -> Nat] /\ started \in [Requests -> Nat]
  /\ completedAt \in [Requests -> Nat]
  /\ key \in [Requests -> Runs \cup {None}]
  /\ job \in [Requests -> {"none", "waiting", "active", "completed", "failed"}]
  /\ tries \in [Requests -> 0 .. RetryLimit + 1]
  /\ objects \in SUBSET Runs /\ late \in SUBSET Runs
  /\ run \in [Runs -> {"idle", "claim", "snapshot", "large", "put", "complete", "done"}]
  /\ runAt \in [Runs -> Nat]
  /\ pc \in [Calls -> {"start", "lock", "insert", "get", "file", "missing", "error", "done"}]
  /\ began \in [Calls -> Nat]
  /\ found \in [Downloads -> Runs \cup {None}]
  /\ batch \in [Purges -> SUBSET Entry]
  /\ current \in [Purges -> Entry \cup {None}]
  /\ now \in Nat

\* A download that finds its row finds the file, whatever other runs of the
\* job and purges do between the query and the read of the bucket.
DownloadsFindTheFile == \A d \in Downloads : pc[d] # "missing"

\* An export is granted only to an open account, and only when none requested
\* in the 24 hours before is under way: two requests that check at the same
\* time are not both granted.
GrantsAreSpaced ==
  [][\A r \in Requests : status[r] = "none" /\ status'[r] = "requested" =>
       /\ active
       /\ \A s \in Requests \ {r} :
            status[s] \in UnderWay => created[s] + RateWindow <= created'[r]]_vars

\* The purge forgets a key only when its object is gone: the row it clears by
\* id still names the object it deleted.
PurgeForgetsNothing ==
  [][\A r \in Requests : key[r] # None /\ key'[r] = None => key[r] \notin objects]_vars

\* An export a worker has started ends completed or failed, unless a retry
\* starts it again when the clock has too little left to call it stuck.
ExportsSettle ==
  \A r \in Requests :
    status[r] = "processing"
      ~> status[r] \in {"completed", "failed"} \/ started[r] + StuckAge >= MaxTime

\* The file of a completed export is deleted once its retention is over,
\* unless a run that pg-boss gave up on ends it a second time too late.
FilesAreDeleted ==
  \A r \in Requests : \A a \in RunsOf(r) :
    key[r] = a
      ~> a \notin objects \/ key[r] # a \/ completedAt[r] + Retention >= MaxTime

\* ADR-001: the file in the bucket is deleted 7 days after the export.  So a
\* purged export has no file left.
PurgedLeavesNoFile ==
  \A r \in Requests :
    status[r] = "completed" /\ key[r] = None => RunsOf(r) \cap objects = {}

\* ADR-001: at most one export in 24 hours for a user, those that failed not
\* counted.
OneExportPerDay ==
  \A r, s \in Requests :
    r # s /\ status[r] \in Counted /\ status[s] \in Counted
      => created[r] + RateWindow <= created[s] \/ created[s] + RateWindow <= created[r]
=============================================================================
