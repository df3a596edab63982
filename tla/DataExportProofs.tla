--------------------------- MODULE DataExportProofs ---------------------------
(***************************************************************************)
(* Proofs about DataExport, for any number of requests, downloads, purges   *)
(* and retries, and any periods in which a file outlives its availability   *)
(* by the time a run or a download may take.                                *)
(*                                                                          *)
(* The argument.  The lock on the User row keeps what a request checked     *)
(* true until it inserts (GrantsOK).  A number names one run for good       *)
(* (RunsOK), so the key it writes is new.  A run that is still busy claimed *)
(* its row before another run settled it, and no longer than RunTime ago    *)
(* (ClockOK): it is over before the row's file is old enough to be purged,  *)
(* so what a purge selected is what the row names until the purge clears it *)
(* (PurgesOK), and a download under way is over before that too             *)
(* (DownloadsOK).                                                           *)
(***************************************************************************)
EXTENDS DataExport, TLAPS

Settled == {"completed", "failed"}

\* Jobs exist once their rows do, and wait only while retries are left.
JobsOK ==
  /\ \A r \in Requests :
       pc[r] \in {"start", "lock", "insert"} => status[r] = "none"
  /\ \A r \in Requests : status[r] = "none" <=> job[r] = "none"
  /\ \A r \in Requests : job[r] = "none" => tries[r] = 0
  /\ \A r \in Requests : job[r] = "waiting" => tries[r] <= RetryLimit

\* Who is about to insert holds the lock, and what it checked still holds.
GrantsOK ==
  \A r \in Requests : pc[r] = "insert" =>
    /\ userLock = r /\ active
    /\ \A s \in Requests :
         status[s] \in UnderWay => created[s] + RateWindow <= began[r]

\* Runs are numbered in order; a run writes its object once, and its row
\* names it when the run is over.
RunsOK ==
  /\ \A a \in Runs : a[2] > tries[a[1]] => run[a] = "idle"
  /\ \A a \in Runs : Busy(a) => status[a[1]] \notin {"none", "requested"}
  /\ \A a \in Runs : run[a] \notin {"complete", "done"} => a \notin objects
  /\ \A a \in Runs : run[a] = "complete" => a \in objects
  /\ \A a \in late : run[a] = "done"

\* A row names an object of its own run, which was stored in time, and only
\* when it is settled.
KeysOK ==
  /\ \A r \in Requests : key[r] # None =>
       /\ key[r] \in Runs /\ key[r][1] = r
       /\ run[key[r]] = "done" /\ key[r] \notin late
       /\ status[r] \in Settled
       /\ key[r] \in objects \/ completedAt[r] + Retention < now

\* A busy run claimed its row before it was settled, and not long ago.
ClockOK ==
  /\ \A r \in Requests : completedAt[r] <= now
  /\ \A a \in Runs : Busy(a) => runAt[a] <= now /\ now <= runAt[a] + RunTime
  /\ \A a \in Runs : Busy(a) /\ status[a[1]] \in Settled =>
       runAt[a] <= completedAt[a[1]]

\* What a purge selected is old, and still what the row names, if anything.
EntryOK(e) ==
  /\ e[2][1] = e[1] /\ run[e[2]] = "done" /\ e[2] \notin late
  /\ status[e[1]] \in Settled
  /\ completedAt[e[1]] + Retention < now
  /\ key[e[1]] \in {e[2], None}

PurgesOK ==
  /\ \A p \in Purges : \A e \in batch[p] : EntryOK(e)
  /\ \A p \in Purges : current[p] # None =>
       EntryOK(current[p]) /\ current[p][2] \notin objects

\* A download under way found an object that is not old enough to be purged.
DownloadsOK ==
  /\ DownloadsFindTheFile
  /\ \A d \in Downloads : pc[d] = "get" =>
       /\ found[d] \in objects /\ run[found[d]] = "done"
       /\ began[d] <= now /\ now <= began[d] + RunTime
       /\ began[d] < completedAt[found[d][1]] + Availability

IInv ==
  /\ TypeOK /\ JobsOK /\ GrantsOK /\ RunsOK /\ KeysOK /\ ClockOK /\ PurgesOK
  /\ DownloadsOK

-----------------------------------------------------------------------------
\* A run is a row and a number.
LEMMA RunParts ==
  \A a \in Runs : a[1] \in Requests /\ a[2] \in 1 .. RetryLimit + 1
BY DEF Runs

(* Every step keeps the invariant: one lemma for each action, one step for  *)
(* each part of the invariant.                                              *)

LEMMA RequestKeeps ==
  ASSUME IInv, NEW r \in Requests, Request(r)
  PROVE  IInv'
<1>1. TypeOK'
  BY DEF IInv, TypeOK, Request, Goto, user, rows, queue, store, runs, purge
<1>2. JobsOK'
  BY DEF IInv, Request, Goto, rows, queue, JobsOK
<1>3. GrantsOK'
  BY DEF IInv, Request, Goto, user, rows, GrantsOK
<1>4. RunsOK'
  BY DEF IInv, Request, Goto, user, rows, queue, store, runs, RunsOK, Busy
<1>5. KeysOK'
  BY DEF IInv, Request, Goto, user, rows, queue, store, runs, KeysOK
<1>6. ClockOK'
  BY DEF IInv, Request, Goto, user, rows, queue, runs, ClockOK, Busy
<1>7. PurgesOK'
  BY DEF IInv, Request, Goto, user, rows, queue, store, runs, purge,
      PurgesOK, EntryOK
<1>8. DownloadsOK'
  BY DEF IInv, Request, Goto, user, rows, queue, store, runs, purge,
      DownloadsOK, DownloadsFindTheFile
<1> QED
  BY <1>1, <1>2, <1>3, <1>4, <1>5, <1>6, <1>7, <1>8 DEF IInv

LEMMA CheckKeeps ==
  ASSUME IInv, NEW r \in Requests, Check(r)
  PROVE  IInv'
<1>1. TypeOK'
  BY DEF IInv, TypeOK, Check, Goto, Limited, rows, queue, store, runs, purge
<1>2. JobsOK'
  BY DEF IInv, TypeOK, Check, Goto, rows, queue, JobsOK, Calls
<1>3. GrantsOK'
  BY NamesAssumption, PeriodsAssumption DEF IInv, TypeOK, Check, Goto,
      Limited, rows, GrantsOK, UnderWay, Calls
<1>4. RunsOK'
  BY DEF IInv, Check, Goto, Limited, rows, queue, store, runs, RunsOK, Busy
<1>5. KeysOK'
  BY DEF IInv, Check, Goto, Limited, rows, queue, store, runs, KeysOK
<1>6. ClockOK'
  BY DEF IInv, Check, Goto, Limited, rows, queue, runs, ClockOK, Busy
<1>7. PurgesOK'
  BY DEF IInv, Check, Goto, Limited, rows, queue, store, runs, purge,
      PurgesOK, EntryOK
<1>8. DownloadsOK'
  BY DEF IInv, TypeOK, Check, Goto, Limited, rows, queue, store, runs,
      purge, DownloadsOK, DownloadsFindTheFile, Calls
<1> QED
  BY <1>1, <1>2, <1>3, <1>4, <1>5, <1>6, <1>7, <1>8 DEF IInv

LEMMA InsertKeeps ==
  ASSUME IInv, NEW r \in Requests, Insert(r)
  PROVE  IInv'
<1>1. TypeOK'
  BY DEF IInv, TypeOK, Insert, Goto, Unlock, store, runs, purge, Calls,
      Counted, UnderWay
<1>2. JobsOK'
  BY PeriodsAssumption DEF IInv, TypeOK, Insert, Goto, JobsOK, Calls
<1>3. GrantsOK'
  BY DEF IInv, TypeOK, Insert, Goto, GrantsOK, Calls
<1>4. RunsOK'
  BY DEF IInv, Insert, Goto, Unlock, store, runs, RunsOK, JobsOK, Busy
<1>5. KeysOK'
  BY DEF IInv, Insert, Goto, Unlock, store, runs, KeysOK, JobsOK, Settled
<1>6. ClockOK'
  BY DEF IInv, Insert, Goto, Unlock, runs, ClockOK, RunsOK, JobsOK, Busy
<1>7. PurgesOK'
  BY DEF IInv, Insert, Goto, Unlock, store, runs, purge, PurgesOK, EntryOK,
      JobsOK, Settled
<1>8. DownloadsOK'
  BY DEF IInv, Insert, Goto, Unlock, store, runs, purge, DownloadsOK,
      DownloadsFindTheFile
<1> QED
  BY <1>1, <1>2, <1>3, <1>4, <1>5, <1>6, <1>7, <1>8 DEF IInv

LEMMA AbortRequestKeeps ==
  ASSUME IInv, NEW r \in Requests, AbortRequest(r)
  PROVE  IInv'
<1>1. TypeOK'
  BY DEF IInv, TypeOK, AbortRequest, Goto, Unlock, rows, queue, store, runs,
      purge
<1>2. JobsOK'
  BY DEF IInv, AbortRequest, Goto, rows, queue, JobsOK
<1>3. GrantsOK'
  BY DEF IInv, TypeOK, AbortRequest, Goto, Unlock, rows, GrantsOK, Calls
<1>4. RunsOK'
  BY DEF IInv, AbortRequest, Goto, Unlock, rows, queue, store, runs, RunsOK,
      Busy
<1>5. KeysOK'
  BY DEF IInv, AbortRequest, Goto, Unlock, rows, queue, store, runs, KeysOK
<1>6. ClockOK'
  BY DEF IInv, AbortRequest, Goto, Unlock, rows, queue, runs, ClockOK, Busy
<1>7. PurgesOK'
  BY DEF IInv, AbortRequest, Goto, Unlock, rows, queue, store, runs, purge,
      PurgesOK, EntryOK
<1>8. DownloadsOK'
  BY DEF IInv, AbortRequest, Goto, Unlock, rows, queue, store, runs, purge,
      DownloadsOK, DownloadsFindTheFile
<1> QED
  BY <1>1, <1>2, <1>3, <1>4, <1>5, <1>6, <1>7, <1>8 DEF IInv

LEMMA CloseAccountKeeps ==
  ASSUME IInv, CloseAccount
  PROVE  IInv'
<1>1. TypeOK'
  BY DEF IInv, TypeOK, CloseAccount, rows, queue, store, runs, calls, purge
<1>2. JobsOK'
  BY DEF IInv, CloseAccount, rows, queue, calls, JobsOK
<1>3. GrantsOK'
  BY NamesAssumption DEF IInv, CloseAccount, calls, GrantsOK
<1>4. RunsOK'
  BY DEF IInv, CloseAccount, rows, queue, store, runs, RunsOK, Busy
<1>5. KeysOK'
  BY DEF IInv, CloseAccount, rows, queue, store, runs, calls, KeysOK
<1>6. ClockOK'
  BY DEF IInv, CloseAccount, rows, queue, store, runs, ClockOK, Busy
<1>7. PurgesOK'
  BY DEF IInv, CloseAccount, rows, queue, store, runs, calls, purge,
      PurgesOK, EntryOK
<1>8. DownloadsOK'
  BY DEF IInv, CloseAccount, rows, queue, store, runs, calls, purge,
      DownloadsOK, DownloadsFindTheFile
<1> QED
  BY <1>1, <1>2, <1>3, <1>4, <1>5, <1>6, <1>7, <1>8 DEF IInv

LEMMA ReopenAccountKeeps ==
  ASSUME IInv, ReopenAccount
  PROVE  IInv'
<1>1. TypeOK'
  BY DEF IInv, TypeOK, ReopenAccount, rows, queue, store, runs, calls, purge
<1>2. JobsOK'
  BY DEF IInv, ReopenAccount, rows, queue, calls, JobsOK
<1>3. GrantsOK'
  BY DEF IInv, ReopenAccount, calls, GrantsOK
<1>4. RunsOK'
  BY DEF IInv, ReopenAccount, rows, queue, store, runs, RunsOK, Busy
<1>5. KeysOK'
  BY DEF IInv, ReopenAccount, rows, queue, store, runs, calls, KeysOK
<1>6. ClockOK'
  BY DEF IInv, ReopenAccount, rows, queue, store, runs, ClockOK, Busy
<1>7. PurgesOK'
  BY DEF IInv, ReopenAccount, rows, queue, store, runs, calls, purge,
      PurgesOK, EntryOK
<1>8. DownloadsOK'
  BY DEF IInv, ReopenAccount, rows, queue, store, runs, calls, purge,
      DownloadsOK, DownloadsFindTheFile
<1> QED
  BY <1>1, <1>2, <1>3, <1>4, <1>5, <1>6, <1>7, <1>8 DEF IInv

LEMMA FetchKeeps ==
  ASSUME IInv, NEW r \in Requests, Fetch(r)
  PROVE  IInv'
<1>1. TypeOK'
  BY NamesAssumption, PeriodsAssumption DEF IInv, TypeOK, JobsOK, Fetch, user, rows, store,
         calls, purge, Calls, Runs
<1>2. JobsOK'
  BY DEF IInv, TypeOK, Fetch, rows, calls, JobsOK
<1>3. GrantsOK'
  BY DEF IInv, Fetch, user, rows, calls, GrantsOK
<1>4. RunsOK'
  <2>1. run' = [run EXCEPT ![<<r, tries[r] + 1>>] = "claim"]
    BY DEF Fetch
  <2>2. tries[r] \in Nat /\ tries[r] <= RetryLimit /\ tries' = [tries EXCEPT ![r] = @ + 1]
    BY DEF IInv, TypeOK, JobsOK, Fetch
  <2>3. <<r, tries[r] + 1>> \in Runs
    BY <2>2, PeriodsAssumption DEF Runs
  <2>4. run[<<r, tries[r] + 1>>] = "idle"
    BY <2>2, <2>3 DEF IInv, RunsOK
  <2>5. \A a \in Runs : a # <<r, tries[r] + 1>> => run'[a] = run[a]
    BY <2>1 DEF IInv, TypeOK
  <2>6. \A a \in Runs : a[2] > tries'[a[1]] => run'[a] = "idle"
    <3> SUFFICES ASSUME NEW a \in Runs, a[2] > tries'[a[1]]
                 PROVE  run'[a] = "idle"
      OBVIOUS
    <3>1. a[1] \in Requests /\ a[2] \in Nat
      BY RunParts, PeriodsAssumption
    <3>2. a # <<r, tries[r] + 1>> /\ a[2] > tries[a[1]]
      BY <2>2, <3>1 DEF IInv, TypeOK
    <3> QED
      BY <2>5, <3>2 DEF IInv, RunsOK
  <2> QED
    BY <2>1, <2>3, <2>4, <2>5, <2>6
    DEF IInv, TypeOK, RunsOK, Busy, Fetch, rows, store
<1>5. KeysOK'
  BY DEF IInv, TypeOK, Fetch, user, rows, store, calls, KeysOK, RunsOK
<1>6. ClockOK'
  BY DEF IInv, Fetch, user, rows, ClockOK, Busy
<1>7. PurgesOK'
  BY DEF IInv, TypeOK, Fetch, user, rows, store, calls, purge, PurgesOK,
      EntryOK, RunsOK
<1>8. DownloadsOK'
  BY DEF IInv, TypeOK, Fetch, user, rows, store, calls, purge, DownloadsOK,
      DownloadsFindTheFile, RunsOK
<1> QED
  BY <1>1, <1>2, <1>3, <1>4, <1>5, <1>6, <1>7, <1>8 DEF IInv

LEMMA ClaimKeeps ==
  ASSUME IInv, NEW a \in Runs, Claim(a)
  PROVE  IInv'
<1>1. TypeOK'
  BY RunParts DEF IInv, TypeOK, Claim, Step, Finish, JobDone, user, store, calls,
                   purge, Counted, UnderWay
<1>2. JobsOK'
  BY RunParts DEF IInv, TypeOK, JobsOK, Claim, JobDone, calls, UnderWay
<1>3. GrantsOK'
  BY DEF IInv, TypeOK, Claim, Step, user, calls, GrantsOK
<1>4. RunsOK'
  <2>1. a[1] \in Requests
    BY RunParts
  <2>2. tries' = tries /\ objects' = objects /\ late' = late
    BY DEF Claim, store
  <2>3. \A b \in Runs \ {a} : run'[b] = run[b]
    BY DEF IInv, TypeOK, Claim, Step, Finish
  <2>4. run'[a] = "done" \/ (run'[a] = "snapshot" /\ status'[a[1]] = "processing")
    BY <2>1 DEF IInv, TypeOK, Claim, Step, Finish
  <2>5. \A q \in Requests :
          status'[q] = status[q] \/ status'[q] = "processing"
    BY <2>1 DEF IInv, TypeOK, Claim
  <2>6. run[a] = "claim"
    BY DEF Claim
  <2>7. \A b \in Runs : b[1] \in Requests
    BY RunParts
  <2> QED
    BY <2>2, <2>3, <2>4, <2>5, <2>6, <2>7 DEF IInv, TypeOK, RunsOK, Busy
<1>5. KeysOK'
  BY DEF IInv, TypeOK, Claim, Step, Finish, JobDone, user, store, calls,
      KeysOK, Settled, UnderWay
<1>6. ClockOK'
  <2>1. a[1] \in Requests /\ now \in Nat /\ now' = now /\ completedAt' = completedAt
    BY RunParts DEF IInv, TypeOK, Claim
  <2>2. \A b \in Runs \ {a} : run'[b] = run[b] /\ runAt'[b] = runAt[b]
    BY DEF IInv, TypeOK, Claim, Step, Finish
  <2>3. Busy(a)' => status'[a[1]] = "processing" /\ runAt'[a] = now
    BY <2>1 DEF IInv, TypeOK, Claim, Step, Finish, Busy
  <2>4. \A q \in Requests : status'[q] = status[q] \/ status'[q] = "processing"
    BY <2>1 DEF IInv, TypeOK, Claim
  <2>5. \A b \in Runs : b[1] \in Requests
    BY RunParts
  <2> QED
    BY <2>1, <2>2, <2>3, <2>4, <2>5, PeriodsAssumption
    DEF IInv, TypeOK, ClockOK, Busy, Settled
<1>7. PurgesOK'
  BY DEF IInv, TypeOK, Claim, Step, Finish, JobDone, user, store, calls,
      purge, PurgesOK, EntryOK, Entry, Settled, UnderWay
<1>8. DownloadsOK'
  BY DEF IInv, TypeOK, Claim, Step, Finish, JobDone, user, store, calls,
      purge, DownloadsOK, DownloadsFindTheFile
<1> QED
  BY <1>1, <1>2, <1>3, <1>4, <1>5, <1>6, <1>7, <1>8 DEF IInv

LEMMA SnapshotKeeps ==
  ASSUME IInv, NEW a \in Runs, Snapshot(a)
  PROVE  IInv'
<1>1. TypeOK'
  BY DEF IInv, TypeOK, Snapshot, Step, user, rows, queue, store, calls,
      purge
<1>2. JobsOK'
  BY DEF IInv, Snapshot, rows, queue, calls, JobsOK
<1>3. GrantsOK'
  BY DEF IInv, Snapshot, Step, user, rows, calls, GrantsOK
<1>4. RunsOK'
  BY DEF IInv, TypeOK, Snapshot, Step, user, rows, queue, store, RunsOK,
      Busy
<1>5. KeysOK'
  BY DEF IInv, TypeOK, Snapshot, Step, user, rows, queue, store, calls,
      KeysOK
<1>6. ClockOK'
  BY DEF IInv, TypeOK, Snapshot, Step, user, rows, queue, ClockOK, Busy
<1>7. PurgesOK'
  BY DEF IInv, TypeOK, Snapshot, Step, user, rows, queue, store, calls,
      purge, PurgesOK, EntryOK, Entry
<1>8. DownloadsOK'
  BY DEF IInv, TypeOK, Snapshot, Step, user, rows, queue, store, calls,
      purge, DownloadsOK, DownloadsFindTheFile
<1> QED
  BY <1>1, <1>2, <1>3, <1>4, <1>5, <1>6, <1>7, <1>8 DEF IInv

LEMMA MarkFailedKeeps ==
  ASSUME IInv, NEW a \in Runs, MarkFailed(a)
  PROVE  IInv'
<1>1. TypeOK'
  BY DEF IInv, TypeOK, MarkFailed, Finish, JobDone, JobError, user, store,
      calls, purge
<1>2. JobsOK'
  BY RunParts DEF IInv, TypeOK, JobsOK, RunsOK, Busy, MarkFailed, JobDone, JobError,
                   calls
<1>3. GrantsOK'
  BY DEF IInv, MarkFailed, Finish, user, calls, GrantsOK, UnderWay
<1>4. RunsOK'
  BY DEF IInv, MarkFailed, Finish, JobDone, JobError, user, store, RunsOK,
      Busy
<1>5. KeysOK'
  BY PeriodsAssumption DEF IInv, TypeOK, MarkFailed, Finish, JobDone,
      JobError, user, store, calls, KeysOK, ClockOK, Busy, Settled
<1>6. ClockOK'
  BY DEF IInv, TypeOK, MarkFailed, Finish, JobDone, JobError, user, ClockOK,
      Busy
<1>7. PurgesOK'
  BY PeriodsAssumption DEF IInv, TypeOK, MarkFailed, Finish, JobDone,
      JobError, user, store, calls, purge, PurgesOK, EntryOK, ClockOK, Busy
<1>8. DownloadsOK'
  BY PeriodsAssumption DEF IInv, TypeOK, MarkFailed, Finish, JobDone,
      JobError, user, store, calls, purge, DownloadsOK,
      DownloadsFindTheFile, ClockOK, Calls
<1> QED
  BY <1>1, <1>2, <1>3, <1>4, <1>5, <1>6, <1>7, <1>8 DEF IInv

LEMMA PutKeeps ==
  ASSUME IInv, NEW a \in Runs, Put(a)
  PROVE  IInv'
<1>1. TypeOK'
  BY DEF IInv, TypeOK, Put, Step, Finish, JobError, user, rows, store,
      calls, purge
<1>2. JobsOK'
  BY DEF IInv, TypeOK, Put, JobError, rows, calls, JobsOK
<1>3. GrantsOK'
  BY DEF IInv, Put, Step, Finish, user, rows, calls, GrantsOK
<1>4. RunsOK'
  BY DEF IInv, TypeOK, Put, Step, Finish, JobError, user, rows, store,
      RunsOK, Busy
<1>5. KeysOK'
  BY DEF IInv, TypeOK, Put, Step, Finish, JobError, user, rows, store,
      calls, KeysOK
<1>6. ClockOK'
  BY DEF IInv, TypeOK, Put, Step, Finish, JobError, user, rows, ClockOK,
      Busy
<1>7. PurgesOK'
  BY DEF IInv, TypeOK, Put, Step, Finish, JobError, user, rows, store,
      calls, purge, PurgesOK, EntryOK, Entry
<1>8. DownloadsOK'
  BY DEF IInv, TypeOK, Put, Step, Finish, JobError, user, rows, store,
      calls, purge, DownloadsOK, DownloadsFindTheFile
<1> QED
  BY <1>1, <1>2, <1>3, <1>4, <1>5, <1>6, <1>7, <1>8 DEF IInv

LEMMA PutLandsKeeps ==
  ASSUME IInv, NEW a \in Runs, PutLands(a)
  PROVE  IInv'
<1>1. TypeOK'
  BY DEF IInv, TypeOK, PutLands, user, rows, queue, runs, calls, purge
<1>2. JobsOK'
  BY DEF IInv, PutLands, rows, queue, calls, JobsOK
<1>3. GrantsOK'
  BY DEF IInv, PutLands, user, rows, calls, GrantsOK
<1>4. RunsOK'
  BY DEF IInv, PutLands, user, rows, queue, runs, RunsOK, Busy
<1>5. KeysOK'
  BY DEF IInv, PutLands, user, rows, queue, runs, calls, KeysOK
<1>6. ClockOK'
  BY DEF IInv, PutLands, user, rows, queue, runs, ClockOK, Busy
<1>7. PurgesOK'
  BY DEF IInv, PutLands, user, rows, queue, runs, calls, purge, PurgesOK,
      EntryOK
<1>8. DownloadsOK'
  BY DEF IInv, PutLands, user, rows, queue, runs, calls, purge, DownloadsOK,
      DownloadsFindTheFile
<1> QED
  BY <1>1, <1>2, <1>3, <1>4, <1>5, <1>6, <1>7, <1>8 DEF IInv

LEMMA CompleteKeeps ==
  ASSUME IInv, NEW a \in Runs, Complete(a)
  PROVE  IInv'
<1>1. TypeOK'
  BY DEF IInv, TypeOK, Complete, Finish, JobDone, JobError, user, store,
      calls, purge, Counted
<1>2. JobsOK'
  BY RunParts DEF IInv, TypeOK, JobsOK, RunsOK, Busy, Complete, JobDone, JobError,
                   calls
<1>3. GrantsOK'
  BY DEF IInv, Complete, Finish, user, calls, GrantsOK, UnderWay
<1>4. RunsOK'
  BY DEF IInv, Complete, Finish, JobDone, JobError, user, store, RunsOK,
      Busy
<1>5. KeysOK'
  BY DEF IInv, TypeOK, Complete, Finish, JobDone, JobError, user, store,
      calls, KeysOK, RunsOK, Settled
<1>6. ClockOK'
  BY DEF IInv, TypeOK, Complete, Finish, JobDone, JobError, user, ClockOK,
      Busy
<1>7. PurgesOK'
  BY PeriodsAssumption DEF IInv, TypeOK, Complete, Finish, JobDone,
      JobError, user, store, calls, purge, PurgesOK, EntryOK, ClockOK, Busy
<1>8. DownloadsOK'
  BY PeriodsAssumption DEF IInv, TypeOK, Complete, Finish, JobDone,
      JobError, user, store, calls, purge, DownloadsOK,
      DownloadsFindTheFile, ClockOK, Calls
<1> QED
  BY <1>1, <1>2, <1>3, <1>4, <1>5, <1>6, <1>7, <1>8 DEF IInv

LEMMA RunStopsKeeps ==
  ASSUME IInv, NEW a \in Runs, RunStops(a)
  PROVE  IInv'
<1>1. TypeOK'
  BY DEF IInv, TypeOK, RunStops, Running, Finish, JobError, user, rows,
      store, calls, purge
<1>2. JobsOK'
  BY DEF IInv, TypeOK, RunStops, JobError, rows, calls, JobsOK
<1>3. GrantsOK'
  BY DEF IInv, RunStops, Running, Finish, user, rows, calls, GrantsOK
<1>4. RunsOK'
  BY DEF IInv, RunStops, Running, Finish, JobError, user, rows, store,
      RunsOK, Busy
<1>5. KeysOK'
  BY DEF IInv, RunStops, Running, Finish, JobError, user, rows, store,
      calls, KeysOK
<1>6. ClockOK'
  BY DEF IInv, RunStops, Running, Finish, JobError, user, rows, ClockOK,
      Busy
<1>7. PurgesOK'
  BY DEF IInv, RunStops, Running, Finish, JobError, user, rows, store,
      calls, purge, PurgesOK, EntryOK
<1>8. DownloadsOK'
  BY DEF IInv, RunStops, Running, Finish, JobError, user, rows, store,
      calls, purge, DownloadsOK, DownloadsFindTheFile
<1> QED
  BY <1>1, <1>2, <1>3, <1>4, <1>5, <1>6, <1>7, <1>8 DEF IInv

LEMMA JobExpiresKeeps ==
  ASSUME IInv, NEW r \in Requests, JobExpires(r)
  PROVE  IInv'
<1>1. TypeOK'
  BY DEF IInv, TypeOK, JobExpires, JobError, user, rows, store, runs, calls,
      purge
<1>2. JobsOK'
  BY DEF IInv, JobExpires, JobError, rows, calls, JobsOK
<1>3. GrantsOK'
  BY DEF IInv, JobExpires, JobError, user, rows, calls, GrantsOK
<1>4. RunsOK'
  BY DEF IInv, JobExpires, JobError, user, rows, store, runs, RunsOK, Busy
<1>5. KeysOK'
  BY DEF IInv, JobExpires, JobError, user, rows, store, runs, calls, KeysOK
<1>6. ClockOK'
  BY DEF IInv, JobExpires, JobError, user, rows, store, runs, ClockOK, Busy
<1>7. PurgesOK'
  BY DEF IInv, JobExpires, JobError, user, rows, store, runs, calls, purge,
      PurgesOK, EntryOK
<1>8. DownloadsOK'
  BY DEF IInv, JobExpires, JobError, user, rows, store, runs, calls, purge,
      DownloadsOK, DownloadsFindTheFile
<1> QED
  BY <1>1, <1>2, <1>3, <1>4, <1>5, <1>6, <1>7, <1>8 DEF IInv

LEMMA FailStuckKeeps ==
  ASSUME IInv, NEW r \in Requests, FailStuck(r)
  PROVE  IInv'
<1>1. TypeOK'
  BY DEF IInv, TypeOK, FailStuck, user, queue, store, runs, calls, purge
<1>2. JobsOK'
  BY DEF IInv, FailStuck, queue, calls, JobsOK
<1>3. GrantsOK'
  BY DEF IInv, FailStuck, user, calls, GrantsOK, UnderWay
<1>4. RunsOK'
  BY DEF IInv, FailStuck, user, queue, store, runs, RunsOK, Busy
<1>5. KeysOK'
  BY DEF IInv, FailStuck, user, queue, store, runs, calls, KeysOK, Settled
<1>6. ClockOK'
  BY DEF IInv, TypeOK, FailStuck, user, queue, store, runs, ClockOK, Busy
<1>7. PurgesOK'
  BY DEF IInv, FailStuck, user, queue, store, runs, calls, purge, PurgesOK,
      EntryOK, Settled
<1>8. DownloadsOK'
  BY PeriodsAssumption DEF IInv, TypeOK, FailStuck, user, queue, store,
      runs, calls, purge, DownloadsOK, DownloadsFindTheFile, ClockOK, Calls
<1> QED
  BY <1>1, <1>2, <1>3, <1>4, <1>5, <1>6, <1>7, <1>8 DEF IInv

LEMMA FindKeeps ==
  ASSUME IInv, NEW d \in Downloads, Find(d)
  PROVE  IInv'
<1>1. TypeOK'
  BY DEF IInv, TypeOK, Find, Downloadable, Goto, user, rows, queue, store,
      runs, purge
<1>2. JobsOK'
  BY DEF IInv, Find, Goto, rows, queue, JobsOK
<1>3. GrantsOK'
  BY DEF IInv, Find, Downloadable, Goto, user, rows, GrantsOK
<1>4. RunsOK'
  BY DEF IInv, Find, Downloadable, Goto, user, rows, queue, store, runs,
      RunsOK, Busy
<1>5. KeysOK'
  BY DEF IInv, Find, Downloadable, Goto, user, rows, queue, store, runs,
      KeysOK
<1>6. ClockOK'
  BY DEF IInv, Find, Downloadable, Goto, user, rows, queue, runs, ClockOK,
      Busy
<1>7. PurgesOK'
  BY DEF IInv, Find, Downloadable, Goto, user, rows, queue, store, runs,
      purge, PurgesOK, EntryOK
<1>8. DownloadsOK'
  BY PeriodsAssumption DEF IInv, TypeOK, Find, Downloadable, Goto, user,
      rows, queue, store, runs, purge, DownloadsOK, DownloadsFindTheFile,
      KeysOK
<1> QED
  BY <1>1, <1>2, <1>3, <1>4, <1>5, <1>6, <1>7, <1>8 DEF IInv

LEMMA GetKeeps ==
  ASSUME IInv, NEW d \in Downloads, Get(d)
  PROVE  IInv'
<1>1. TypeOK'
  BY DEF IInv, TypeOK, Get, Goto, user, rows, queue, store, runs, purge
<1>2. JobsOK'
  BY DEF IInv, TypeOK, Get, Goto, rows, queue, JobsOK, Calls
<1>3. GrantsOK'
  BY DEF IInv, TypeOK, Get, Goto, user, rows, GrantsOK, Calls
<1>4. RunsOK'
  BY DEF IInv, Get, Goto, user, rows, queue, store, runs, RunsOK, Busy
<1>5. KeysOK'
  BY DEF IInv, Get, Goto, user, rows, queue, store, runs, KeysOK
<1>6. ClockOK'
  BY DEF IInv, Get, Goto, user, rows, queue, runs, ClockOK, Busy
<1>7. PurgesOK'
  BY DEF IInv, Get, Goto, user, rows, queue, store, runs, purge, PurgesOK,
      EntryOK
<1>8. DownloadsOK'
  BY DEF IInv, TypeOK, Get, Goto, user, rows, queue, store, runs, purge,
      DownloadsOK, DownloadsFindTheFile, Calls
<1> QED
  BY <1>1, <1>2, <1>3, <1>4, <1>5, <1>6, <1>7, <1>8 DEF IInv

LEMMA SelectKeeps ==
  ASSUME IInv, NEW p \in Purges, Select(p)
  PROVE  IInv'
<1>1. TypeOK'
  BY DEF IInv, TypeOK, Select, Expired, user, rows, queue, store, runs,
      calls
<1>2. JobsOK'
  BY DEF IInv, Select, rows, queue, calls, JobsOK
<1>3. GrantsOK'
  BY DEF IInv, Select, Expired, user, rows, calls, GrantsOK
<1>4. RunsOK'
  BY DEF IInv, Select, Expired, user, rows, queue, store, runs, RunsOK, Busy
<1>5. KeysOK'
  BY DEF IInv, Select, Expired, user, rows, queue, store, runs, KeysOK
<1>6. ClockOK'
  BY DEF IInv, Select, Expired, user, rows, queue, runs, ClockOK, Busy
<1>7. PurgesOK'
  <2>1. \A e \in Expired : EntryOK(e)
    <3> SUFFICES ASSUME NEW e \in Expired PROVE EntryOK(e)
      OBVIOUS
    <3>1. e[1] \in Requests /\ e[2] \in Runs /\ key[e[1]] = e[2]
          /\ completedAt[e[1]] + Retention < now
      BY DEF Expired, Entry
    <3>2. key[e[1]] # None
      BY <3>1, NamesAssumption DEF Runs
    <3> QED
      BY <3>1, <3>2 DEF IInv, KeysOK, EntryOK
  <2>2. \A q \in Purges : batch'[q] = batch[q] \/ batch'[q] \subseteq Expired
    BY DEF IInv, TypeOK, Select
  <2>3. \A e : EntryOK(e)' <=> EntryOK(e)
    BY DEF Select, rows, runs, store, EntryOK
  <2> QED
    BY <2>1, <2>2, <2>3 DEF IInv, PurgesOK, Select, store
<1>8. DownloadsOK'
  BY DEF IInv, Select, Expired, user, rows, queue, store, runs, calls,
      DownloadsOK, DownloadsFindTheFile
<1> QED
  BY <1>1, <1>2, <1>3, <1>4, <1>5, <1>6, <1>7, <1>8 DEF IInv

LEMMA DeleteKeeps ==
  ASSUME IInv, NEW p \in Purges, Delete(p)
  PROVE  IInv'
<1>1. TypeOK'
  BY DEF IInv, TypeOK, Delete, user, rows, queue, runs, calls
<1>2. JobsOK'
  BY DEF IInv, Delete, rows, queue, calls, JobsOK
<1>3. GrantsOK'
  BY DEF IInv, Delete, user, rows, calls, GrantsOK
<1>4. RunsOK'
  <2>1. \/ objects' = objects
        \/ \E e \in batch[p] : objects' = objects \ {e[2]}
    BY DEF Delete
  <2>2. \A e \in batch[p] : run[e[2]] = "done"
    BY DEF IInv, PurgesOK, EntryOK
  <2> QED
    BY <2>1, <2>2 DEF IInv, RunsOK, Busy, Delete, rows, queue, runs
<1>5. KeysOK'
  <2>1. \/ objects' = objects
        \/ \E e \in batch[p] : objects' = objects \ {e[2]}
    BY DEF Delete
  <2>2. \A e \in batch[p] : e[2][1] = e[1] /\ completedAt[e[1]] + Retention < now
    BY DEF IInv, PurgesOK, EntryOK
  <2> QED
    BY <2>1, <2>2 DEF IInv, KeysOK, Delete, rows, runs
<1>6. ClockOK'
  BY DEF IInv, Delete, user, rows, runs, ClockOK, Busy
<1>7. PurgesOK'
  BY DEF IInv, Delete, user, rows, queue, runs, calls, PurgesOK, EntryOK
<1>8. DownloadsOK'
  BY PeriodsAssumption DEF IInv, TypeOK, Delete, user, rows, queue, runs,
      calls, DownloadsOK, DownloadsFindTheFile, PurgesOK, EntryOK, Entry,
      Calls
<1> QED
  BY <1>1, <1>2, <1>3, <1>4, <1>5, <1>6, <1>7, <1>8 DEF IInv

LEMMA ClearKeeps ==
  ASSUME IInv, NEW p \in Purges, Clear(p)
  PROVE  IInv'
<1>1. TypeOK'
  BY DEF IInv, TypeOK, Clear, user, queue, store, runs, calls
<1>2. JobsOK'
  BY DEF IInv, Clear, queue, calls, JobsOK
<1>3. GrantsOK'
  BY DEF IInv, Clear, user, calls, GrantsOK
<1>4. RunsOK'
  BY DEF IInv, Clear, user, queue, store, runs, RunsOK, Busy
<1>5. KeysOK'
  BY DEF IInv, Clear, user, queue, store, runs, KeysOK
<1>6. ClockOK'
  BY DEF IInv, Clear, user, queue, runs, ClockOK, Busy
<1>7. PurgesOK'
  BY DEF IInv, Clear, user, queue, store, runs, calls, PurgesOK, EntryOK
<1>8. DownloadsOK'
  BY DEF IInv, Clear, user, queue, store, runs, calls, DownloadsOK,
      DownloadsFindTheFile
<1> QED
  BY <1>1, <1>2, <1>3, <1>4, <1>5, <1>6, <1>7, <1>8 DEF IInv

LEMMA PurgeStopsKeeps ==
  ASSUME IInv, NEW p \in Purges, PurgeStops(p)
  PROVE  IInv'
<1>1. TypeOK'
  BY DEF IInv, TypeOK, PurgeStops, user, rows, queue, runs, calls
<1>2. JobsOK'
  BY DEF IInv, PurgeStops, rows, queue, calls, JobsOK
<1>3. GrantsOK'
  BY DEF IInv, PurgeStops, user, rows, calls, GrantsOK
<1>4. RunsOK'
  <2>1. \/ objects' = objects
        \/ \E e \in batch[p] : objects' = objects \ {e[2]}
    BY DEF PurgeStops
  <2>2. \A e \in batch[p] : run[e[2]] = "done"
    BY DEF IInv, PurgesOK, EntryOK
  <2> QED
    BY <2>1, <2>2 DEF IInv, RunsOK, Busy, PurgeStops, rows, queue, runs
<1>5. KeysOK'
  <2>1. \/ objects' = objects
        \/ \E e \in batch[p] : objects' = objects \ {e[2]}
    BY DEF PurgeStops
  <2>2. \A e \in batch[p] : e[2][1] = e[1] /\ completedAt[e[1]] + Retention < now
    BY DEF IInv, PurgesOK, EntryOK
  <2> QED
    BY <2>1, <2>2 DEF IInv, KeysOK, PurgeStops, rows, runs
<1>6. ClockOK'
  BY DEF IInv, PurgeStops, user, rows, runs, ClockOK, Busy
<1>7. PurgesOK'
  BY DEF IInv, PurgeStops, user, rows, queue, runs, calls, PurgesOK, EntryOK
<1>8. DownloadsOK'
  BY PeriodsAssumption DEF IInv, TypeOK, PurgeStops, user, rows, queue,
      runs, calls, DownloadsOK, DownloadsFindTheFile, PurgesOK, EntryOK,
      Entry, Calls
<1> QED
  BY <1>1, <1>2, <1>3, <1>4, <1>5, <1>6, <1>7, <1>8 DEF IInv

LEMMA TickKeeps ==
  ASSUME IInv, Tick
  PROVE  IInv'
<1>1. TypeOK'
  BY DEF IInv, TypeOK, Tick, user, rows, queue, store, runs, calls, purge
<1>2. JobsOK'
  BY DEF IInv, Tick, rows, queue, calls, JobsOK
<1>3. GrantsOK'
  BY DEF IInv, Tick, user, rows, calls, GrantsOK
<1>4. RunsOK'
  BY DEF IInv, Tick, user, rows, queue, store, runs, RunsOK, Busy
<1>5. KeysOK'
  BY PeriodsAssumption DEF IInv, TypeOK, Tick, user, rows, queue, store,
      runs, calls, KeysOK
<1>6. ClockOK'
  BY PeriodsAssumption DEF IInv, TypeOK, Tick, user, rows, queue, store,
      runs, ClockOK, Busy
<1>7. PurgesOK'
  BY PeriodsAssumption DEF IInv, TypeOK, Tick, user, rows, queue, store,
      runs, calls, purge, PurgesOK, EntryOK, Entry
<1>8. DownloadsOK'
  BY PeriodsAssumption DEF IInv, TypeOK, Tick, user, rows, queue, store,
      runs, calls, purge, DownloadsOK, DownloadsFindTheFile, Calls
<1> QED
  BY <1>1, <1>2, <1>3, <1>4, <1>5, <1>6, <1>7, <1>8 DEF IInv

-----------------------------------------------------------------------------
LEMMA InitHolds == Init => IInv
<1> SUFFICES ASSUME Init PROVE IInv
  OBVIOUS
<1> USE DEF Init
<1>1. TypeOK
  BY PeriodsAssumption DEF TypeOK, Calls, Runs, Entry, Counted, UnderWay
<1>2. JobsOK /\ GrantsOK /\ DownloadsOK
  BY DEF JobsOK, GrantsOK, DownloadsOK, DownloadsFindTheFile, Calls
<1>3. RunsOK /\ KeysOK /\ ClockOK /\ PurgesOK
  BY DEF RunsOK, KeysOK, ClockOK, PurgesOK, Busy
<1> QED
  BY <1>1, <1>2, <1>3 DEF IInv

LEMMA StutterKeeps == IInv /\ UNCHANGED vars => IInv'
<1> SUFFICES ASSUME IInv, UNCHANGED vars PROVE IInv'
  OBVIOUS
<1> USE DEF vars, user, rows, queue, store, runs, calls, purge
<1>1. TypeOK' /\ JobsOK' /\ GrantsOK'
  BY DEF IInv, TypeOK, JobsOK, GrantsOK
<1>2. RunsOK' /\ KeysOK' /\ ClockOK'
  BY DEF IInv, RunsOK, KeysOK, ClockOK, Busy
<1>3. PurgesOK' /\ DownloadsOK'
  BY DEF IInv, PurgesOK, EntryOK, DownloadsOK, DownloadsFindTheFile
<1> QED
  BY <1>1, <1>2, <1>3 DEF IInv

LEMMA NextKeeps == IInv /\ [Next]_vars => IInv'
<1> SUFFICES ASSUME IInv, [Next]_vars PROVE IInv'
  OBVIOUS
<1>1. ASSUME NEW r \in Requests, RequestStep(r) PROVE IInv'
  BY <1>1, RequestKeeps, CheckKeeps, InsertKeeps, AbortRequestKeeps
  DEF RequestStep
<1>2. ASSUME NEW r \in Requests, JobStep(r) PROVE IInv'
  BY <1>2, FetchKeeps, JobExpiresKeeps, FailStuckKeeps DEF JobStep
<1>3. ASSUME NEW a \in Runs, RunStep(a) PROVE IInv'
  BY <1>3, ClaimKeeps, SnapshotKeeps, MarkFailedKeeps, PutKeeps,
     CompleteKeeps, RunStopsKeeps
  DEF RunStep
<1>4. ASSUME NEW d \in Downloads, DownloadStep(d) PROVE IInv'
  BY <1>4, FindKeeps, GetKeeps DEF DownloadStep
<1>5. ASSUME NEW p \in Purges, PurgeStep(p) PROVE IInv'
  BY <1>5, SelectKeeps, DeleteKeeps, ClearKeeps, PurgeStopsKeeps
  DEF PurgeStep
<1> QED
  BY <1>1, <1>2, <1>3, <1>4, <1>5, PutLandsKeeps, CloseAccountKeeps,
     ReopenAccountKeeps, TickKeeps, StutterKeeps
  DEF Next

-----------------------------------------------------------------------------
(* The theorems.                                                            *)

\* The strengthened invariant holds in every state.
THEOREM Invariant == Spec => []IInv
BY InitHolds, NextKeeps, PTL DEF Spec

\* Every variable keeps its type: a retry never gets a number past the limit
\* of the queue.
THEOREM TypeCorrect == Spec => []TypeOK
<1>1. IInv => TypeOK
  BY DEF IInv
<1> QED
  BY <1>1, Invariant, PTL

\* A download that finds its row finds the file in the bucket.
THEOREM DownloadsAreServed == Spec => []DownloadsFindTheFile
<1>1. IInv => DownloadsFindTheFile
  BY DEF IInv, DownloadsOK
<1> QED
  BY <1>1, Invariant, PTL

\* Only the insert of a request brings its row about.
LEMMA OnlyInsertRequests ==
  ASSUME IInv, Next, NEW r \in Requests,
         status[r] = "none", status'[r] = "requested"
  PROVE  Insert(r)
<1>1. ASSUME NEW q \in Requests, RequestStep(q), ~Insert(r) PROVE FALSE
  BY <1>1 DEF IInv, TypeOK, RequestStep, Request, Check, Insert, AbortRequest, rows
<1>2. ASSUME NEW q \in Requests, JobStep(q) PROVE FALSE
  BY <1>2 DEF IInv, TypeOK, JobStep, Fetch, JobExpires, FailStuck, rows
<1>3. ASSUME NEW a \in Runs, RunStep(a) \/ PutLands(a) PROVE FALSE
  BY <1>3, RunParts
  DEF IInv, TypeOK, RunStep, Claim, Snapshot, MarkFailed, Put, Complete, RunStops,
      PutLands, rows
<1>4. ASSUME NEW d \in Downloads, DownloadStep(d) PROVE FALSE
  BY <1>4 DEF DownloadStep, Find, Get, rows
<1>5. ASSUME NEW p \in Purges, PurgeStep(p) PROVE FALSE
  BY <1>5 DEF PurgeStep, Select, Delete, Clear, PurgeStops, rows
<1>6. ASSUME CloseAccount \/ ReopenAccount \/ Tick PROVE FALSE
  BY <1>6 DEF CloseAccount, ReopenAccount, Tick, rows
<1> QED
  BY <1>1, <1>2, <1>3, <1>4, <1>5, <1>6 DEF Next

\* Only a purge takes a key from its row.
LEMMA OnlyClearForgets ==
  ASSUME IInv, Next, NEW r \in Requests, key[r] # None, key'[r] = None
  PROVE  \E p \in Purges : Clear(p)
<1>1. ASSUME NEW q \in Requests, RequestStep(q) \/ JobStep(q) PROVE FALSE
  BY <1>1
  DEF RequestStep, Request, Check, Insert, AbortRequest, JobStep, Fetch, JobExpires,
      FailStuck, rows
<1>2. ASSUME NEW a \in Runs, Complete(a) PROVE FALSE
  BY <1>2, RunParts, NamesAssumption DEF IInv, TypeOK, Complete, Runs
<1>3. ASSUME NEW a \in Runs, RunStep(a) \/ PutLands(a), ~Complete(a) PROVE FALSE
  BY <1>3
  DEF RunStep, Claim, Snapshot, MarkFailed, Put, RunStops, PutLands, rows
<1>4. ASSUME NEW d \in Downloads, DownloadStep(d) PROVE FALSE
  BY <1>4 DEF DownloadStep, Find, Get, rows
<1>5. ASSUME NEW p \in Purges, PurgeStep(p), ~Clear(p) PROVE FALSE
  BY <1>5 DEF PurgeStep, Select, Delete, PurgeStops, rows
<1>6. ASSUME CloseAccount \/ ReopenAccount \/ Tick PROVE FALSE
  BY <1>6 DEF CloseAccount, ReopenAccount, Tick, rows
<1> QED
  BY <1>1, <1>2, <1>3, <1>4, <1>5, <1>6 DEF Next

\* Two requests that check at the same time are not both granted.
THEOREM GrantsHold == Spec => GrantsAreSpaced
<1>1. ASSUME IInv, Next, NEW r \in Requests,
             status[r] = "none", status'[r] = "requested"
      PROVE  /\ active
             /\ \A s \in Requests \ {r} :
                  status[s] \in UnderWay => created[s] + RateWindow <= created'[r]
  <2>1. Insert(r)
    BY <1>1, OnlyInsertRequests
  <2> QED
    BY <2>1, <1>1 DEF IInv, TypeOK, GrantsOK, Insert
<1>2. IInv /\ [Next]_vars =>
        [\A r \in Requests : status[r] = "none" /\ status'[r] = "requested" =>
           /\ active
           /\ \A s \in Requests \ {r} :
                status[s] \in UnderWay => created[s] + RateWindow <= created'[r]]_vars
  BY <1>1
<1> QED
  BY <1>2, Invariant, PTL DEF Spec, GrantsAreSpaced

\* The purge forgets a key only when its object is gone.
THEOREM PurgeIsComplete == Spec => PurgeForgetsNothing
<1>1. ASSUME IInv, Next, NEW r \in Requests, key[r] # None, key'[r] = None
      PROVE  key[r] \notin objects
  <2>1. PICK p \in Purges : Clear(p)
    BY <1>1, OnlyClearForgets
  <2>2. current[p][1] = r
    BY <1>1, <2>1 DEF IInv, TypeOK, Clear
  <2>3. key[r] = current[p][2] /\ current[p][2] \notin objects
    BY <1>1, <2>1, <2>2 DEF IInv, PurgesOK, EntryOK, Clear
  <2> QED
    BY <2>3
<1>2. IInv /\ [Next]_vars =>
        [\A r \in Requests : key[r] # None /\ key'[r] = None => key[r] \notin objects]_vars
  BY <1>1
<1> QED
  BY <1>2, Invariant, PTL DEF Spec, PurgeForgetsNothing
=============================================================================
