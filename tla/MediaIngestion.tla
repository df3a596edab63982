--------------------------- MODULE MediaIngestion ---------------------------
(***************************************************************************)
(* The ingestion of one media file: the life of the MediaIngestion row that *)
(* one (actor, Idempotency-Key) pair owns, under concurrent upload requests *)
(* and cleanup requests, the private object the row tracks, and the Media   *)
(* the completed row publishes.  Source:                                    *)
(* backend/src/modules/cms/media-ingestion/media-ingestion.service.ts.      *)
(*                                                                          *)
(* Rows of different keys share nothing, so the module keeps one.  A        *)
(* request is its processingToken (the code draws a UUID per request), and  *)
(* the object key an attempt builds is named by the attempt.                *)
(*                                                                          *)
(* A database transaction is one step when its acknowledgement arrives.     *)
(* When the acknowledgement is lost the transaction stays in `inflight`: it *)
(* commits later, against the row it then finds, or never.  Likewise a PUT  *)
(* whose outcome the client does not know stays in `puts` until it lands,   *)
(* dies, or its latency bound passes.                                       *)
(***************************************************************************)
EXTENDS Integers, FiniteSets

CONSTANTS
  Uploads,      \* upload requests that carry the same actor and Idempotency-Key
  Cleanups,     \* retryCleanup requests of administrators for the row
  Payloads,     \* request fingerprints
  Fingerprint,  \* the fingerprint of each upload request
  None,         \* SQL NULL / a row that does not exist
  Settling,     \* MEDIA_CLEANUP_SETTLING_MS
  OpTimeout,    \* requestTimeoutMs of a storage operation
  PutLatency,   \* how long after the client's error a PUT may still land
  PutAttempts,  \* maxAttempts of the S3 client
  CanLose,      \* may the database be unreachable, or a commit's answer lost?
  CanCrash,     \* may the process die between two steps of a request?
  MaxTime       \* bound on the clock, for model checking

Workers == Uploads \cup Cleanups

ASSUME RequestsAssumption ==
  /\ Uploads \cap Cleanups = {}
  /\ None \notin Workers \cup Payloads
  /\ Fingerprint \in [Uploads -> Payloads]

ASSUME TimingAssumption ==
  /\ Settling \in Nat /\ OpTimeout \in Nat /\ PutLatency \in Nat
  /\ MaxTime \in Nat /\ PutAttempts \in Nat \ {0}
  /\ PutLatency + OpTimeout < Settling

ASSUME FaultsAssumption == CanLose \in BOOLEAN /\ CanCrash \in BOOLEAN

VARIABLES
  row,       \* the MediaIngestion row
  media,     \* the attempts that inserted a Media row
  stored,    \* the keys whose object is in private storage
  puts,      \* PUTs the client gave up on and the provider may still apply
  inflight,  \* transactions sent whose acknowledgement was lost
  now,       \* the clock
  pc,        \* the await each request is at
  verdict,   \* the status and code recordFailure is about to write
  view,      \* what a cleanup request remembers across its awaits
  reply      \* what the request answered

vars == <<row, media, stored, puts, inflight, now, pc, verdict, view, reply>>
db == <<row, media, inflight>>
storage == <<stored, puts>>
local == <<verdict, view>>

NoTime == -1     \* cleanupAbsentObservedAt IS NULL
KeepTime == -2   \* the UPDATE does not mention cleanupAbsentObservedAt

Status == {"none", "processing", "completed", "rejected", "failed",
           "cleanup_required"}
CleanupCode == {"OBJECT_WRITE_OUTCOME_UNKNOWN", "OBJECT_CLEANUP_REQUIRED",
                "OBJECT_CLEANUP_SETTLING"}
FailureCode == CleanupCode \cup
  {"NONE", "REJECTED", "PROCESSING_FAILED", "DATABASE_WRITE_FAILED",
   "STORAGE_WRITE_FAILED", "OBJECT_CLEANUP_IN_PROGRESS", "OBJECT_CLEANED"}

Row == [status : Status, token : Workers \cup {None},
        key : Uploads \cup {None}, code : FailureCode,
        print : Payloads \cup {None}, absentAt : Nat \cup {NoTime},
        marked : BOOLEAN]

NoRow == [status |-> "none", token |-> None, key |-> None, code |-> "NONE",
          print |-> None, absentAt |-> NoTime, marked |-> FALSE]

Tx == [op : {"claim", "reserve", "finalize", "close", "claim_cleanup"},
       by : Workers, status : Status, code : FailureCode,
       at : Nat \cup {NoTime, KeepTime}]

Put == [key : Uploads, until : Nat]

UploadPc == {"start", "claim_reread", "validate", "reject", "reject_reread",
             "reserve", "put", "finalize", "reread_lost", "reread_error",
             "own", "compensate", "record", "replay", "done"}
CleanupPc == {"start", "cleanup_reread", "check", "head", "delete", "verify",
              "decide", "defer", "complete", "fail", "confirm", "done"}
Reply == {"none", "success", "rejected", "cleaned", "settling", "error"}

-----------------------------------------------------------------------------
(* Transactions.  Every write after the claim compares the fencing token.   *)

Owns(w) == row.status = "processing" /\ row.token = w

\* Mutant: the takeover does not look at the reserved key.
MayClaimReserved(u) ==
  \/ row.status = "none"
  \/ row.status = "failed" /\ row.print = Fingerprint[u]

\* claimIngestionTransaction creates the row, or takes over a failed attempt
\* of the same request that never reserved an object.
MayClaim(u) ==
  \/ row.status = "none"
  \/ /\ row.status = "failed"
     /\ row.print = Fingerprint[u]
     /\ row.key = None
     /\ row.code # "OBJECT_CLEANED"

\* Mutant: cleanup may take over an attempt that is still running.
MayClaimCleanupRunning ==
  row.status \in {"cleanup_required", "processing"} /\ row.key # None

\* Mutant: cleanup may reopen a row that is closed.
MayClaimCleanupClosed ==
  row.status \in {"cleanup_required", "failed"} /\ row.key # None

MayClaimCleanup == row.status = "cleanup_required" /\ row.key # None

ClaimTx(u) == [op |-> "claim", by |-> u, status |-> "processing",
               code |-> "NONE", at |-> KeepTime]
ReserveTx(u) == [op |-> "reserve", by |-> u, status |-> "processing",
                 code |-> "NONE", at |-> KeepTime]
FinalizeTx(u) == [op |-> "finalize", by |-> u, status |-> "completed",
                  code |-> "NONE", at |-> KeepTime]
ClaimCleanupTx(c) == [op |-> "claim_cleanup", by |-> c,
                      status |-> "processing",
                      code |-> "OBJECT_CLEANUP_IN_PROGRESS", at |-> KeepTime]
CloseTx(w, s, f, t) == [op |-> "close", by |-> w, status |-> s, code |-> f,
                        at |-> t]

\* Each transaction is guarded by the row it finds and writes its columns.
CommitClaim(t) ==
  /\ t.op = "claim" /\ MayClaim(t.by)
  /\ row' = [row EXCEPT !.status = "processing", !.token = t.by,
                        !.code = "NONE", !.print = Fingerprint[t.by]]
  /\ UNCHANGED media

CommitClaimCleanup(t) ==
  /\ t.op = "claim_cleanup" /\ MayClaimCleanup
  /\ row' = [row EXCEPT !.status = "processing", !.token = t.by,
                        !.code = "OBJECT_CLEANUP_IN_PROGRESS"]
  /\ UNCHANGED media

CommitReserve(t) ==
  /\ t.op = "reserve" /\ Owns(t.by)
  /\ row' = [row EXCEPT !.key = t.by]
  /\ UNCHANGED media

CommitFinalize(t) ==
  /\ t.op = "finalize" /\ Owns(t.by)
  /\ row' = [row EXCEPT !.status = "completed", !.code = "NONE"]
  /\ media' = media \cup {t.by}

\* markRejected, recordFailure and the three cleanup outcomes.  The trigger
\* sets cleanupRequiredAt ("marked") on the first entry into cleanup_required.
CommitClose(t) ==
  /\ t.op = "close" /\ Owns(t.by)
  /\ row' = [row EXCEPT !.status = t.status, !.code = t.code,
                        !.absentAt = IF t.at = KeepTime THEN @ ELSE t.at,
                        !.marked = @ \/ t.status = "cleanup_required"]
  /\ UNCHANGED media

Commit(t) ==
  \/ CommitClaim(t) \/ CommitClaimCleanup(t) \/ CommitReserve(t)
  \/ CommitFinalize(t) \/ CommitClose(t)

Acked(t) == Commit(t) /\ UNCHANGED inflight

\* The request sees a connection error or a timeout; the server may still
\* hold the transaction.
Lost(t) == CanLose /\ inflight' = inflight \cup {t} /\ UNCHANGED <<row, media>>

Land(t) ==
  /\ t \in inflight
  /\ Commit(t)
  /\ inflight' = inflight \ {t}
  /\ UNCHANGED <<storage, now, pc, local, reply>>

Vanish(t) ==
  /\ t \in inflight
  /\ inflight' = inflight \ {t}
  /\ UNCHANGED <<row, media, storage, now, pc, local, reply>>

Goto(w, l) == pc' = [pc EXCEPT ![w] = l] /\ UNCHANGED reply

Answer(w, r) == /\ pc' = [pc EXCEPT ![w] = "done"]
                /\ reply' = [reply EXCEPT ![w] = r]

Record(u, s, f) == /\ verdict' = [verdict EXCEPT ![u] = [status |-> s, code |-> f]]
                   /\ Goto(u, "record")
                   /\ UNCHANGED view

Init ==
  /\ row = NoRow
  /\ media = {}
  /\ stored = {}
  /\ puts = {}
  /\ inflight = {}
  /\ now = 0
  /\ pc = [w \in Workers |-> "start"]
  /\ verdict = [u \in Uploads |-> [status |-> "failed", code |-> "NONE"]]
  /\ view = [c \in Cleanups |->
               [absent |-> NoTime, present |-> FALSE, seen |-> 0]]
  /\ reply = [w \in Workers |-> "none"]

-----------------------------------------------------------------------------
(* An upload request.                                                       *)

\* Mutant: the replay does not compare the fingerprint.
ClaimAnyFingerprint(u) ==
  /\ pc[u] = "start"
  /\ UNCHANGED <<storage, now, local>>
  /\ \/ Acked(ClaimTx(u)) /\ Goto(u, "validate")
     \/ row.status = "completed" /\ Goto(u, "replay") /\ UNCHANGED db

Claim(u) ==
  /\ pc[u] = "start"
  /\ UNCHANGED <<storage, now, local>>
  /\ \/ Acked(ClaimTx(u)) /\ Goto(u, "validate")
     \/ /\ row.status = "completed" /\ row.print = Fingerprint[u]
        /\ Goto(u, "replay") /\ UNCHANGED db
     \/ /\ row.status = "rejected" /\ row.print = Fingerprint[u]
        /\ Answer(u, "rejected") /\ UNCHANGED db
     \/ Answer(u, "error") /\ UNCHANGED db
     \/ Lost(ClaimTx(u)) /\ Goto(u, "claim_reread")

\* claimIngestion rereads after a lost acknowledgement; the read may fail.
ClaimReread(u) ==
  /\ pc[u] = "claim_reread"
  /\ UNCHANGED <<db, storage, now, local>>
  /\ \/ Owns(u) /\ Goto(u, "validate")
     \/ Answer(u, "error")

\* File processing and the malware scan.
Validate(u) ==
  /\ pc[u] = "validate"
  /\ UNCHANGED <<db, storage, now>>
  /\ \/ Goto(u, "reserve") /\ UNCHANGED local
     \/ Goto(u, "reject") /\ UNCHANGED local
     \/ Record(u, "failed", "PROCESSING_FAILED")

Reject(u) ==
  LET t == CloseTx(u, "rejected", "REJECTED", KeepTime) IN
  /\ pc[u] = "reject"
  /\ UNCHANGED <<storage, now, local>>
  /\ \/ Acked(t) /\ Answer(u, "rejected")
     \/ ~Owns(u) /\ Goto(u, "reject_reread") /\ UNCHANGED db
     \/ Lost(t) /\ Goto(u, "reject_reread")

\* Mutant: a lost acknowledgement is taken for a rejection.
RejectBlindly(u) ==
  /\ pc[u] = "reject_reread"
  /\ UNCHANGED <<db, storage, now, local>>
  /\ Answer(u, "rejected")

RejectReread(u) ==
  /\ pc[u] = "reject_reread"
  /\ UNCHANGED <<db, storage, now, local>>
  /\ \/ row.status = "rejected" /\ row.token = u /\ Answer(u, "rejected")
     \/ Answer(u, "error")

\* Mutant: the object is sent without waiting for the reservation.
ReserveInBackground(u) ==
  /\ pc[u] = "reserve"
  /\ UNCHANGED <<storage, now, local>>
  /\ Goto(u, "put")
  /\ Acked(ReserveTx(u)) \/ Lost(ReserveTx(u))

\* reserveValidatedObject writes the object key before any byte is sent.
Reserve(u) ==
  /\ pc[u] = "reserve"
  /\ UNCHANGED <<storage, now>>
  /\ \/ Acked(ReserveTx(u)) /\ Goto(u, "put") /\ UNCHANGED local
     \/ /\ Record(u, "failed", "DATABASE_WRITE_FAILED")
        /\ \/ UNCHANGED db
           \/ Lost(ReserveTx(u))

\* An attempt of the PUT the client stopped waiting for.
Abandoned(u) == puts' = puts \cup {[key |-> u, until |-> now + PutLatency]}

\* The S3 client makes up to PutAttempts attempts and reports the last one:
\* an earlier attempt may be abandoned whatever the report.
PutObject(u) ==
  /\ pc[u] = "put"
  /\ UNCHANGED <<db, now>>
  /\ \/ /\ stored' = stored \cup {u}
        /\ Goto(u, "finalize")
        /\ UNCHANGED local
        /\ UNCHANGED puts \/ (PutAttempts > 1 /\ Abandoned(u))
     \/ /\ Record(u, "failed", "STORAGE_WRITE_FAILED")
        /\ UNCHANGED stored
        /\ UNCHANGED puts \/ (PutAttempts > 1 /\ Abandoned(u))
     \/ /\ Record(u, "cleanup_required", "OBJECT_WRITE_OUTCOME_UNKNOWN")
        /\ UNCHANGED stored
        /\ Abandoned(u)

\* Mutant: success is answered although the acknowledgement was lost.
FinalizeOptimistic(u) ==
  /\ pc[u] = "finalize"
  /\ UNCHANGED <<storage, now, local>>
  /\ Answer(u, "success")
  /\ Acked(FinalizeTx(u)) \/ Lost(FinalizeTx(u))

\* finalizeMedia: refused (account, source, fence), rolled back, or lost.
Finalize(u) ==
  /\ pc[u] = "finalize"
  /\ UNCHANGED <<storage, now, local>>
  /\ \/ Acked(FinalizeTx(u)) /\ Answer(u, "success")
     \/ Goto(u, "reread_error") /\ UNCHANGED db
     \/ Lost(FinalizeTx(u)) /\ Goto(u, "reread_lost")

\* Mutant: a lost acknowledgement is compensated like a refusal.
FinalizeRereadEager(u) ==
  /\ pc[u] \in {"reread_error", "reread_lost"}
  /\ UNCHANGED <<db, storage, now, local>>
  /\ \/ row.status = "completed" /\ Goto(u, "replay")
     \/ Owns(u) /\ Goto(u, "own")

\* The authoritative reread: only a deterministic error of an attempt that
\* still owns the row leads to compensation.
FinalizeReread(u) ==
  /\ pc[u] \in {"reread_error", "reread_lost"}
  /\ UNCHANGED <<db, storage, now, local>>
  /\ \/ (CanLose \/ ~Owns(u)) /\ Answer(u, "error")
     \/ row.status = "completed" /\ Goto(u, "replay")
     \/ pc[u] = "reread_error" /\ Owns(u) /\ Goto(u, "own")

\* compensateObject, first await: is the attempt still the owner?
CheckAttempt(u) ==
  /\ pc[u] = "own"
  /\ UNCHANGED <<db, storage, now>>
  /\ \/ Owns(u) /\ Goto(u, "compensate") /\ UNCHANGED local
     \/ Record(u, "cleanup_required", "OBJECT_CLEANUP_REQUIRED")

\* compensateObject, second await: a failed DELETE may have deleted.
Compensate(u) ==
  /\ pc[u] = "compensate"
  /\ UNCHANGED <<db, puts, now>>
  /\ \/ /\ stored' = stored \ {u}
        /\ Record(u, "failed", "DATABASE_WRITE_FAILED")
     \/ /\ stored' \in {stored, stored \ {u}}
        /\ Record(u, "cleanup_required", "OBJECT_CLEANUP_REQUIRED")

\* recordFailure; the request answers an error whatever became of it.
RecordFailure(u) ==
  LET t == CloseTx(u, verdict[u].status, verdict[u].code, KeepTime) IN
  /\ pc[u] = "record"
  /\ Answer(u, "error")
  /\ UNCHANGED <<storage, now, local>>
  /\ \/ Acked(t)
     \/ ~Owns(u) /\ UNCHANGED db
     \/ Lost(t)

\* completedReplay: the object and the Media are verified before success.
Replay(u) ==
  /\ pc[u] = "replay"
  /\ UNCHANGED <<db, storage, now, local>>
  /\ \/ row.key \in stored /\ row.token \in media /\ Answer(u, "success")
     \/ Answer(u, "error")

-----------------------------------------------------------------------------
(* A cleanup request.                                                       *)

Remember(c) == view' = [view EXCEPT ![c].absent = row.absentAt]

ClaimCleanup(c) ==
  /\ pc[c] = "start"
  /\ UNCHANGED <<storage, now, verdict>>
  /\ \/ Acked(ClaimCleanupTx(c)) /\ Remember(c) /\ Goto(c, "check")
     \/ Answer(c, "error") /\ UNCHANGED <<db, view>>
     \/ Lost(ClaimCleanupTx(c)) /\ Goto(c, "cleanup_reread") /\ UNCHANGED view

CleanupReread(c) ==
  /\ pc[c] = "cleanup_reread"
  /\ UNCHANGED <<db, storage, now, verdict>>
  /\ \/ /\ Owns(c) /\ row.code = "OBJECT_CLEANUP_IN_PROGRESS"
        /\ Remember(c) /\ Goto(c, "check")
     \/ Answer(c, "error") /\ UNCHANGED view

CheckCleanup(c) ==
  /\ pc[c] = "check"
  /\ UNCHANGED <<db, storage, now, local>>
  /\ \/ Owns(c) /\ Goto(c, "head")
     \/ ~Owns(c) /\ Answer(c, "error")
     \/ Goto(c, "fail")

\* Mutant: a failed probe answers an error and leaves the row in progress.
HeadForgetful(c) ==
  /\ pc[c] = "head"
  /\ UNCHANGED <<db, storage, now, verdict>>
  /\ \/ /\ view' = [view EXCEPT ![c].present = row.key \in stored]
        /\ Goto(c, "delete")
     \/ Answer(c, "error") /\ UNCHANGED view

Head(c) ==
  /\ pc[c] = "head"
  /\ UNCHANGED <<db, storage, now, verdict>>
  /\ \/ /\ view' = [view EXCEPT ![c].present = row.key \in stored]
        /\ Goto(c, "delete")
     \/ Goto(c, "fail") /\ UNCHANGED view

Delete(c) ==
  /\ pc[c] = "delete"
  /\ UNCHANGED <<db, puts, now, local>>
  /\ \/ stored' = stored \ {row.key} /\ Goto(c, "verify")
     \/ stored' \in {stored, stored \ {row.key}} /\ Goto(c, "fail")

\* Mutant: the recorded observation is taken for the new one.
VerifyStale(c) ==
  /\ pc[c] = "verify"
  /\ UNCHANGED <<db, storage, now, verdict>>
  /\ row.key \notin stored
  /\ view' = [view EXCEPT ![c].seen = view[c].absent]
  /\ Goto(c, "decide")

\* The second HEAD; `seen` is the instant at which the provider answers it.
Verify(c) ==
  /\ pc[c] = "verify"
  /\ UNCHANGED <<db, storage, now, verdict>>
  /\ \/ /\ row.key \notin stored
        /\ view' = [view EXCEPT ![c].seen = now]
        /\ Goto(c, "decide")
     \/ Goto(c, "fail") /\ UNCHANGED view

\* Mutant: two absences are enough, whatever time lies between them.
SettledAtOnce(c) == ~view[c].present /\ view[c].absent # NoTime

Settled(c) ==
  /\ ~view[c].present
  /\ view[c].absent # NoTime
  /\ now - view[c].absent >= Settling

Decide(c) ==
  /\ pc[c] = "decide"
  /\ UNCHANGED <<db, storage, now, local>>
  /\ Goto(c, IF Settled(c) THEN "complete" ELSE "defer")

ObservedAt(c) == IF view[c].present \/ view[c].absent = NoTime
                 THEN now ELSE view[c].absent

DeferCleanup(c) ==
  LET t == CloseTx(c, "cleanup_required", "OBJECT_CLEANUP_SETTLING",
                   ObservedAt(c)) IN
  /\ pc[c] = "defer"
  /\ UNCHANGED <<storage, now, local>>
  /\ \/ Acked(t) /\ Answer(c, "settling")
     \/ ~Owns(c) /\ Answer(c, "error") /\ UNCHANGED db
     \/ Lost(t) /\ Goto(c, "confirm")

CompleteCleanup(c) ==
  LET t == CloseTx(c, "failed", "OBJECT_CLEANED", KeepTime) IN
  /\ pc[c] = "complete"
  /\ UNCHANGED <<storage, now, local>>
  /\ \/ Acked(t) /\ Answer(c, "cleaned")
     \/ ~Owns(c) /\ Answer(c, "error") /\ UNCHANGED db
     \/ Lost(t) /\ Goto(c, "confirm")

RecordCleanupFailure(c) ==
  LET t == CloseTx(c, "cleanup_required", "OBJECT_CLEANUP_REQUIRED", NoTime) IN
  /\ pc[c] = "fail"
  /\ Answer(c, "error")
  /\ UNCHANGED <<storage, now, local>>
  /\ \/ Acked(t)
     \/ ~Owns(c) /\ UNCHANGED db
     \/ Lost(t)

\* The reread after a lost defer or complete answers what the row shows.
ConfirmCleanup(c) ==
  /\ pc[c] = "confirm"
  /\ UNCHANGED <<db, storage, now, local>>
  /\ \/ row.token = c /\ row.code = "OBJECT_CLEANED" /\ Answer(c, "cleaned")
     \/ row.token = c /\ row.code = "OBJECT_CLEANUP_SETTLING"
        /\ Answer(c, "settling")
     \/ Answer(c, "error")

-----------------------------------------------------------------------------
(* The environment.                                                         *)

LandPut(p) ==
  /\ p \in puts
  /\ stored' = stored \cup {p.key}
  /\ puts' = puts \ {p}
  /\ UNCHANGED <<db, now, pc, local, reply>>

DropPut(p) ==
  /\ p \in puts
  /\ puts' = puts \ {p}
  /\ UNCHANGED <<db, stored, now, pc, local, reply>>

\* Time does not pass the deadline of an abandoned PUT, nor the deadline of
\* the storage operation whose answer a cleanup request is about to act on.
Tick ==
  /\ now < MaxTime
  /\ \A p \in puts : now < p.until
  /\ \A c \in Cleanups : pc[c] = "decide" => now < view[c].seen + OpTimeout
  /\ now' = now + 1
  /\ UNCHANGED <<db, storage, pc, local, reply>>

Crash(w) ==
  /\ CanCrash
  /\ pc[w] \notin {"start", "done"}
  /\ Answer(w, "error")
  /\ UNCHANGED <<db, storage, now, local>>

UploadStep(u) ==
  \/ Claim(u) \/ ClaimReread(u) \/ Validate(u) \/ Reject(u) \/ RejectReread(u)
  \/ Reserve(u) \/ PutObject(u) \/ Finalize(u) \/ FinalizeReread(u)
  \/ CheckAttempt(u) \/ Compensate(u) \/ RecordFailure(u) \/ Replay(u)

CleanupStep(c) ==
  \/ ClaimCleanup(c) \/ CleanupReread(c) \/ CheckCleanup(c) \/ Head(c)
  \/ Delete(c) \/ Verify(c) \/ Decide(c) \/ DeferCleanup(c)
  \/ CompleteCleanup(c) \/ RecordCleanupFailure(c) \/ ConfirmCleanup(c)

Next ==
  \/ \E u \in Uploads : UploadStep(u)
  \/ \E c \in Cleanups : CleanupStep(c)
  \/ \E w \in Workers : Crash(w)
  \/ \E t \in inflight : Land(t) \/ Vanish(t)
  \/ \E p \in puts : LandPut(p) \/ DropPut(p)
  \/ Tick

Spec == Init /\ [][Next]_vars

\* Once claimed, a request is driven by the event loop to its answer: every
\* await has a deadline.  No new request is forced to arrive.
FairSpec ==
  /\ Spec
  /\ \A u \in Uploads : WF_vars(UploadStep(u) /\ pc[u] # "start")
  /\ \A c \in Cleanups : WF_vars(CleanupStep(c) /\ pc[c] # "start")

-----------------------------------------------------------------------------
(* Properties.                                                              *)

TypeOK ==
  /\ row \in Row
  /\ media \subseteq Uploads
  /\ stored \subseteq Uploads
  /\ puts \subseteq Put
  /\ inflight \subseteq Tx
  /\ now \in Nat
  /\ pc \in [Workers -> UploadPc \cup CleanupPc]
  /\ \A u \in Uploads : pc[u] \in UploadPc
  /\ \A c \in Cleanups : pc[c] \in CleanupPc
  /\ verdict \in [Uploads -> [status : {"failed", "cleanup_required"},
                              code : FailureCode]]
  /\ view \in [Cleanups -> [absent : Nat \cup {NoTime}, present : BOOLEAN,
                            seen : Nat]]
  /\ reply \in [Workers -> Reply]

\* A completed row has its object in private storage and exactly one Media,
\* inserted by the attempt that holds the row; no other row has a Media.  A
\* compensation that raced a commit in flight would break it.
CompletedIsStored ==
  IF row.status = "completed"
  THEN row.key = row.token /\ row.key \in stored /\ media = {row.token}
  ELSE media = {}

\* Nothing is stored, or may still be stored, under a key the row does not
\* track: every orphan can be found from the table.
ObjectsAreTracked ==
  stored \cup {p.key : p \in puts} \subseteq {row.key}

\* After OBJECT_CLEANED the object is gone and no abandoned PUT can bring it
\* back: what the settling window of retryCleanup is for.
CleanedIsGone ==
  row.code = "OBJECT_CLEANED" => row.key \notin stored /\ puts = {}

\* A request about to touch private storage owns the row at that moment, and
\* the key it touches is the row's: a stale loser never writes or deletes.
SideEffectsAreFenced ==
  /\ \A u \in Uploads :
       pc[u] \in {"put", "finalize", "compensate"} => Owns(u) /\ row.key = u
  /\ \A c \in Cleanups :
       pc[c] \in {"head", "delete", "verify", "complete"} =>
         Owns(c) /\ row.key # None

\* An answer that claims an outcome is the outcome the table shows, and a
\* success is for the same request fingerprint.
RepliesAreTrue ==
  /\ \A u \in Uploads :
       /\ reply[u] = "success" =>
            row.status = "completed" /\ row.print = Fingerprint[u]
       /\ reply[u] = "rejected" => row.status = "rejected"
  /\ \A c \in Cleanups : reply[c] = "cleaned" => row.code = "OBJECT_CLEANED"

\* Once an attempt has reserved an object key no upload attempt ever takes
\* the row over again: only cleanup requests do, and the key stays.
ReservedKeyIsNeverReused ==
  [][row.key # None =>
       /\ row'.key = row.key
       /\ row'.token # row.token => row'.token \in Cleanups]_vars

\* With a reachable database and no crash, every attempt the table shows in
\* progress reaches a recorded outcome: no path of the handlers forgets it.
AttemptsSettle == row.status = "processing" ~> row.status # "processing"

\* ADR-005: "an explicit pre-write provider rejection" and a deterministic
\* finalize failure leave a failed row, which therefore has no object.
FailedHasNoObject == row.status = "failed" => row.key \notin stored

\* The service never asks the database for a transition its triggers and CHECK
\* constraints refuse, late commits included.
Lifecycle == INSTANCE MediaIngestionLifecycle
LifecycleRespected == Lifecycle!Spec

\* The service implements the promise of an Idempotency-Key.
Promise == INSTANCE IdempotentUpload
             WITH assets <- media,
                  answered <- {u \in Uploads : reply[u] = "success"}
UploadIsIdempotent == Promise!Spec
=============================================================================
