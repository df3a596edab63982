--------------------------- MODULE AccountDeletion ---------------------------
(***************************************************************************)
(* The life of one account: signing in and rotating refresh tokens, asking  *)
(* for deletion, changing one's mind by signing in again within the grace   *)
(* period, and the worker that erases the account when the period is over.  *)
(* Source: backend/src/modules/auth/auth.service.ts (login, refresh,        *)
(* logout), backend/src/modules/user/user.service.ts                        *)
(* (requestAccountDeletion), backend/src/modules/user/jobs/                 *)
(* anonymize-account.job.ts and the pg-boss queue of                        *)
(* backend/src/infrastructure/jobs/jobs.module.ts.                          *)
(*                                                                          *)
(* Accounts share nothing here, so the module keeps one.  A deletion        *)
(* request row, and the job enqueued with it, is named by the call that     *)
(* inserted it; a session row by the login or refresh call that opened it.  *)
(*                                                                          *)
(* Transactions run under READ COMMITTED.  Those that hold a row lock while *)
(* they wait for another one are cut where they wait: `userLock` is the     *)
(* FOR UPDATE lock on the User row, which also keeps out the foreign-key    *)
(* check of an INSERT into UserSession, and `sessionLock` the lock a        *)
(* refresh holds on the session it claimed.  Waiting is a step that is not  *)
(* enabled; a transaction PostgreSQL or Prisma gives up on (deadlock,       *)
(* timeout) is an Abort.                                                    *)
(***************************************************************************)
EXTENDS Integers, FiniteSets

CONSTANTS
  Logins,       \* POST /auth/login calls
  Refreshes,    \* POST /auth/refresh calls
  Deletions,    \* POST /users/me/deletion-request calls
  None,         \* no row, no lock
  Grace,        \* the 7 days between request and erasure
  RequestTime,  \* bound on a login, and on a transaction, from its clock reading
  RetryLimit,   \* retryLimit of the queue privacy.anonymize-account
  MaxTime       \* bound on the clock, for model checking

Sessions == Logins \cup Refreshes
Calls == Sessions \cup Deletions

ASSUME CallsAssumption ==
  /\ Logins \cap Refreshes = {} /\ Sessions \cap Deletions = {}
  /\ None \notin Calls

ASSUME TimesAssumption ==
  /\ Grace \in Nat /\ RequestTime \in Nat /\ MaxTime \in Nat
  /\ RetryLimit \in Nat
  /\ 2 * RequestTime < Grace

VARIABLES
  account,      \* User.status (deletedAt is set exactly when it is not active)
  request,      \* AccountDeletionRequest.status
  due,          \* AccountDeletionRequest.scheduledAt
  session,      \* UserSession: absent, unrevoked, or why it was revoked
  origin,       \* the session whose token opened this one
  job,          \* the pg-boss job of each request
  tries,        \* how often that job was retried
  userLock,     \* who holds the User row FOR UPDATE
  sessionLock,  \* who holds each UserSession row
  now,          \* the database clock
  pc,           \* the await each call is at
  view,         \* what a call remembers across its awaits
  reply         \* what the call answered

rows == <<account, request, due>>
sessions == <<session, origin>>
queue == <<job, tries>>
locks == <<userLock, sessionLock>>
calls == <<pc, view, reply>>
vars == <<rows, sessions, queue, locks, now, calls>>

AccountStatus == {"active", "deletion_pending", "anonymized"}
RequestStatus == {"none", "requested", "cancelled", "completed"}
SessionStatus == {"none", "live", "rotated", "revoked", "deleted"}
JobState == {"none", "waiting", "completed", "failed"}

View == [target : Deletions \cup {None}, from : Sessions \cup {None},
         seen : SUBSET Sessions, began : Nat]

LoginPc == {"start", "lookup", "verify", "cancel", "open", "done"}
RefreshPc == {"start", "check", "rotate", "reuse", "revoke", "done"}
DeletionPc == {"start", "read", "lock", "revoke", "done"}

Requested == {d \in Deletions : request[d] = "requested"}
Live == {s \in Sessions : session[s] = "live"}

-----------------------------------------------------------------------------
Goto(c, l) == pc' = [pc EXCEPT ![c] = l] /\ UNCHANGED reply

Answer(c, r) == /\ pc' = [pc EXCEPT ![c] = "done"]
                /\ reply' = [reply EXCEPT ![c] = r]

\* The client hears of a committed transaction, or only of an error.
AnswerOrLose(c, r) == Answer(c, r) \/ Answer(c, "error")

Fail(c) == Answer(c, "error") /\ UNCHANGED view

Init ==
  /\ account = "active"
  /\ request = [d \in Deletions |-> "none"]
  /\ due = [d \in Deletions |-> 0]
  /\ session = [s \in Sessions |-> "none"]
  /\ origin = [s \in Sessions |-> None]
  /\ job = [d \in Deletions |-> "none"]
  /\ tries = [d \in Deletions |-> 0]
  /\ userLock = None
  /\ sessionLock = [s \in Sessions |-> None]
  /\ now = 0
  /\ pc = [c \in Calls |-> "start"]
  /\ view = [c \in Calls |->
               [target |-> None, from |-> None, seen |-> {}, began |-> 0]]
  /\ reply = [c \in Calls |-> "none"]

-----------------------------------------------------------------------------
(* POST /auth/login.                                                        *)

\* The user is looked up by e-mail: an anonymized account is not found.
Login(l) ==
  /\ pc[l] = "start"
  /\ view' = [view EXCEPT ![l].began = now]
  /\ \/ account = "active" /\ Goto(l, "verify")
     \/ account = "deletion_pending" /\ Goto(l, "lookup")
     \/ Answer(l, "error")
  /\ UNCHANGED <<rows, sessions, queue, locks, now>>

Lookup(l) ==
  /\ pc[l] = "lookup"
  /\ \/ \E d \in Requested :
          /\ now < due[d]
          /\ view' = [view EXCEPT ![l].target = d]
          /\ Goto(l, "verify")
     \/ Fail(l)
  /\ UNCHANGED <<rows, sessions, queue, locks, now>>

\* The attempt counter and the password.  The cancelling transaction that
\* follows compares scheduledAt with the instant at which it began.
Verify(l) ==
  /\ pc[l] = "verify"
  /\ \/ view[l].target = None /\ Goto(l, "open") /\ UNCHANGED view
     \/ /\ view[l].target # None /\ Goto(l, "cancel")
        /\ view' = [view EXCEPT ![l].began = now]
     \/ Fail(l)
  /\ UNCHANGED <<rows, sessions, queue, locks, now>>

\* Mutant: the request is cancelled by the id that was looked up, whatever
\* became of it since.
MayCancelStale(l) == view[l].target # None

MayCancel(l) ==
  LET d == view[l].target IN request[d] = "requested" /\ view[l].began < due[d]

\* The account is reactivated only if it is still pending.
Cancel(l) ==
  /\ pc[l] = "cancel"
  /\ userLock = None
  /\ \/ /\ MayCancel(l)
        /\ request' = [request EXCEPT ![view[l].target] = "cancelled"]
        /\ account' = IF account = "deletion_pending" THEN "active" ELSE account
        /\ Goto(l, "open") \/ Answer(l, "error")
     \/ Answer(l, "error") /\ UNCHANGED <<account, request>>
  /\ UNCHANGED <<due, sessions, queue, locks, now, view>>

\* createSessionAndSignToken: a statement of its own, after the checks.
OpenSession(l) ==
  /\ pc[l] = "open"
  /\ \/ /\ userLock = None
        /\ session' = [session EXCEPT ![l] = "live"]
        /\ AnswerOrLose(l, "success")
     \/ Answer(l, "error") /\ UNCHANGED session
  /\ UNCHANGED <<rows, origin, queue, locks, now, view>>

-----------------------------------------------------------------------------
(* POST /auth/refresh.                                                      *)

Holder(s) == reply[s] = "success"   \* a client holds this session's token

\* Mutant: a SELECT decides, and two refreshes of one token both pass.
ClaimUnlocked(f) ==
  /\ pc[f] = "start"
  /\ \E s \in Live :
       /\ Holder(s)
       /\ view' = [view EXCEPT ![f].from = s]
       /\ sessionLock' = [sessionLock EXCEPT ![s] = f]
       /\ Goto(f, "check")
  /\ UNCHANGED <<rows, sessions, queue, userLock, now>>

\* The claiming UPDATE: it waits for the row, then takes it if it is unrevoked.
Claim(f) ==
  /\ pc[f] = "start"
  /\ \E s \in Sessions :
       /\ Holder(s)
       /\ sessionLock[s] = None
       /\ view' = [view EXCEPT ![f].from = s]
       /\ IF session[s] = "live"
          THEN sessionLock' = [sessionLock EXCEPT ![s] = f] /\ Goto(f, "check")
          ELSE UNCHANGED sessionLock /\ Goto(f, "reuse")
  /\ UNCHANGED <<rows, sessions, queue, userLock, now>>

Release(f) == sessionLock' = [sessionLock EXCEPT ![view[f].from] = None]

\* The user is read without a lock.
CheckAccount(f) ==
  /\ pc[f] = "check"
  /\ IF account = "active"
     THEN Goto(f, "rotate") /\ UNCHANGED <<session, sessionLock>>
     ELSE /\ session' = [session EXCEPT ![view[f].from] = "revoked"]
          /\ Release(f)
          /\ Answer(f, "error")
  /\ UNCHANGED <<rows, origin, queue, userLock, now, view>>

\* The INSERT waits for a FOR UPDATE holder of the User row; then COMMIT.
Rotate(f) ==
  /\ pc[f] = "rotate"
  /\ userLock = None
  /\ session' = [session EXCEPT ![view[f].from] = "rotated", ![f] = "live"]
  /\ origin' = [origin EXCEPT ![f] = view[f].from]
  /\ Release(f)
  /\ AnswerOrLose(f, "success")
  /\ UNCHANGED <<rows, queue, userLock, now, view>>

AbortRefresh(f) ==
  /\ pc[f] \in {"check", "rotate"}
  /\ Release(f)
  /\ Fail(f)
  /\ UNCHANGED <<rows, sessions, queue, userLock, now>>

\* A token that was already rotated, outside the 10 s grace, revokes every
\* session the statement's snapshot shows; inside it, nothing happens.
DetectReuse(f) ==
  /\ pc[f] = "reuse"
  /\ \/ /\ session[view[f].from] = "rotated"
        /\ view' = [view EXCEPT ![f].seen = Live]
        /\ Goto(f, "revoke")
     \/ Fail(f)
  /\ UNCHANGED <<rows, sessions, queue, locks, now>>

RevokeAll(f) ==
  /\ pc[f] = "revoke"
  /\ \A s \in view[f].seen : sessionLock[s] = None
  /\ session' = [s \in Sessions |->
                   IF s \in view[f].seen \cap Live THEN "revoked"
                   ELSE session[s]]
  /\ Fail(f)
  /\ UNCHANGED <<rows, origin, queue, locks, now>>

Logout(s) ==
  /\ Holder(s) /\ session[s] = "live" /\ sessionLock[s] = None
  /\ session' = [session EXCEPT ![s] = "revoked"]
  /\ UNCHANGED <<rows, origin, queue, locks, now, calls>>

-----------------------------------------------------------------------------
(* POST /users/me/deletion-request.                                         *)

\* JwtStrategy.validate: an unrevoked session of an active account.
Authorize(d) ==
  /\ pc[d] = "start"
  /\ account = "active"
  /\ \E s \in Live : Holder(s)
  /\ Goto(d, "read")
  /\ UNCHANGED <<rows, sessions, queue, locks, now, view>>

\* The unlocked read, the password, and BEGIN: CURRENT_TIMESTAMP is that of
\* the transaction's start.
ReadUser(d) ==
  /\ pc[d] = "read"
  /\ \/ /\ account # "anonymized" /\ Goto(d, "lock")
        /\ view' = [view EXCEPT ![d].began = now]
     \/ Fail(d)
  /\ UNCHANGED <<rows, sessions, queue, locks, now>>

\* SELECT ... FOR UPDATE, then the requests.
LockUser(d) ==
  /\ pc[d] = "lock"
  /\ userLock = None
  /\ \/ Requested # {} /\ Answer(d, "scheduled") /\ UNCHANGED userLock
     \/ Requested = {} /\ account # "active" /\ Answer(d, "error")
        /\ UNCHANGED userLock
     \/ Requested = {} /\ account = "active" /\ Goto(d, "revoke")
        /\ userLock' = d
  /\ UNCHANGED <<rows, sessions, queue, sessionLock, now, view>>

\* Mutant: rows another transaction holds are skipped.
ScheduleSkipLocked(d) ==
  /\ pc[d] = "revoke"
  /\ userLock' = None
  /\ account' = "deletion_pending"
  /\ request' = [request EXCEPT ![d] = "requested"]
  /\ due' = [due EXCEPT ![d] = view[d].began + Grace]
  /\ session' = [s \in Sessions |->
                   IF s \in Live /\ sessionLock[s] = None
                   THEN "revoked" ELSE session[s]]
  /\ job' = [job EXCEPT ![d] = "waiting"]
  /\ AnswerOrLose(d, "scheduled")
  /\ UNCHANGED <<origin, tries, sessionLock, now, view>>

\* The request, the account, the sessions, the job: one transaction, which
\* waits for every session a refresh has claimed.
Schedule(d) ==
  /\ pc[d] = "revoke"
  /\ \A s \in Live : sessionLock[s] = None
  /\ userLock' = None
  /\ account' = "deletion_pending"
  /\ request' = [request EXCEPT ![d] = "requested"]
  /\ due' = [due EXCEPT ![d] = view[d].began + Grace]
  /\ session' = [s \in Sessions |-> IF s \in Live THEN "revoked" ELSE session[s]]
  /\ job' = [job EXCEPT ![d] = "waiting"]
  /\ AnswerOrLose(d, "scheduled")
  /\ UNCHANGED <<origin, tries, sessionLock, now, view>>

AbortDeletion(d) ==
  /\ pc[d] \in {"lock", "revoke"}
  /\ userLock' = IF userLock = d THEN None ELSE userLock
  /\ Fail(d)
  /\ UNCHANGED <<rows, sessions, queue, sessionLock, now>>

-----------------------------------------------------------------------------
(* The job privacy.anonymize-account, and its queue.                        *)

\* Mutant: the job is not delayed.
FetchableAtOnce(d) == job[d] = "waiting"

Fetchable(d) == job[d] = "waiting" /\ now >= due[d]

JobDone(d) == job' = [job EXCEPT ![d] = "completed"] /\ UNCHANGED tries

\* Mutant: the limit counts attempts after the first retry.
JobRetriedOnceMore(d) ==
  IF tries[d] <= RetryLimit
  THEN tries' = [tries EXCEPT ![d] = @ + 1] /\ UNCHANGED job
  ELSE job' = [job EXCEPT ![d] = "failed"] /\ UNCHANGED tries

\* A thrown error, a dead worker or a lost acknowledgement: pg-boss retries.
JobRetried(d) ==
  IF tries[d] < RetryLimit
  THEN tries' = [tries EXCEPT ![d] = @ + 1] /\ UNCHANGED job
  ELSE job' = [job EXCEPT ![d] = "failed"] /\ UNCHANGED tries

\* The handler: an idempotent no-op unless the request is still requested.
SkipSettled(d) ==
  /\ Fetchable(d)
  /\ request[d] # "requested"
  /\ JobDone(d)
  /\ UNCHANGED <<rows, sessions, locks, now, calls>>

\* Mutant: only the sessions that are still live are deleted.
AnonymizeLive(d) ==
  /\ Fetchable(d)
  /\ request[d] = "requested" /\ account = "deletion_pending"
  /\ userLock = None /\ \A s \in Sessions : sessionLock[s] = None
  /\ account' = "anonymized"
  /\ request' = [request EXCEPT ![d] = "completed"]
  /\ session' = [s \in Sessions |-> IF s \in Live THEN "deleted" ELSE session[s]]
  /\ JobDone(d) \/ JobRetried(d)
  /\ UNCHANGED <<due, origin, locks, now, calls>>

Anonymize(d) ==
  /\ Fetchable(d)
  /\ request[d] = "requested" /\ account = "deletion_pending"
  /\ userLock = None /\ \A s \in Sessions : sessionLock[s] = None
  /\ account' = "anonymized"
  /\ request' = [request EXCEPT ![d] = "completed"]
  /\ session' = [s \in Sessions |->
                   IF session[s] = "none" THEN "none" ELSE "deleted"]
  /\ JobDone(d) \/ JobRetried(d)
  /\ UNCHANGED <<due, origin, locks, now, calls>>

\* Mutant: the handler swallows its error.
SwallowError(d) ==
  /\ Fetchable(d)
  /\ JobDone(d)
  /\ UNCHANGED <<rows, sessions, locks, now, calls>>

\* The transaction rolls back: an error, or the account is not pending.
JobFails(d) ==
  /\ Fetchable(d)
  /\ JobRetried(d)
  /\ UNCHANGED <<rows, sessions, locks, now, calls>>

\* The runbook: an operator enqueues the job of a stuck request again.
Requeue(d) ==
  /\ job[d] = "failed" /\ request[d] = "requested"
  /\ job' = [job EXCEPT ![d] = "waiting"]
  /\ tries' = [tries EXCEPT ![d] = 0]
  /\ UNCHANGED <<rows, sessions, locks, now, calls>>

-----------------------------------------------------------------------------
\* A login, and the transaction of a deletion request, is given up before
\* RequestTime has passed since it last read the clock.
Timed(c) == \/ c \in Logins /\ pc[c] \notin {"start", "done"}
            \/ c \in Deletions /\ pc[c] \in {"lock", "revoke"}

Tick ==
  /\ now < MaxTime
  /\ \A c \in Calls : Timed(c) => now < view[c].began + RequestTime
  /\ now' = now + 1
  /\ UNCHANGED <<rows, sessions, queue, locks, calls>>

LoginStep(l) ==
  Login(l) \/ Lookup(l) \/ Verify(l) \/ Cancel(l) \/ OpenSession(l)

RefreshStep(f) ==
  \/ Claim(f) \/ CheckAccount(f) \/ Rotate(f) \/ AbortRefresh(f)
  \/ DetectReuse(f) \/ RevokeAll(f)

DeletionStep(d) ==
  Authorize(d) \/ ReadUser(d) \/ LockUser(d) \/ Schedule(d) \/ AbortDeletion(d)

JobStep(d) == SkipSettled(d) \/ Anonymize(d) \/ JobFails(d)

Next ==
  \/ \E l \in Logins : LoginStep(l)
  \/ \E f \in Refreshes : RefreshStep(f)
  \/ \E s \in Sessions : Logout(s)
  \/ \E d \in Deletions : DeletionStep(d) \/ JobStep(d) \/ Requeue(d)
  \/ Tick

Spec == Init /\ [][Next]_vars

\* Calls run to their answers, time passes, a failed job is enqueued again as
\* the runbook asks, and the database does not refuse one job for ever.
FairSpec ==
  /\ Spec
  /\ \A l \in Logins : WF_vars(LoginStep(l) /\ pc[l] # "start")
  /\ \A f \in Refreshes : WF_vars(RefreshStep(f) /\ pc[f] # "start")
  /\ \A d \in Deletions : WF_vars(DeletionStep(d) /\ pc[d] # "start")
  /\ \A d \in Deletions : SF_vars(SkipSettled(d) \/ Anonymize(d))
  /\ \A d \in Deletions : WF_vars(Requeue(d))
  /\ WF_vars(Tick)

-----------------------------------------------------------------------------
(* Properties.                                                              *)

TypeOK ==
  /\ account \in AccountStatus
  /\ request \in [Deletions -> RequestStatus]
  /\ due \in [Deletions -> Nat]
  /\ session \in [Sessions -> SessionStatus]
  /\ origin \in [Sessions -> Sessions \cup {None}]
  /\ job \in [Deletions -> JobState]
  /\ tries \in [Deletions -> 0 .. RetryLimit]
  /\ userLock \in Deletions \cup {None}
  /\ sessionLock \in [Sessions -> Refreshes \cup {None}]
  /\ now \in Nat
  /\ pc \in [Calls -> LoginPc \cup RefreshPc \cup DeletionPc]
  /\ view \in [Calls -> View]
  /\ reply \in [Calls -> {"none", "success", "scheduled", "error"}]

\* The account is pending exactly while one request is open, and erased
\* exactly when one was completed: the "Abnormal state" the job throws on is
\* never reached, and no two requests are ever open together.
RequestMatchesAccount ==
  /\ account = "deletion_pending" <=> Requested # {}
  /\ \A d, e \in Requested : d = e
  /\ account = "anonymized" <=> \E d \in Deletions : request[d] = "completed"

\* An erased account has no session row left, whatever logins and refreshes
\* were under way when the job ran.
ErasedIsClean ==
  account = "anonymized" => \A s \in Sessions : session[s] \in {"none", "deleted"}

\* A refresh token opens at most one session, and never stays live beside it:
\* concurrent refreshes of one token cannot fork a login into two.
RotationIsLinear ==
  /\ \A f, g \in Sessions :
       origin[f] # None /\ origin[f] = origin[g] => f = g
  /\ \A f \in Sessions : origin[f] # None => session[origin[f]] # "live"

\* A refresh never opens a session for an account that is not active, although
\* it reads the account without a lock before it inserts: the row locks of the
\* claimed session and of the User row keep a deletion request out between.
RotationRespectsDeletion ==
  [][\A f \in Refreshes :
       session[f] = "none" /\ session'[f] = "live" => account = "active"]_vars

\* Every open request ends, cancelled or completed, once it is due.
RequestsSettle ==
  \A d \in Deletions :
    (request[d] = "requested" /\ due[d] <= MaxTime) ~> request[d] # "requested"

\* What the account's owner is promised, see AccountPromise.
Promise == INSTANCE AccountPromise
             WITH deadlines <- {due[d] : d \in Requested}
PromiseIsKept == Promise!Spec
=============================================================================
