------------------------------ MODULE AccountMail ------------------------------
(***************************************************************************)
(* Links mailed to one account: password reset and e-mail verification.    *)
(*                                                                         *)
(* A request enqueues a job for the worker process, unless one of the same *)
(* account already waits.  The job replaces the unused tokens by a new one *)
(* and mails its link.  A confirmation claims the token and applies it, in *)
(* one transaction, while the account may be closed by a request for its   *)
(* deletion, which deletes the tokens, and reopened by a login.            *)
(***************************************************************************)
EXTENDS Naturals

CONSTANTS
  Requests,     \* requests for a link; each names the job it enqueues
  Confirms,     \* calls that present a link
  MaxRetries,   \* retryLimit of the queue
  MaxTokens,    \* bound on the tokens issued
  None

VARIABLES
  kind,      \* which of the two links this is
  account,   \* whether it is open, and its address verified
  userLock,  \* whether the closing transaction holds the row of the account
  request,   \* where each request is: from waiting to settled
  job,       \* the pg-boss job of each request
  worker,    \* what the worker process does
  tokens,    \* the tokens issued, in their order
  mailed,    \* tokens whose link reached the inbox
  spoiled,   \* history: tokens mailed before a reset or a closing
  confirm    \* where each confirmation is

vars == <<kind, account, userLock, request, job, worker, tokens, mailed, spoiled, confirm>>
queueVars == <<request, job, worker>>

Tokens == 1 .. MaxTokens
Issued == {t \in Tokens : tokens[t] # "none"}
Unused == {t \in Tokens : tokens[t] = "unused"}
Idle == [pc |-> "idle", job |-> None, token |-> 0, covers |-> {}]

Init ==
  /\ kind \in {"reset", "verify"}
  /\ account = [open |-> TRUE, verified |-> FALSE]
  /\ userLock = FALSE
  /\ request = [r \in Requests |-> "idle"]
  /\ job = [r \in Requests |-> [state |-> "none", tries |-> 0]]
  /\ worker = Idle
  /\ tokens = [t \in Tokens |-> "none"]
  /\ mailed = {} /\ spoiled = {}
  /\ confirm = [c \in Confirms |-> [pc |-> "idle", token |-> 0]]

\* Whether a link is of any use to the account.
Wanted == account.open /\ (kind = "verify" => ~account.verified)

-----------------------------------------------------------------------------
(* The request *)

\* The handler counts the request against its limit and reads the account: past
\* the limit, or when a link is of no use, it returns without a word.
Ask(r) ==
  /\ request[r] = "idle"
  /\ \E next \in (IF Wanted THEN {"sending"} ELSE {}) \cup {"settled"} :
       request' = [request EXCEPT ![r] = next]
  /\ UNCHANGED <<kind, account, userLock, job, worker, tokens, mailed, spoiled, confirm>>

\* Mutant. A job that runs or waits for its retry makes a new request superfluous.
QueuedOrRunning == \E q \in Requests : job[q].state \in {"created", "active", "retry"}

\* The queue's policy is short: one job of a singleton key in state created.
Queued == \E q \in Requests : job[q].state = "created"

Send(r) ==
  /\ request[r] = "sending"
  /\ request' = [request EXCEPT ![r] = "waiting"]
  /\ job' = IF Queued THEN job ELSE [job EXCEPT ![r].state = "created"]
  /\ UNCHANGED <<kind, account, userLock, worker, tokens, mailed, spoiled, confirm>>

\* The queue cannot be written: 500, and no job.
SendFails(r) ==
  /\ request[r] = "sending"
  /\ request' = [request EXCEPT ![r] = "settled"]
  /\ UNCHANGED <<kind, account, userLock, job, worker, tokens, mailed, spoiled, confirm>>

-----------------------------------------------------------------------------
(* The job *)

Fetch(r) ==
  /\ worker.pc = "idle" /\ job[r].state \in {"created", "retry"}
  /\ job' = [job EXCEPT ![r].state = "active"]
  /\ worker' = [pc |-> "look", job |-> r, token |-> 0,
                covers |-> {q \in Requests : request[q] = "waiting"}]
  /\ UNCHANGED <<kind, account, userLock, request, tokens, mailed, spoiled, confirm>>

\* The job leaves the queue, and with it the requests made before this attempt.
Finish ==
  /\ job' = [job EXCEPT ![worker.job] = [state |-> "done", tries |-> 0]]
  /\ request' = [q \in Requests |-> IF q \in worker.covers THEN "settled" ELSE request[q]]
  /\ worker' = Idle

\* pg-boss retries a job that failed up to its limit, and then gives it up.
AttemptFails ==
  IF job[worker.job].tries < MaxRetries
  THEN /\ job' = [job EXCEPT ![worker.job] = [state |-> "retry", tries |-> @.tries + 1]]
       /\ worker' = Idle /\ UNCHANGED request
  ELSE Finish

\* The job reads the account: a link of no use is not sent.
Look ==
  /\ worker.pc = "look"
  /\ IF Wanted THEN worker' = [worker EXCEPT !.pc = "issue"] /\ UNCHANGED <<job, request>>
     ELSE Finish
  /\ UNCHANGED <<kind, account, userLock, tokens, mailed, spoiled, confirm>>

Claimed == {confirm[c].token : c \in {d \in Confirms : confirm[d].pc = "claimed"}}

\* Unused tokens are deleted and a new one is inserted.  The delete waits for a
\* claimed token, the insert's foreign key for the closing transaction.
Issue ==
  /\ worker.pc = "issue" /\ ~userLock /\ Claimed \cap Unused = {}
  /\ \E new \in Tokens :
       /\ Issued = 1 .. new - 1
       /\ tokens' = [t \in Tokens |->
            IF t = new THEN "unused" ELSE IF t \in Unused THEN "deleted" ELSE tokens[t]]
       /\ worker' = [worker EXCEPT !.pc = "mail", !.token = new]
  /\ UNCHANGED <<kind, account, userLock, request, job, mailed, spoiled, confirm>>

\* The provider has taken the mail and says so.
Deliver ==
  /\ worker.pc = "mail"
  /\ mailed' = mailed \cup {worker.token}
  /\ Finish
  /\ UNCHANGED <<kind, account, userLock, tokens, spoiled, confirm>>

\* The provider refuses the mail for good: logged, and the job completes.
Refused ==
  /\ worker.pc = "mail"
  /\ Finish
  /\ UNCHANGED <<kind, account, userLock, tokens, mailed, spoiled, confirm>>

\* A failed statement, or a retryable mail error: a timeout may have delivered.
Retry ==
  /\ worker.pc \in {"look", "issue", "mail"}
  /\ mailed' = mailed \/ (worker.pc = "mail" /\ mailed' = mailed \cup {worker.token})
  /\ AttemptFails
  /\ UNCHANGED <<kind, account, userLock, tokens, spoiled, confirm>>

\* The worker process dies, with or without its mail delivered; pg-boss
\* expires the active job later, and a new process takes the queue.
Crash ==
  /\ worker.pc \in {"look", "issue", "mail"}
  /\ mailed' = mailed \/ (worker.pc = "mail" /\ mailed' = mailed \cup {worker.token})
  /\ worker' = [worker EXCEPT !.pc = "dead"]
  /\ UNCHANGED <<kind, account, userLock, request, job, tokens, spoiled, confirm>>

Expire ==
  /\ worker.pc = "dead"
  /\ AttemptFails
  /\ UNCHANGED <<kind, account, userLock, tokens, mailed, spoiled, confirm>>

-----------------------------------------------------------------------------
(* The confirmation *)

Goto(c, pc) == confirm' = [confirm EXCEPT ![c].pc = pc]

\* A link from the inbox is presented.
Present(c, t) ==
  /\ confirm[c].pc = "idle" /\ t \in mailed
  /\ confirm' = [confirm EXCEPT ![c] = [pc |-> "presented", token |-> t]]
  /\ UNCHANGED <<kind, account, userLock, queueVars, tokens, mailed, spoiled>>

\* Mutant. The claim reads the token without taking its row.
ClaimRead(c) ==
  /\ confirm[c].pc = "presented"
  /\ Goto(c, IF confirm[c].token \in Unused THEN "claimed" ELSE "refused")
  /\ UNCHANGED <<kind, account, userLock, queueVars, tokens, mailed, spoiled>>

\* UPDATE ... WHERE usedAt IS NULL takes the token's row; a second call waits for it.
Claim(c) ==
  /\ confirm[c].pc = "presented" /\ confirm[c].token \notin Claimed
  /\ Goto(c, IF confirm[c].token \in Unused THEN "claimed" ELSE "refused")
  /\ UNCHANGED <<kind, account, userLock, queueVars, tokens, mailed, spoiled>>

\* The account is open: it takes the password, all sessions and other tokens end.
ApplyReset(c) ==
  /\ kind = "reset" /\ confirm[c].pc = "claimed" /\ ~userLock /\ account.open
  /\ tokens' = [t \in Tokens |->
       IF t = confirm[c].token THEN "used" ELSE IF t \in Unused THEN "deleted" ELSE tokens[t]]
  /\ spoiled' = mailed
  /\ Goto(c, "applied")
  /\ UNCHANGED <<kind, account, userLock, queueVars, mailed>>

\* The account is open: its address is verified.
ApplyVerify(c) ==
  /\ kind = "verify" /\ confirm[c].pc = "claimed" /\ ~userLock /\ account.open
  /\ account' = [account EXCEPT !.verified = TRUE]
  /\ tokens' = [tokens EXCEPT ![confirm[c].token] = "used"]
  /\ Goto(c, "applied")
  /\ UNCHANGED <<kind, userLock, queueVars, mailed, spoiled>>

\* The account is not open: the transaction is rolled back and the token stays.
RefuseClosed(c) ==
  /\ confirm[c].pc = "claimed" /\ ~userLock /\ ~account.open
  /\ Goto(c, "refused")
  /\ UNCHANGED <<kind, account, userLock, queueVars, tokens, mailed, spoiled>>

\* The transaction fails, as a deadlock's victim for instance: rolled back.
ConfirmFails(c) ==
  /\ confirm[c].pc \in {"presented", "claimed"}
  /\ Goto(c, "refused")
  /\ UNCHANGED <<kind, account, userLock, queueVars, tokens, mailed, spoiled>>

\* A token's thirty minutes, or twenty-four hours, have passed: it is as good as deleted.
TokenExpires(t) ==
  /\ t \in Unused \ Claimed
  /\ tokens' = [tokens EXCEPT ![t] = "deleted"]
  /\ UNCHANGED <<kind, account, userLock, queueVars, mailed, spoiled, confirm>>

-----------------------------------------------------------------------------
(* The account's deletion is requested, and taken back *)

CloseLock ==
  /\ account.open /\ ~userLock
  /\ userLock' = TRUE
  /\ UNCHANGED <<kind, account, queueVars, tokens, mailed, spoiled, confirm>>

\* Mutant. The unused tokens are left to the check of the account's status.
CloseKeepsTokens ==
  /\ userLock
  /\ userLock' = FALSE
  /\ account' = [account EXCEPT !.open = FALSE]
  /\ spoiled' = mailed
  /\ UNCHANGED <<kind, queueVars, tokens, mailed, confirm>>

\* The account is closed and its unused tokens are deleted.
CloseCommit ==
  /\ userLock /\ Claimed \cap Unused = {}
  /\ userLock' = FALSE
  /\ account' = [account EXCEPT !.open = FALSE]
  /\ tokens' = [t \in Tokens |->
       IF t \in Unused THEN "deleted" ELSE tokens[t]]
  /\ spoiled' = mailed
  /\ UNCHANGED <<kind, queueVars, mailed, confirm>>

CloseFails ==
  /\ userLock
  /\ userLock' = FALSE
  /\ UNCHANGED <<kind, account, queueVars, tokens, mailed, spoiled, confirm>>

\* A login takes the deletion back.
Reopen ==
  /\ ~account.open
  /\ account' = [account EXCEPT !.open = TRUE]
  /\ UNCHANGED <<kind, userLock, queueVars, tokens, mailed, spoiled, confirm>>

-----------------------------------------------------------------------------
Work == Look \/ Issue \/ Deliver \/ Refused \/ Retry

Next ==
  \/ \E r \in Requests : Ask(r) \/ Send(r) \/ SendFails(r) \/ Fetch(r)
  \/ Work \/ Crash \/ Expire
  \/ \E c \in Confirms :
       \/ \E t \in Tokens : Present(c, t)
       \/ Claim(c) \/ ApplyReset(c) \/ ApplyVerify(c) \/ RefuseClosed(c) \/ ConfirmFails(c)
  \/ \E t \in Tokens : TokenExpires(t)
  \/ CloseLock \/ CloseCommit \/ CloseFails \/ Reopen

Spec == Init /\ [][Next]_vars

\* The handler returns, the worker fetches what waits, its attempts end and
\* pg-boss expires the jobs of a dead process.
Fairness ==
  /\ \A r \in Requests : WF_vars(Send(r))
  /\ \A r \in Requests : WF_vars(Fetch(r))
  /\ WF_vars(Work) /\ WF_vars(Expire)

-----------------------------------------------------------------------------
(* Properties *)

TypeOK ==
  /\ kind \in {"reset", "verify"}
  /\ account \in [open : BOOLEAN, verified : BOOLEAN] /\ userLock \in BOOLEAN
  /\ request \in [Requests -> {"idle", "sending", "waiting", "settled"}]
  /\ job \in [Requests -> [state : {"none", "created", "active", "retry", "done"},
                           tries : 0 .. MaxRetries]]
  /\ worker \in [pc : {"idle", "look", "issue", "mail", "dead"}, job : Requests \cup {None},
                 token : 0 .. MaxTokens, covers : SUBSET Requests]
  /\ tokens \in [Tokens -> {"none", "unused", "used", "deleted"}]
  /\ mailed \in SUBSET Tokens /\ spoiled \in SUBSET mailed
  /\ confirm \in [Confirms -> [pc : {"idle", "presented", "claimed", "applied", "refused"},
                               token : 0 .. MaxTokens]]

\* A link works once: whatever calls present it together, at most one is
\* applied, and its token is used; a token is used by no call that failed.
LinksWorkOnce ==
  /\ \A c, d \in Confirms : c # d /\ confirm[c].pc = "applied" /\ confirm[d].pc = "applied"
       => confirm[c].token # confirm[d].token
  /\ {t \in Tokens : tokens[t] = "used"}
       = {confirm[c].token : c \in {d \in Confirms : confirm[d].pc = "applied"}}

\* A link mailed before a reset or before the account was closed never works
\* after it, also once the account is open again; and none works while it is closed.
OldLinksAreDead ==
  [][\A c \in Confirms : confirm'[c].pc = "applied" /\ confirm[c].pc # "applied"
       => confirm[c].token \notin spoiled /\ account.open]_vars

\* A request that is accepted is followed by an attempt that starts after it
\* and ends: with a mail, a permanent refusal, or the last retry.
RequestsSettle == \A r \in Requests : (request[r] = "waiting") ~> (request[r] = "settled")
=============================================================================
