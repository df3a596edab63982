---------------------------- MODULE UploadAdmission ----------------------------
(***************************************************************************)
(* Admitting media uploads: POST admin/cms/media/ingestions, from the      *)
(* guards to the answer, in one backend process.                           *)
(*                                                                         *)
(* An upload passes the kill switch, then the rate limit of its            *)
(* administrator (one row in PostgreSQL, shared by all processes), then    *)
(* the boundary interceptor, which holds one of Limit slots for it, arms a *)
(* deadline for the body and observes it for the metrics.  Multer reads    *)
(* the body; the handler processes the file, has ClamAV scan it over a     *)
(* socket and stores it.  An upload that finds no slot is answered 503     *)
(* once its body is drained.                                               *)
(*                                                                         *)
(* JavaScript runs one callback at a time, so an action is one callback.   *)
(***************************************************************************)
EXTENDS Naturals, Sequences, FiniteSets

CONSTANTS
  Uploads,   \* requests, all of one administrator
  Limit,     \* maxConcurrency of the limiter
  Rate       \* LIMIT of the rate-limit guard

ASSUME LimitsAssumption ==
  /\ IsFiniteSet(Uploads) /\ Limit \in Nat \ {0} /\ Rate \in Nat \ {0}

VARIABLES
  enabled,    \* media.ingestionEnabled
  row,        \* the administrator's MediaUploadRateLimit row
  draft,      \* the row as an open guard transaction has written it
  window,     \* history: who was counted, and who granted, in the current window
  pc,         \* where each upload is
  body,       \* its body, as the server's socket has it
  reply,      \* ClamAV's answer to its scan, as far as received
  answer,     \* what its client was answered
  current,    \* the limiter's count
  started, inflight, counted   \* the ingestion metrics

guardVars == <<row, draft, window>>
metricVars == <<started, inflight, counted>>
vars == <<enabled, row, draft, window, pc, body, reply, answer, current, started, inflight, counted>>

Outcomes == {"success", "rejected", "failed", "cleanup_required", "disabled"}
Handling == {"handling", "scanning", "storing"}
Inside == {"receiving", "parsing"} \cup Handling
NoDraft == [count |-> 0, old |-> FALSE]
Rows == [count : 0 .. Cardinality(Uploads) + 1, old : BOOLEAN]
Counted == Uploads \cup {"earlier"}

\* The first uploads of a window, or those that follow an earlier one of it.
Init ==
  /\ enabled \in BOOLEAN
  /\ \/ row = [count |-> 0, old |-> TRUE] /\ window = [hits |-> {}, grants |-> {}]
     \/ /\ row = [count |-> 1, old |-> FALSE]
        /\ window = [hits |-> {"earlier"}, grants |-> {"earlier"}]
  /\ draft = [u \in Uploads |-> NoDraft]
  /\ pc = [u \in Uploads |-> "idle"]
  /\ body = [u \in Uploads |-> "none"]
  /\ reply = [u \in Uploads |-> "none"]
  /\ answer = [u \in Uploads |-> "none"]
  /\ current = 0
  /\ started = 0 /\ inflight = 0 /\ counted = [o \in Outcomes |-> 0]

Goto(u, p) == pc' = [pc EXCEPT ![u] = p]

\* Mutant. complete is not guarded: each call on the path counts.
CountsTwice(calls) ==
  /\ inflight' = IF inflight >= Len(calls) THEN inflight - Len(calls) ELSE 0
  /\ counted' = [o \in Outcomes |->
       counted[o] + Cardinality({i \in DOMAIN calls : calls[i] = o})]

\* The observation is completed along a path by each of calls in turn; the first one counts.
Counts(calls) ==
  /\ inflight' = IF inflight > 0 THEN inflight - 1 ELSE 0
  /\ counted' = [counted EXCEPT ![calls[1]] = @ + 1]

\* The request is answered, with an outcome of the metrics or unobserved.
Reply(u, o) ==
  /\ Goto(u, "done")
  /\ answer' = [answer EXCEPT ![u] = o]
  /\ body' = [body EXCEPT ![u] = "none"]

\* The boundary is left: the slot is released, the observation completed by the
\* handler or by the boundary's reading of the error, and once more by finalize.
Leave(u, o) ==
  /\ Reply(u, o)
  /\ reply' = [reply EXCEPT ![u] = "none"]
  /\ current' = IF current > 0 THEN current - 1 ELSE 0
  /\ Counts(<<o, "failed">>)
  /\ UNCHANGED <<enabled, guardVars, started>>

-----------------------------------------------------------------------------
(* The guards *)

\* The request's head has arrived; it has a body or none.
Arrive(u) ==
  /\ pc[u] = "idle" /\ enabled
  /\ Goto(u, "guard")
  /\ body' = [body EXCEPT ![u] = "open"] \/ UNCHANGED body
  /\ UNCHANGED <<enabled, guardVars, reply, answer, current, metricVars>>

\* The kill switch is off: observed and completed at once.
Disabled(u) ==
  /\ pc[u] = "idle" /\ ~enabled
  /\ Reply(u, "disabled")
  /\ started' = started + 1
  /\ counted' = [counted EXCEPT !["disabled"] = @ + 1]
  /\ UNCHANGED <<enabled, guardVars, reply, current, inflight>>

\* Mutant. The count is read and written back without the row's lock.
RowIsFreeAlways == TRUE

\* The upsert waits for the transaction that has written the row.
RowIsFree == \A v \in Uploads : pc[v] # "counted"

\* The upsert: a new window, or one more request in this one.
Hit(u) ==
  /\ pc[u] = "guard" /\ RowIsFree
  /\ draft' = [draft EXCEPT ![u] = [count |-> IF row.old THEN 1 ELSE row.count + 1,
                                    old |-> row.old]]
  /\ Goto(u, "counted")
  /\ UNCHANGED <<enabled, row, window, body, reply, answer, current, metricVars>>

\* The same transaction reads its count back and commits.
Grant(u) ==
  /\ pc[u] = "counted"
  /\ row' = [count |-> draft[u].count, old |-> row.old /\ ~draft[u].old]
  /\ LET granted == draft[u].count <= Rate IN
     /\ window' = IF draft[u].old
                  THEN [hits |-> {u}, grants |-> IF granted THEN {u} ELSE {}]
                  ELSE [hits |-> window.hits \cup {u},
                        grants |-> window.grants \cup (IF granted THEN {u} ELSE {})]
     /\ IF granted THEN Goto(u, "boundary") /\ UNCHANGED <<answer, body>>
        ELSE Reply(u, "unobserved")
  /\ draft' = [draft EXCEPT ![u] = NoDraft]
  /\ UNCHANGED <<enabled, reply, current, metricVars>>

\* The guard's transaction fails and is rolled back.
GuardFails(u) ==
  /\ pc[u] \in {"guard", "counted"}
  /\ Reply(u, "unobserved")
  /\ draft' = [draft EXCEPT ![u] = NoDraft]
  /\ UNCHANGED <<enabled, row, window, reply, current, metricVars>>

\* Sixty seconds have passed since the window started.
WindowPasses ==
  /\ ~row.old
  /\ row' = [row EXCEPT !.old = TRUE]
  /\ UNCHANGED <<enabled, draft, window, pc, body, reply, answer, current, metricVars>>

-----------------------------------------------------------------------------
(* The boundary *)

\* request.complete, or there is nothing to receive.
Received(u) == body[u] \in {"none", "complete", "left"}

\* A slot is free: the deadline is armed unless the body is already here.
Acquire(u) ==
  /\ pc[u] = "boundary" /\ current < Limit
  /\ current' = current + 1
  /\ started' = started + 1 /\ inflight' = inflight + 1
  /\ Goto(u, IF Received(u) THEN "parsing" ELSE "receiving")
  /\ UNCHANGED <<enabled, guardVars, body, reply, answer, counted>>

\* No slot, and no body or one announced as too long to drain: 503 at once.
RefuseBusy(u) ==
  /\ pc[u] = "boundary" /\ current >= Limit
  /\ started' = started + 1
  /\ counted' = [counted EXCEPT !["failed"] = @ + 1]
  /\ Reply(u, "failed")
  /\ UNCHANGED <<enabled, guardVars, reply, current, inflight>>

\* No slot: the body is drained before the 503.
StartDrain(u) ==
  /\ pc[u] = "boundary" /\ current >= Limit /\ body[u] # "none"
  /\ started' = started + 1 /\ inflight' = inflight + 1
  /\ Goto(u, "draining")
  /\ UNCHANGED <<enabled, guardVars, body, reply, answer, current, counted>>

\* The drain is over: by the end of the body, by its length or by its timer.
FinishDrain(u) ==
  /\ pc[u] = "draining"
  /\ Reply(u, "failed")
  /\ Counts(<<"failed">>)
  /\ UNCHANGED <<enabled, guardVars, reply, current, started>>

-----------------------------------------------------------------------------
(* The body *)

\* The last byte of the body has arrived.
Complete(u) ==
  /\ pc[u] \notin {"idle", "done"} /\ body[u] = "open"
  /\ body' = [body EXCEPT ![u] = "complete"]
  /\ UNCHANGED <<enabled, guardVars, pc, reply, answer, current, metricVars>>

\* The client disconnects before the end of its body is read, and the boundary's
\* listener answers.
Abort(u) ==
  /\ pc[u] = "receiving" /\ body[u] \in {"open", "complete"}
  /\ Leave(u, "rejected")

\* The client disconnects while its body is drained: a 400, counted as failed.
AbortDrain(u) ==
  /\ pc[u] = "draining" /\ body[u] \in {"open", "complete"}
  /\ Reply(u, "failed")
  /\ Counts(<<"failed">>)
  /\ UNCHANGED <<enabled, guardVars, reply, current, started>>

\* The client disconnects while the guards run: nobody listens yet.  The request is
\* destroyed, and with it a body that has arrived completely but was not read.
Disconnect(u) ==
  /\ pc[u] \in {"guard", "counted", "boundary"} /\ body[u] \in {"open", "complete"}
  /\ body' = [body EXCEPT ![u] = IF body[u] = "open" THEN "gone" ELSE "left"]
  /\ UNCHANGED <<enabled, guardVars, pc, reply, answer, current, metricVars>>

\* Multer has read the body to its end, which clears the deadline.
End(u) ==
  /\ pc[u] = "receiving" /\ body[u] = "complete"
  /\ Goto(u, "parsing")
  /\ UNCHANGED <<enabled, guardVars, body, reply, answer, current, metricVars>>

\* Mutant. The deadline is not cleared by the end of the body: it answers and
\* frees the slot of a handler that goes on.
DeadlinePassesAlways(u) ==
  /\ pc[u] \in Inside /\ answer[u] = "none"
  /\ answer' = [answer EXCEPT ![u] = "failed"]
  /\ current' = IF current > 0 THEN current - 1 ELSE 0
  /\ Counts(<<"failed", "failed">>)
  /\ UNCHANGED <<enabled, guardVars, pc, body, reply, started>>

\* Mutant. An aborted request is taken for an ended one: no deadline.
DeadlinePassesIfOpen(u) ==
  /\ pc[u] = "receiving" /\ body[u] # "gone"
  /\ Leave(u, "failed")

\* The deadline for the body passes: 408, and the connection is closed after it.
DeadlinePasses(u) ==
  /\ pc[u] = "receiving"
  /\ Leave(u, "failed")

\* Multer, or the validation of the query, refuses the request.
Reject(u) ==
  /\ pc[u] \in {"receiving", "parsing"}
  /\ Leave(u, "rejected")

-----------------------------------------------------------------------------
(* The handler, and its scan *)

\* Multer has parsed the whole body: the handler is called.  A request destroyed
\* before Multer listened to it never ends, and Multer never calls back.
Handle(u) ==
  /\ pc[u] = "parsing" /\ body[u] # "left"
  /\ Goto(u, "handling")
  /\ UNCHANGED <<enabled, guardVars, body, reply, answer, current, metricVars>>

\* The handler answers before any scan: a replay, or an error.
AnswerEarly(u) ==
  /\ pc[u] = "handling"
  /\ \E o \in {"success", "failed", "cleanup_required"} : Leave(u, o)

\* The file processor refuses the file: 422.
RefuseFile(u) ==
  /\ pc[u] = "handling"
  /\ Leave(u, "rejected")

\* The file is valid: the scanner's socket is opened, and its deadline set.
Scan(u) ==
  /\ pc[u] = "handling"
  /\ Goto(u, "scanning")
  /\ reply' = [reply EXCEPT ![u] = "nothing"]
  /\ UNCHANGED <<enabled, guardVars, body, answer, current, metricVars>>

\* ClamAV sends a piece of its reply; anything after a reply's end spoils it.
Data(u) ==
  /\ pc[u] = "scanning"
  /\ \E r \in {"part", "ok", "found", "junk"} :
       /\ reply[u] \in {"nothing", "part"} \/ r = "junk"
       /\ reply' = [reply EXCEPT ![u] = r]
  /\ UNCHANGED <<enabled, guardVars, pc, body, answer, current, metricVars>>

\* The socket ends after exactly one clean verdict.
ScannedClean(u) ==
  /\ pc[u] = "scanning" /\ reply[u] = "ok"
  /\ Goto(u, "storing")
  /\ reply' = [reply EXCEPT ![u] = "none"]
  /\ UNCHANGED <<enabled, guardVars, body, answer, current, metricVars>>

\* The socket ends after anything else: malware, or an invalid response.
ScannedOther(u) ==
  /\ pc[u] = "scanning" /\ reply[u] # "ok"
  /\ Leave(u, IF reply[u] = "found" THEN "rejected" ELSE "failed")

\* An error, a close, too long a reply or the scanner's deadline: the first one settles.
ScanFails(u) ==
  /\ pc[u] = "scanning"
  /\ Leave(u, "failed")

\* The file is stored, or not.
Store(u) ==
  /\ pc[u] = "storing"
  /\ \E o \in {"success", "failed", "cleanup_required"} : Leave(u, o)

-----------------------------------------------------------------------------
Step(u) ==
  \/ Arrive(u) \/ Disabled(u) \/ Hit(u) \/ Grant(u) \/ GuardFails(u)
  \/ Acquire(u) \/ RefuseBusy(u) \/ StartDrain(u) \/ FinishDrain(u)
  \/ Complete(u) \/ Abort(u) \/ AbortDrain(u) \/ Disconnect(u) \/ End(u) \/ DeadlinePasses(u) \/ Reject(u)
  \/ Handle(u) \/ AnswerEarly(u) \/ RefuseFile(u) \/ Scan(u) \/ Data(u) \/ ScannedClean(u)
  \/ ScannedOther(u) \/ ScanFails(u) \/ Store(u)

Next == WindowPasses \/ \E u \in Uploads : Step(u)

Spec == Init /\ [][Next]_vars

\* The guard's transaction ends, the interceptor runs, timers fire, the handler's
\* calls return.  Nothing is assumed of the client, of Multer on an unfinished or
\* destroyed body or of ClamAV.
Fairness ==
  \A u \in Uploads :
    /\ WF_vars(Hit(u) \/ Grant(u) \/ Acquire(u) \/ RefuseBusy(u) \/ StartDrain(u))
    /\ WF_vars(FinishDrain(u))
    /\ WF_vars(DeadlinePasses(u))
    /\ WF_vars(Handle(u) \/ Scan(u))
    /\ WF_vars(ScanFails(u))
    /\ WF_vars(Store(u))

FairSpec == Spec /\ Fairness

-----------------------------------------------------------------------------
(* Properties *)

TypeOK ==
  /\ enabled \in BOOLEAN /\ row \in Rows /\ draft \in [Uploads -> Rows]
  /\ window \in [hits : SUBSET Counted, grants : SUBSET Counted]
  /\ pc \in [Uploads -> {"idle", "guard", "counted", "boundary", "draining", "done"} \cup Inside]
  /\ body \in [Uploads -> {"none", "open", "complete", "gone", "left"}]
  /\ reply \in [Uploads -> {"none", "nothing", "part", "ok", "found", "junk"}]
  /\ answer \in [Uploads -> Outcomes \cup {"none", "unobserved"}]
  /\ current \in Nat /\ started \in Nat /\ inflight \in Nat
  /\ counted \in [Outcomes -> Nat]

\* A slot is held exactly as long as its upload is inside the boundary, up to
\* the end of its handler: whichever of answer, error, deadline and disconnect
\* comes first releases it, once, and at most Limit handlers run at a time.
SlotsAreHeld ==
  /\ current = Cardinality({u \in Uploads : pc[u] \in Inside})
  /\ current <= Limit

\* In each window exactly the first Rate uploads that were counted are let
\* through, however their guard transactions interleave.
WindowIsExact ==
  LET hits == Cardinality(window.hits) IN
  Cardinality(window.grants) = IF hits <= Rate THEN hits ELSE Rate

\* The gauge is the number of uploads begun and not answered, and every
\* answer behind the guards is counted once, under its own outcome.
MetricsAgree ==
  /\ inflight = Cardinality({u \in Uploads : pc[u] \in Inside \cup {"draining"}})
  /\ \A o \in Outcomes : counted[o] = Cardinality({u \in Uploads : answer[u] = o})
  /\ started = inflight + counted["success"] + counted["rejected"] + counted["failed"]
               + counted["cleanup_required"] + counted["disabled"]

\* The client left after its whole body had arrived and before the boundary: no
\* deadline is armed, no listener placed (media-ingestion-boundary.interceptor.ts:158).
Stranded(u) == pc[u] = "parsing" /\ body[u] = "left"

\* An upload is answered in the end, and its slot comes back, whatever its client and
\* ClamAV do: also one whose client left in the middle of the body before the boundary
\* listened.  The code leaves one exception, which keeps its slot for good: Stranded.
UploadsEnd == \A u \in Uploads : (pc[u] = "guard") ~> (pc[u] = "done" \/ Stranded(u))
=============================================================================
