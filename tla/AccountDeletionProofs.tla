------------------------ MODULE AccountDeletionProofs ------------------------
(***************************************************************************)
(* Proofs about AccountDeletion, for any number of calls and any grace      *)
(* period longer than twice the time a call may take.                       *)
(*                                                                          *)
(* The argument.  The User row's lock separates a deletion request's        *)
(* decision from every other change of the account (AccountOK).  The lock   *)
(* a refresh holds on the session it claimed keeps that session live until  *)
(* the refresh ends (SessionsOK), so no deletion request commits between    *)
(* the refresh's unlocked reading of the account and its INSERT.  The clock *)
(* bounds how old the reading of a login under way can be (ClockOK): too    *)
(* young for the account to have been erased since (ErasedOK).              *)
(***************************************************************************)
EXTENDS AccountDeletion, TLAPS

\* The calls of each kind are at their own awaits.
PcOK ==
  /\ \A l \in Logins : pc[l] \in LoginPc
  /\ \A f \in Refreshes : pc[f] \in RefreshPc
  /\ \A d \in Deletions : pc[d] \in DeletionPc

\* One request at most is open; a call that has not committed has none, and
\* the one that holds the User row has decided on an active account.  A login
\* about to cancel names the request it found.
AccountOK ==
  /\ RequestMatchesAccount
  /\ \A d \in Deletions : pc[d] # "done" => request[d] = "none"
  /\ \A d \in Deletions : pc[d] = "revoke" => userLock = d
  /\ \A l \in Logins : pc[l] = "cancel" => view[l].target \in Deletions
  /\ userLock # None => account = "active"

\* A refresh past its claim holds a live session; a call that is not done has
\* opened none; a token that opened a session is spent.
SessionsOK ==
  /\ \A f \in Refreshes :
       pc[f] \in {"check", "rotate"} =>
         /\ view[f].from \in Sessions
         /\ sessionLock[view[f].from] = f
         /\ session[view[f].from] = "live"
  /\ \A f \in Refreshes : pc[f] = "rotate" => account = "active"
  /\ \A s \in Sessions :
       pc[s] # "done" => session[s] = "none" /\ origin[s] = None
  /\ \A s \in Sessions : reply[s] = "success" => session[s] # "none"
  /\ RotationIsLinear
  /\ \A s \in Sessions : origin[s] # None => session[origin[s]] # "none"

\* A login that read an active account and may still open a session.
Admitted(l) == pc[l] = "open" \/ (pc[l] = "verify" /\ view[l].target = None)

\* No call is older than RequestTime, and a login admitted before the account
\* became pending read its clock before the request did, or soon after.
ClockOK ==
  /\ \A c \in Calls : view[c].began <= now
  /\ \A c \in Calls : Timed(c) => now <= view[c].began + RequestTime
  /\ \A d \in Requested : \A l \in Logins :
       Admitted(l) => view[l].began + Grace <= due[d] + RequestTime

ErasedOK ==
  /\ ErasedIsClean
  /\ account = "anonymized" => \A l \in Logins : ~Admitted(l)

IInv == TypeOK /\ PcOK /\ AccountOK /\ SessionsOK /\ ClockOK /\ ErasedOK

-----------------------------------------------------------------------------
(* Every step keeps the invariant: one lemma for each action, one step for  *)
(* each part of the invariant.                                              *)

LEMMA LoginKeeps ==
  ASSUME IInv, NEW l \in Logins, Login(l)
  PROVE  IInv'
<1>1. TypeOK'
  <2>1. view' \in [Calls -> View]
    BY DEF IInv, TypeOK, View, Login, Calls, Sessions
  <2> QED
    BY <2>1 DEF IInv, TypeOK, Login, Goto, Answer, rows, sessions, queue,
                locks, LoginPc
<1>2. PcOK'
  <2>1. \E p \in LoginPc : pc' = [pc EXCEPT ![l] = p]
    BY DEF Login, Goto, Answer, LoginPc
  <2> QED
    BY <2>1, CallsAssumption DEF IInv, TypeOK, PcOK, Calls, Sessions
<1>3. AccountOK'
  BY DEF IInv, TypeOK, Login, Goto, Answer, Calls, Sessions, rows, locks,
         AccountOK, RequestMatchesAccount, Requested
<1>4. SessionsOK'
  BY DEF IInv, TypeOK, Login, Goto, Answer, Calls, Sessions, rows, sessions,
         locks, SessionsOK, RotationIsLinear
<1>5. ClockOK'
  <2>1. view'[l].began = now /\ now' = now
    BY DEF IInv, TypeOK, View, Login, Calls, Sessions
  <2>2. \A c \in Calls \ {l} : view'[c] = view[c] /\ pc'[c] = pc[c]
    BY DEF IInv, TypeOK, Login, Goto, Answer, Calls, Sessions
  <2>3. Admitted(l)' => Requested = {}
    BY DEF IInv, TypeOK, AccountOK, RequestMatchesAccount, Login, Goto, Answer,
           Admitted, Calls, Sessions
  <2>4. Requested' = Requested /\ due' = due
    BY DEF Login, rows, Requested
  <2>5. \A c \in Calls : view'[c].began <= now'
    BY <2>1, <2>2 DEF IInv, TypeOK, ClockOK
  <2>6. \A c \in Calls : Timed(c)' => now' <= view'[c].began + RequestTime
    BY <2>1, <2>2, TimesAssumption DEF IInv, TypeOK, ClockOK, Timed
  <2>7. \A d \in Requested' : \A k \in Logins :
          Admitted(k)' => view'[k].began + Grace <= due'[d] + RequestTime
    BY <2>2, <2>3, <2>4 DEF IInv, ClockOK, Admitted, Calls, Sessions
  <2> QED
    BY <2>5, <2>6, <2>7 DEF ClockOK
<1>6. ErasedOK'
  BY DEF IInv, TypeOK, Login, Answer, Calls, Sessions, rows, sessions,
         ErasedOK, ErasedIsClean, Admitted
<1> QED
  BY <1>1, <1>2, <1>3, <1>4, <1>5, <1>6 DEF IInv

LEMMA LookupKeeps ==
  ASSUME IInv, NEW l \in Logins, Lookup(l)
  PROVE  IInv'
<1>1. TypeOK'
  <2>1. \/ view' = view
        \/ \E d \in Deletions : view' = [view EXCEPT ![l].target = d]
    BY DEF Lookup, Fail, Requested
  <2>2. view' \in [Calls -> View]
    BY <2>1 DEF IInv, TypeOK, View, Calls, Sessions
  <2> QED
    BY <2>2 DEF IInv, TypeOK, Lookup, Goto, Fail, Answer, rows, sessions,
                queue, locks, LoginPc
<1>2. PcOK'
  BY CallsAssumption, TimesAssumption
  DEF IInv, TypeOK, Lookup, Goto, Answer, Fail, Calls, Sessions, PcOK,
      LoginPc
<1>3. AccountOK'
  BY DEF IInv, TypeOK, Lookup, Goto, Answer, Fail, Requested, Calls,
         Sessions, rows, locks, AccountOK, RequestMatchesAccount
<1>4. SessionsOK'
  BY DEF IInv, TypeOK, Lookup, Goto, Answer, Fail, Calls, Sessions, rows,
         sessions, locks, SessionsOK, RotationIsLinear
<1>5. ClockOK'
  <2>1. \A c \in Calls : view'[c].began = view[c].began
    <3>1. \/ view' = view
          \/ \E d \in Deletions : view' = [view EXCEPT ![l].target = d]
      BY DEF Lookup, Fail, Requested
    <3> QED
      BY <3>1 DEF IInv, TypeOK, View, Calls, Sessions
  <2>2. \A c \in Calls : (Timed(c)' => Timed(c)) /\ now' = now
    BY CallsAssumption
    DEF IInv, TypeOK, Lookup, Goto, Fail, Answer, Timed, Calls, Sessions
  <2>3. \A k \in Logins : Admitted(k)' => Admitted(k)
    <3>1. CASE pc' = [pc EXCEPT ![l] = "verify"]
      <4>1. view'[l].target # None
        BY <3>1, CallsAssumption
        DEF IInv, TypeOK, View, Lookup, Goto, Fail, Answer, Requested, Calls,
            Sessions
      <4>2. \A k \in Logins \ {l} : view'[k] = view[k] /\ pc'[k] = pc[k]
        BY <3>1 DEF IInv, TypeOK, Lookup, Goto, Fail, Answer, Calls, Sessions
      <4> QED
        BY <3>1, <4>1, <4>2 DEF IInv, TypeOK, Admitted, Calls, Sessions
    <3>2. CASE pc' = [pc EXCEPT ![l] = "done"] /\ view' = view
      BY <3>2 DEF IInv, TypeOK, Admitted, Calls, Sessions
    <3> QED
      BY <3>1, <3>2 DEF Lookup, Goto, Fail, Answer
  <2>4. Requested' = Requested /\ due' = due
    BY DEF Lookup, rows, Requested
  <2> QED
    <3>1. \A c \in Calls : view'[c].began <= now'
      BY <2>1, <2>2 DEF IInv, ClockOK
    <3>2. \A c \in Calls : Timed(c)' => now' <= view'[c].began + RequestTime
      BY <2>1, <2>2 DEF IInv, ClockOK
    <3>3. \A d \in Requested' : \A k \in Logins :
            Admitted(k)' => view'[k].began + Grace <= due'[d] + RequestTime
      BY <2>1, <2>3, <2>4 DEF IInv, ClockOK, Calls, Sessions
    <3> QED
      BY <3>1, <3>2, <3>3 DEF ClockOK
<1>6. ErasedOK'
  BY CallsAssumption
  DEF IInv, TypeOK, View, Lookup, Goto, Answer, Fail, Requested, Calls,
      Sessions, rows, sessions, ErasedOK, ErasedIsClean, Admitted
<1> QED
  BY <1>1, <1>2, <1>3, <1>4, <1>5, <1>6 DEF IInv

LEMMA VerifyKeeps ==
  ASSUME IInv, NEW l \in Logins, Verify(l)
  PROVE  IInv'
<1>1. TypeOK'
  <2>1. view' \in [Calls -> View]
    BY DEF IInv, TypeOK, View, Verify, Fail, Calls, Sessions
  <2> QED
    BY <2>1 DEF IInv, TypeOK, Verify, Goto, Fail, Answer, Calls, Sessions, rows,
                sessions, queue, locks, LoginPc
<1>2. PcOK'
  <2>1. \E p \in LoginPc : pc' = [pc EXCEPT ![l] = p]
    BY DEF Verify, Goto, Fail, Answer, LoginPc
  <2> QED
    BY <2>1, CallsAssumption DEF IInv, TypeOK, PcOK, Calls, Sessions
<1>3. AccountOK'
  BY DEF IInv, TypeOK, View, Verify, Goto, Answer, Fail, Calls, Sessions,
         rows, locks, AccountOK, RequestMatchesAccount, Requested
<1>4. SessionsOK'
  BY DEF IInv, TypeOK, Verify, Goto, Answer, Fail, Calls, Sessions, rows,
         sessions, locks, SessionsOK, RotationIsLinear
<1>5. ClockOK'
  <2>1. \A c \in Calls \ {l} : view'[c] = view[c] /\ pc'[c] = pc[c]
    BY DEF IInv, TypeOK, Verify, Goto, Fail, Answer, Calls, Sessions
  <2>2. \/ view'[l] = view[l] /\ (Admitted(l)' => Admitted(l))
        \/ view'[l].began = now /\ ~Admitted(l)'
    BY DEF IInv, TypeOK, View, Verify, Goto, Fail, Answer, Admitted, Calls,
           Sessions
  <2>3. (Timed(l)' => Timed(l)) /\ now' = now
    BY CallsAssumption
    DEF IInv, TypeOK, Verify, Goto, Fail, Answer, Timed, Calls, Sessions
  <2>4. Requested' = Requested /\ due' = due
    BY DEF Verify, rows, Requested
  <2>5. \A c \in Calls : view'[c].began <= now'
    BY <2>1, <2>2, <2>3 DEF IInv, TypeOK, ClockOK
  <2>6. \A c \in Calls : Timed(c)' => now' <= view'[c].began + RequestTime
    <3>1. l \in Calls
      BY DEF Calls, Sessions
    <3>2. \A c \in Calls \ {l} : Timed(c)' => Timed(c)
      BY <2>1 DEF Timed
    <3>3. Timed(l)' => now' <= view'[l].began + RequestTime
      BY <2>2, <2>3, <3>1, TimesAssumption DEF IInv, TypeOK, ClockOK
    <3> QED
      BY <2>1, <2>3, <3>2, <3>3 DEF IInv, ClockOK
  <2>7. \A d \in Requested' : \A k \in Logins :
          Admitted(k)' => view'[k].began + Grace <= due'[d] + RequestTime
    <3>1. \A k \in Logins : Admitted(k)' => Admitted(k) /\ view'[k] = view[k]
      BY <2>1, <2>2 DEF Admitted, Calls, Sessions
    <3> QED
      BY <2>4, <3>1 DEF IInv, ClockOK
  <2> QED
    BY <2>5, <2>6, <2>7 DEF ClockOK
<1>6. ErasedOK'
  BY DEF IInv, TypeOK, Verify, Goto, Answer, Fail, Calls, Sessions, rows,
         sessions, ErasedOK, ErasedIsClean, Admitted
<1> QED
  BY <1>1, <1>2, <1>3, <1>4, <1>5, <1>6 DEF IInv

LEMMA CancelKeeps ==
  ASSUME IInv, NEW l \in Logins, Cancel(l)
  PROVE  IInv'
<1>1. TypeOK'
  BY DEF IInv, TypeOK, Cancel, Goto, Answer, sessions, queue, locks,
         LoginPc, AccountStatus, RequestStatus
<1>2. PcOK'
  BY DEF IInv, TypeOK, Cancel, Goto, Answer, Calls, Sessions, PcOK, LoginPc,
         RefreshPc, DeletionPc
<1>3. AccountOK'
  BY DEF IInv, TypeOK, Cancel, Goto, Answer, MayCancel, Calls, Sessions,
         locks, AccountOK, RequestMatchesAccount, Requested
<1>4. SessionsOK'
  BY DEF IInv, TypeOK, Cancel, Goto, Answer, Calls, Sessions, sessions,
         locks, SessionsOK, RotationIsLinear
<1>5. ClockOK'
  BY CallsAssumption, TimesAssumption
  DEF IInv, TypeOK, Cancel, Goto, Answer, MayCancel, Calls, Sessions,
      ClockOK, Timed, Admitted, Requested, AccountOK, RequestMatchesAccount
<1>6. ErasedOK'
  BY DEF IInv, TypeOK, Cancel, Answer, MayCancel, Calls, Sessions, sessions,
         ErasedOK, ErasedIsClean, Admitted, AccountOK,
         RequestMatchesAccount, Requested
<1> QED
  BY <1>1, <1>2, <1>3, <1>4, <1>5, <1>6 DEF IInv

LEMMA OpenSessionKeeps ==
  ASSUME IInv, NEW l \in Logins, OpenSession(l)
  PROVE  IInv'
<1>1. TypeOK'
  BY TimesAssumption
  DEF IInv, TypeOK, OpenSession, Answer, AnswerOrLose, rows, queue, locks,
      DeletionPc, SessionStatus
<1>2. PcOK'
  BY DEF IInv, TypeOK, OpenSession, Answer, AnswerOrLose, Calls, Sessions,
         PcOK, LoginPc, RefreshPc, DeletionPc
<1>3. AccountOK'
  BY DEF IInv, TypeOK, OpenSession, Answer, AnswerOrLose, Calls, Sessions,
         rows, locks, AccountOK, RequestMatchesAccount, Requested
<1>4. SessionsOK'
  BY DEF IInv, TypeOK, OpenSession, Answer, AnswerOrLose, Calls, Sessions,
         rows, locks, SessionsOK, RotationIsLinear
<1>5. ClockOK'
  BY DEF IInv, TypeOK, OpenSession, Answer, AnswerOrLose, Calls, Sessions,
         rows, ClockOK, Timed, Admitted, Requested
<1>6. ErasedOK'
  BY DEF IInv, OpenSession, rows, ErasedOK, ErasedIsClean, Admitted
<1> QED
  BY <1>1, <1>2, <1>3, <1>4, <1>5, <1>6 DEF IInv

LEMMA ClaimKeeps ==
  ASSUME IInv, NEW f \in Refreshes, Claim(f)
  PROVE  IInv'
<1>1. TypeOK'
  <2>1. view' \in [Calls -> View]
    BY DEF IInv, TypeOK, View, Claim, Calls, Sessions
  <2> QED
    BY <2>1 DEF IInv, TypeOK, Claim, Goto, rows, sessions, queue, RefreshPc
<1>2. PcOK'
  BY CallsAssumption, TimesAssumption
  DEF IInv, TypeOK, Claim, Goto, Calls, Sessions, PcOK, RefreshPc
<1>3. AccountOK'
  BY DEF IInv, TypeOK, Claim, Goto, Calls, Sessions, rows, AccountOK,
         RequestMatchesAccount, Requested
<1>4. SessionsOK'
  BY CallsAssumption
  DEF IInv, TypeOK, Claim, Goto, Calls, Sessions, rows, sessions,
      SessionsOK, RotationIsLinear
<1>5. ClockOK'
  BY CallsAssumption
  DEF IInv, TypeOK, Claim, Goto, Calls, Sessions, rows, ClockOK, Timed,
      Admitted, Requested
<1>6. ErasedOK'
  BY DEF IInv, TypeOK, Claim, Goto, Calls, Sessions, rows, sessions,
         ErasedOK, ErasedIsClean, Admitted
<1> QED
  BY <1>1, <1>2, <1>3, <1>4, <1>5, <1>6 DEF IInv

LEMMA CheckAccountKeeps ==
  ASSUME IInv, NEW f \in Refreshes, CheckAccount(f)
  PROVE  IInv'
<1>1. TypeOK'
  BY DEF IInv, TypeOK, CheckAccount, Goto, Answer, Release, rows, queue,
         RefreshPc, SessionStatus
<1>2. PcOK'
  BY DEF IInv, TypeOK, CheckAccount, Goto, Answer, Calls, Sessions, PcOK,
         LoginPc, RefreshPc, DeletionPc
<1>3. AccountOK'
  BY DEF IInv, TypeOK, CheckAccount, Goto, Answer, Calls, Sessions, rows,
         AccountOK, RequestMatchesAccount, Requested
<1>4. SessionsOK'
  BY DEF IInv, TypeOK, CheckAccount, Goto, Answer, Release, Calls, Sessions,
         rows, SessionsOK, RotationIsLinear
<1>5. ClockOK'
  BY TimesAssumption
  DEF IInv, TypeOK, CheckAccount, Goto, Answer, Calls, Sessions, rows,
      ClockOK, Timed, Admitted, Requested
<1>6. ErasedOK'
  BY DEF IInv, CheckAccount, rows, ErasedOK, ErasedIsClean, SessionsOK
<1> QED
  BY <1>1, <1>2, <1>3, <1>4, <1>5, <1>6 DEF IInv

LEMMA RotateKeeps ==
  ASSUME IInv, NEW f \in Refreshes, Rotate(f)
  PROVE  IInv'
<1>1. TypeOK'
  <2>1. view[f].from \in Sessions
    BY DEF IInv, SessionsOK, Rotate
  <2> QED
    BY <2>1 DEF IInv, TypeOK, Rotate, Release, AnswerOrLose, Answer, Calls,
                Sessions, rows, queue, SessionStatus, DeletionPc
<1>2. PcOK'
  BY DEF IInv, TypeOK, Rotate, AnswerOrLose, Answer, Calls, Sessions, PcOK,
         LoginPc, RefreshPc, DeletionPc
<1>3. AccountOK'
  BY DEF IInv, TypeOK, Rotate, AnswerOrLose, Answer, Calls, Sessions, rows,
         AccountOK, RequestMatchesAccount, Requested
<1>4. SessionsOK'
  BY DEF IInv, TypeOK, Rotate, Release, AnswerOrLose, Answer, Calls,
         Sessions, rows, SessionsOK, RotationIsLinear
<1>5. ClockOK'
  BY DEF IInv, TypeOK, Rotate, AnswerOrLose, Answer, Calls, Sessions, rows,
         ClockOK, Timed, Admitted, Requested
<1>6. ErasedOK'
  BY DEF IInv, Rotate, rows, ErasedOK, ErasedIsClean, SessionsOK
<1> QED
  BY <1>1, <1>2, <1>3, <1>4, <1>5, <1>6 DEF IInv

LEMMA AbortRefreshKeeps ==
  ASSUME IInv, NEW f \in Refreshes, AbortRefresh(f)
  PROVE  IInv'
<1>1. TypeOK'
  <2>1. view[f].from \in Sessions
    BY DEF IInv, SessionsOK, AbortRefresh
  <2> QED
    BY <2>1 DEF IInv, TypeOK, AbortRefresh, Release, Fail, Answer, Calls,
                Sessions, rows, sessions, queue, DeletionPc
<1>2. PcOK'
  BY DEF IInv, AbortRefresh, Fail, Answer, PcOK, LoginPc, RefreshPc,
         DeletionPc
<1>3. AccountOK'
  BY DEF IInv, AbortRefresh, Fail, Answer, rows, AccountOK,
         RequestMatchesAccount, Requested
<1>4. SessionsOK'
  BY DEF IInv, TypeOK, AbortRefresh, Release, Fail, Answer, Calls, Sessions,
         rows, sessions, SessionsOK, RotationIsLinear
<1>5. ClockOK'
  BY DEF IInv, AbortRefresh, Fail, Answer, rows, ClockOK, Timed, Admitted,
         Requested
<1>6. ErasedOK'
  BY DEF IInv, AbortRefresh, Fail, Answer, rows, sessions, ErasedOK,
         ErasedIsClean, Admitted
<1> QED
  BY <1>1, <1>2, <1>3, <1>4, <1>5, <1>6 DEF IInv

LEMMA DetectReuseKeeps ==
  ASSUME IInv, NEW f \in Refreshes, DetectReuse(f)
  PROVE  IInv'
<1>1. TypeOK'
  <2>1. view' \in [Calls -> View]
    BY DEF IInv, TypeOK, View, DetectReuse, Fail, Live, Calls, Sessions
  <2> QED
    BY <2>1 DEF IInv, TypeOK, DetectReuse, Goto, Fail, Answer, Calls, Sessions,
                rows, sessions, queue, locks, RefreshPc
<1>2. PcOK'
  BY TimesAssumption
  DEF IInv, TypeOK, DetectReuse, Goto, Fail, Answer, Calls, Sessions, PcOK,
      LoginPc, RefreshPc, DeletionPc
<1>3. AccountOK'
  BY CallsAssumption
  DEF IInv, TypeOK, DetectReuse, Goto, Fail, Answer, Calls, Sessions, rows,
      locks, AccountOK, RequestMatchesAccount, Requested
<1>4. SessionsOK'
  BY DEF IInv, TypeOK, DetectReuse, Goto, Fail, Answer, Calls, Sessions,
         rows, sessions, locks, SessionsOK, RotationIsLinear
<1>5. ClockOK'
  <2>1. \A c \in Calls : view'[c].began = view[c].began
    BY DEF IInv, TypeOK, View, DetectReuse, Fail, Calls, Sessions
  <2>2. \A c \in Calls : (Timed(c)' => Timed(c)) /\ now' = now
    BY CallsAssumption
    DEF IInv, TypeOK, DetectReuse, Goto, Fail, Answer, Timed, Calls, Sessions
  <2>3. \A l \in Logins : Admitted(l)' => Admitted(l)
    BY CallsAssumption
    DEF IInv, TypeOK, DetectReuse, Goto, Fail, Answer, Admitted, Calls, Sessions
  <2>4. Requested' = Requested /\ due' = due
    BY DEF DetectReuse, rows, Requested
  <2> QED
    BY <2>1, <2>2, <2>3, <2>4 DEF IInv, ClockOK, Calls, Sessions
<1>6. ErasedOK'
  BY DEF IInv, TypeOK, DetectReuse, Goto, Fail, Answer, Calls, Sessions,
         rows, sessions, ErasedOK, ErasedIsClean, Admitted
<1> QED
  BY <1>1, <1>2, <1>3, <1>4, <1>5, <1>6 DEF IInv

LEMMA RevokeAllKeeps ==
  ASSUME IInv, NEW f \in Refreshes, RevokeAll(f)
  PROVE  IInv'
<1>1. TypeOK'
  BY DEF IInv, TypeOK, RevokeAll, Fail, Answer, Calls, Sessions, rows,
         queue, locks, DeletionPc, SessionStatus
<1>2. PcOK'
  BY DEF IInv, RevokeAll, Fail, Answer, PcOK, LoginPc, RefreshPc, DeletionPc
<1>3. AccountOK'
  BY DEF IInv, RevokeAll, Fail, Answer, rows, locks, AccountOK,
         RequestMatchesAccount, Requested
<1>4. SessionsOK'
  BY CallsAssumption
  DEF IInv, TypeOK, RevokeAll, Fail, Answer, Live, Calls, Sessions, rows,
      locks, SessionsOK, RotationIsLinear
<1>5. ClockOK'
  BY DEF IInv, RevokeAll, Fail, Answer, rows, ClockOK, Timed, Admitted,
         Requested
<1>6. ErasedOK'
  BY DEF IInv, RevokeAll, Fail, Answer, Live, rows, ErasedOK, ErasedIsClean,
         Admitted
<1> QED
  BY <1>1, <1>2, <1>3, <1>4, <1>5, <1>6 DEF IInv

LEMMA LogoutKeeps ==
  ASSUME IInv, NEW s \in Sessions, Logout(s)
  PROVE  IInv'
<1>1. TypeOK'
  BY DEF IInv, TypeOK, Logout, rows, queue, locks, calls, SessionStatus
<1>2. PcOK'
  BY DEF IInv, Logout, calls, PcOK
<1>3. AccountOK'
  BY DEF IInv, Logout, rows, locks, calls, AccountOK, RequestMatchesAccount,
         Requested
<1>4. SessionsOK'
  BY CallsAssumption
  DEF IInv, Logout, Calls, Sessions, rows, locks, calls, SessionsOK,
      RotationIsLinear
<1>5. ClockOK'
  BY DEF IInv, Logout, rows, calls, ClockOK, Timed, Admitted, Requested
<1>6. ErasedOK'
  BY DEF IInv, Logout, rows, ErasedOK, ErasedIsClean
<1> QED
  BY <1>1, <1>2, <1>3, <1>4, <1>5, <1>6 DEF IInv

LEMMA AuthorizeKeeps ==
  ASSUME IInv, NEW d \in Deletions, Authorize(d)
  PROVE  IInv'
<1>1. TypeOK'
  BY DEF IInv, TypeOK, Authorize, Goto, Calls, rows, sessions, queue, locks,
         DeletionPc
<1>2. PcOK'
  BY CallsAssumption DEF IInv, Authorize, Goto, Sessions, PcOK, DeletionPc
<1>3. AccountOK'
  BY DEF IInv, Authorize, Goto, rows, locks, AccountOK,
         RequestMatchesAccount, Requested
<1>4. SessionsOK'
  BY DEF IInv, Authorize, Goto, rows, sessions, locks, SessionsOK,
         RotationIsLinear
<1>5. ClockOK'
  BY CallsAssumption
  DEF IInv, Authorize, Goto, Sessions, rows, ClockOK, Timed, Admitted,
      Requested
<1>6. ErasedOK'
  BY DEF Authorize, rows, ErasedOK, ErasedIsClean
<1> QED
  BY <1>1, <1>2, <1>3, <1>4, <1>5, <1>6 DEF IInv

LEMMA ReadUserKeeps ==
  ASSUME IInv, NEW d \in Deletions, ReadUser(d)
  PROVE  IInv'
<1>1. TypeOK'
  <2>1. view' \in [Calls -> View]
    BY DEF IInv, TypeOK, View, ReadUser, Fail, Calls, Sessions
  <2> QED
    BY <2>1 DEF IInv, TypeOK, ReadUser, Goto, Fail, Answer, rows,
                sessions, queue, locks, DeletionPc
<1>2. PcOK'
  BY CallsAssumption, TimesAssumption
  DEF IInv, TypeOK, ReadUser, Goto, Fail, Answer, Calls, Sessions, PcOK,
      DeletionPc
<1>3. AccountOK'
  BY DEF IInv, TypeOK, ReadUser, Goto, Fail, Answer, Calls, Sessions, rows,
         locks, AccountOK, RequestMatchesAccount, Requested
<1>4. SessionsOK'
  BY DEF IInv, TypeOK, ReadUser, Goto, Fail, Answer, Calls, Sessions, rows,
         sessions, locks, SessionsOK, RotationIsLinear
<1>5. ClockOK'
  BY TimesAssumption
  DEF IInv, TypeOK, View, ReadUser, Goto, Fail, Answer, Calls, Sessions,
      rows, sessions, queue, locks, PcOK, LoginPc, RefreshPc, DeletionPc,
      AccountStatus, RequestStatus, SessionStatus, JobState, ClockOK, Timed,
      Admitted, Requested
<1>6. ErasedOK'
  BY DEF IInv, TypeOK, ReadUser, Fail, Answer, Calls, Sessions, rows,
         sessions, ErasedOK, ErasedIsClean, Admitted
<1> QED
  BY <1>1, <1>2, <1>3, <1>4, <1>5, <1>6 DEF IInv

LEMMA LockUserKeeps ==
  ASSUME IInv, NEW d \in Deletions, LockUser(d)
  PROVE  IInv'
<1>1. TypeOK'
  BY TimesAssumption
  DEF IInv, TypeOK, LockUser, Answer, Goto, rows, sessions, queue,
      DeletionPc
<1>2. PcOK'
  BY DEF IInv, TypeOK, LockUser, Answer, Goto, Calls, Sessions, PcOK,
         LoginPc, RefreshPc, DeletionPc
<1>3. AccountOK'
  BY CallsAssumption
  DEF IInv, TypeOK, LockUser, Requested, Answer, Goto, Calls, Sessions,
      rows, AccountOK, RequestMatchesAccount
<1>4. SessionsOK'
  BY DEF IInv, TypeOK, LockUser, Answer, Goto, Calls, Sessions, rows,
         sessions, SessionsOK, RotationIsLinear
<1>5. ClockOK'
  BY CallsAssumption
  DEF IInv, TypeOK, LockUser, Requested, Answer, Goto, Calls, Sessions,
      rows, ClockOK, Timed, Admitted
<1>6. ErasedOK'
  BY DEF IInv, TypeOK, LockUser, Answer, Calls, Sessions, rows, sessions,
         ErasedOK, ErasedIsClean, Admitted
<1> QED
  BY <1>1, <1>2, <1>3, <1>4, <1>5, <1>6 DEF IInv

LEMMA ScheduleKeeps ==
  ASSUME IInv, NEW d \in Deletions, Schedule(d)
  PROVE  IInv'
<1>1. TypeOK'
  BY CallsAssumption, TimesAssumption
  DEF IInv, TypeOK, View, Schedule, AnswerOrLose, Answer, Calls, LoginPc,
      AccountStatus, RequestStatus, SessionStatus, JobState
<1>2. PcOK'
  BY CallsAssumption, TimesAssumption
  DEF IInv, TypeOK, Schedule, AnswerOrLose, Answer, Calls, Sessions, PcOK,
      DeletionPc
<1>3. AccountOK'
  BY CallsAssumption
  DEF IInv, TypeOK, Schedule, AnswerOrLose, Answer, Calls, Sessions,
      AccountOK, RequestMatchesAccount, Requested
<1>4. SessionsOK'
  BY CallsAssumption
  DEF IInv, TypeOK, Schedule, Live, AnswerOrLose, Answer, Calls, Sessions,
      SessionsOK, RotationIsLinear
<1>5. ClockOK'
  BY TimesAssumption
  DEF IInv, TypeOK, View, Schedule, AnswerOrLose, Answer, Calls, Sessions,
      ClockOK, Timed, Admitted, Requested
<1>6. ErasedOK'
  BY DEF Schedule, ErasedOK, ErasedIsClean
<1> QED
  BY <1>1, <1>2, <1>3, <1>4, <1>5, <1>6 DEF IInv

LEMMA AbortDeletionKeeps ==
  ASSUME IInv, NEW d \in Deletions, AbortDeletion(d)
  PROVE  IInv'
<1>1. TypeOK'
  BY DEF IInv, TypeOK, AbortDeletion, Fail, Answer, Calls, rows, sessions,
         queue, DeletionPc
<1>2. PcOK'
  BY DEF IInv, AbortDeletion, Fail, Answer, PcOK, LoginPc, RefreshPc,
         DeletionPc
<1>3. AccountOK'
  BY DEF IInv, TypeOK, AbortDeletion, Fail, Answer, Calls, rows, AccountOK,
         RequestMatchesAccount, Requested
<1>4. SessionsOK'
  BY DEF IInv, AbortDeletion, Fail, Answer, rows, sessions, SessionsOK,
         RotationIsLinear
<1>5. ClockOK'
  BY DEF IInv, AbortDeletion, Fail, Answer, rows, ClockOK, Timed, Admitted,
         Requested
<1>6. ErasedOK'
  BY DEF IInv, AbortDeletion, Fail, Answer, rows, sessions, ErasedOK,
         ErasedIsClean, Admitted
<1> QED
  BY <1>1, <1>2, <1>3, <1>4, <1>5, <1>6 DEF IInv

LEMMA SkipSettledKeeps ==
  ASSUME IInv, NEW d \in Deletions, SkipSettled(d)
  PROVE  IInv'
<1>1. TypeOK'
  BY DEF IInv, TypeOK, SkipSettled, JobDone, rows, sessions, locks, calls,
         JobState
<1>2. PcOK'
  BY DEF IInv, SkipSettled, calls, PcOK
<1>3. AccountOK'
  BY DEF IInv, SkipSettled, rows, locks, calls, AccountOK,
         RequestMatchesAccount, Requested
<1>4. SessionsOK'
  BY DEF IInv, SkipSettled, rows, sessions, locks, calls, SessionsOK,
         RotationIsLinear
<1>5. ClockOK'
  BY DEF IInv, SkipSettled, rows, calls, ClockOK, Timed, Admitted, Requested
<1>6. ErasedOK'
  BY DEF IInv, SkipSettled, rows, sessions, calls, ErasedOK, ErasedIsClean,
         Admitted
<1> QED
  BY <1>1, <1>2, <1>3, <1>4, <1>5, <1>6 DEF IInv

LEMMA AnonymizeKeeps ==
  ASSUME IInv, NEW d \in Deletions, Anonymize(d)
  PROVE  IInv'
<1>1. TypeOK'
  BY TimesAssumption
  DEF IInv, TypeOK, Anonymize, JobDone, JobRetried, locks, calls,
      AccountStatus, RequestStatus, SessionStatus, JobState
<1>2. PcOK'
  BY DEF IInv, Anonymize, calls, PcOK
<1>3. AccountOK'
  BY DEF IInv, TypeOK, Anonymize, locks, calls, AccountOK,
         RequestMatchesAccount, Requested
<1>4. SessionsOK'
  BY CallsAssumption
  DEF IInv, TypeOK, Anonymize, Calls, Sessions, calls, SessionsOK,
      RotationIsLinear
<1>5. ClockOK'
  BY DEF IInv, Anonymize, calls, ClockOK, Timed, Admitted, Requested
<1>6. ErasedOK'
  <2>1. \A s \in Sessions : session'[s] \in {"none", "deleted"}
    BY DEF Anonymize
  <2>2. ASSUME NEW l \in Logins, Admitted(l)
        PROVE  FALSE
    <3>1. now <= view[l].began + RequestTime
      BY <2>2, CallsAssumption
      DEF IInv, ClockOK, Timed, Admitted, Calls, Sessions
    <3>2. view[l].began + Grace <= due[d] + RequestTime
      BY <2>2 DEF IInv, ClockOK, Requested, Anonymize
    <3>3. due[d] <= now
      BY DEF Anonymize, Fetchable
    <3>4. view[l].began \in Nat /\ due[d] \in Nat /\ now \in Nat
      BY DEF IInv, TypeOK, View, Calls, Sessions
    <3> QED
      BY <3>1, <3>2, <3>3, <3>4, TimesAssumption
  <2>3. \A l \in Logins : ~Admitted(l)'
    BY <2>2 DEF Anonymize, calls, Admitted
  <2> QED
    BY <2>1, <2>3 DEF ErasedOK, ErasedIsClean
<1> QED
  BY <1>1, <1>2, <1>3, <1>4, <1>5, <1>6 DEF IInv

LEMMA JobFailsKeeps ==
  ASSUME IInv, NEW d \in Deletions, JobFails(d)
  PROVE  IInv'
<1>1. TypeOK'
  BY TimesAssumption
  DEF IInv, TypeOK, JobFails, JobRetried, rows, sessions, locks, calls,
      JobState
<1>2. PcOK'
  BY DEF IInv, JobFails, calls, PcOK
<1>3. AccountOK'
  BY DEF IInv, JobFails, rows, locks, calls, AccountOK,
         RequestMatchesAccount, Requested
<1>4. SessionsOK'
  BY DEF IInv, JobFails, rows, sessions, locks, calls, SessionsOK,
         RotationIsLinear
<1>5. ClockOK'
  BY DEF IInv, JobFails, rows, calls, ClockOK, Timed, Admitted, Requested
<1>6. ErasedOK'
  BY DEF IInv, JobFails, rows, sessions, calls, ErasedOK, ErasedIsClean,
         Admitted
<1> QED
  BY <1>1, <1>2, <1>3, <1>4, <1>5, <1>6 DEF IInv

LEMMA RequeueKeeps ==
  ASSUME IInv, NEW d \in Deletions, Requeue(d)
  PROVE  IInv'
<1>1. TypeOK'
  BY TimesAssumption
  DEF IInv, TypeOK, Requeue, rows, sessions, locks, calls, JobState
<1>2. PcOK'
  BY DEF IInv, Requeue, calls, PcOK
<1>3. AccountOK'
  BY DEF IInv, Requeue, rows, locks, calls, AccountOK,
         RequestMatchesAccount, Requested
<1>4. SessionsOK'
  BY DEF IInv, Requeue, rows, sessions, locks, calls, SessionsOK,
         RotationIsLinear
<1>5. ClockOK'
  BY DEF IInv, Requeue, rows, calls, ClockOK, Timed, Admitted, Requested
<1>6. ErasedOK'
  BY DEF IInv, Requeue, rows, sessions, calls, ErasedOK, ErasedIsClean,
         Admitted
<1> QED
  BY <1>1, <1>2, <1>3, <1>4, <1>5, <1>6 DEF IInv

LEMMA TickKeeps ==
  ASSUME IInv, Tick
  PROVE  IInv'
<1>1. TypeOK'
  BY DEF IInv, TypeOK, Tick, rows, sessions, queue, locks, calls
<1>2. PcOK'
  BY DEF IInv, Tick, calls, PcOK
<1>3. AccountOK'
  BY DEF IInv, Tick, rows, locks, calls, AccountOK, RequestMatchesAccount,
         Requested
<1>4. SessionsOK'
  BY DEF IInv, Tick, rows, sessions, locks, calls, SessionsOK,
         RotationIsLinear
<1>5. ClockOK'
  BY TimesAssumption
  DEF IInv, TypeOK, View, Tick, rows, calls, ClockOK, Timed, Admitted,
      Requested
<1>6. ErasedOK'
  BY DEF IInv, Tick, rows, sessions, calls, ErasedOK, ErasedIsClean, Admitted
<1> QED
  BY <1>1, <1>2, <1>3, <1>4, <1>5, <1>6 DEF IInv

LEMMA InitHolds == Init => IInv
<1> SUFFICES ASSUME Init PROVE IInv
  OBVIOUS
<1>1. TypeOK
  BY CallsAssumption, TimesAssumption
  DEF Init, TypeOK, View, Calls, Sessions, AccountStatus, RequestStatus,
      SessionStatus, JobState, LoginPc
<1>2. PcOK
  BY DEF Init, PcOK, Calls, Sessions, LoginPc, RefreshPc, DeletionPc
<1>3. Requested = {}
  BY DEF Init, Requested
<1>4. AccountOK
  BY <1>3 DEF Init, AccountOK, RequestMatchesAccount, Calls, Sessions
<1>5. SessionsOK
  BY CallsAssumption DEF Init, SessionsOK, RotationIsLinear, Calls, Sessions
<1>6. ClockOK
  BY <1>3, TimesAssumption DEF Init, ClockOK, Timed, Admitted, Calls, Sessions
<1>7. ErasedOK
  BY DEF Init, ErasedOK, ErasedIsClean
<1> QED
  BY <1>1, <1>2, <1>4, <1>5, <1>6, <1>7 DEF IInv

LEMMA StutterKeeps == IInv /\ UNCHANGED vars => IInv'
<1> SUFFICES ASSUME IInv, UNCHANGED vars PROVE IInv'
  OBVIOUS
<1> USE DEF vars, rows, sessions, queue, locks, calls
<1>1. TypeOK' /\ PcOK'
  BY DEF IInv, TypeOK, PcOK
<1>2. AccountOK'
  BY DEF IInv, AccountOK, RequestMatchesAccount, Requested
<1>3. SessionsOK'
  BY DEF IInv, SessionsOK, RotationIsLinear
<1>4. ClockOK'
  BY DEF IInv, ClockOK, Timed, Admitted, Requested
<1>5. ErasedOK'
  BY DEF IInv, ErasedOK, ErasedIsClean, Admitted
<1> QED
  BY <1>1, <1>2, <1>3, <1>4, <1>5 DEF IInv

LEMMA NextKeeps == IInv /\ [Next]_vars => IInv'
<1> SUFFICES ASSUME IInv, [Next]_vars PROVE IInv'
  OBVIOUS
<1>1. ASSUME NEW l \in Logins, LoginStep(l) PROVE IInv'
  BY <1>1, LoginKeeps, LookupKeeps, VerifyKeeps, CancelKeeps, OpenSessionKeeps
  DEF LoginStep
<1>2. ASSUME NEW f \in Refreshes, RefreshStep(f) PROVE IInv'
  BY <1>2, ClaimKeeps, CheckAccountKeeps, RotateKeeps, AbortRefreshKeeps,
     DetectReuseKeeps, RevokeAllKeeps
  DEF RefreshStep
<1>3. ASSUME NEW s \in Sessions, Logout(s) PROVE IInv'
  BY <1>3, LogoutKeeps
<1>4. ASSUME NEW d \in Deletions, DeletionStep(d) PROVE IInv'
  BY <1>4, AuthorizeKeeps, ReadUserKeeps, LockUserKeeps, ScheduleKeeps,
     AbortDeletionKeeps
  DEF DeletionStep
<1>5. ASSUME NEW d \in Deletions, JobStep(d) \/ Requeue(d) PROVE IInv'
  BY <1>5, SkipSettledKeeps, AnonymizeKeeps, JobFailsKeeps, RequeueKeeps
  DEF JobStep
<1>6. CASE Tick
  BY <1>6, TickKeeps
<1>7. CASE UNCHANGED vars
  BY <1>7, StutterKeeps
<1> QED
  BY <1>1, <1>2, <1>3, <1>4, <1>5, <1>6, <1>7 DEF Next

-----------------------------------------------------------------------------
(* The theorems.                                                            *)

\* Every reachable state satisfies the inductive invariant.
THEOREM Invariant == Spec => []IInv
<1> QED
  BY InitHolds, NextKeeps, PTL DEF Spec

\* Every variable keeps its type; no job is retried beyond its limit.
THEOREM TypeCorrect == Spec => []TypeOK
<1>1. IInv => TypeOK
  BY DEF IInv
<1> QED
  BY <1>1, Invariant, PTL

\* The status of the account and those of its requests agree after every
\* interleaving of logins, deletion requests and jobs.
THEOREM RequestMatchesAccountHolds == Spec => []RequestMatchesAccount
<1>1. IInv => RequestMatchesAccount
  BY DEF IInv, AccountOK
<1> QED
  BY <1>1, Invariant, PTL

\* The job leaves no session row, whatever login or refresh it races.
THEOREM ErasureIsComplete == Spec => []ErasedIsClean
<1>1. IInv => ErasedIsClean
  BY DEF IInv, ErasedOK
<1> QED
  BY <1>1, Invariant, PTL

\* One refresh token never opens two sessions.
THEOREM RotationHolds == Spec => []RotationIsLinear
<1>1. IInv => RotationIsLinear
  BY DEF IInv, SessionsOK
<1> QED
  BY <1>1, Invariant, PTL

\* The only step of a refresh that opens its session is Rotate.
LEMMA OnlyRotateOpens ==
  ASSUME IInv, Next, NEW f \in Refreshes,
         session[f] = "none", session'[f] = "live"
  PROVE  Rotate(f)
<1> USE DEF IInv, TypeOK, Sessions
<1>1. ASSUME NEW l \in Logins, LoginStep(l) PROVE FALSE
  BY <1>1, CallsAssumption
  DEF LoginStep, Login, Lookup, Verify, Cancel, OpenSession, sessions
<1>2. ASSUME NEW g \in Refreshes, RefreshStep(g) PROVE g = f /\ Rotate(g)
  <2>1. CASE Claim(g) \/ AbortRefresh(g) \/ DetectReuse(g)
    BY <2>1 DEF Claim, AbortRefresh, DetectReuse, sessions
  <2>2. CASE CheckAccount(g)
    BY <2>2 DEF CheckAccount
  <2>3. CASE Rotate(g)
    BY <2>3 DEF Rotate
  <2>4. CASE RevokeAll(g)
    BY <2>4 DEF RevokeAll
  <2> QED
    BY <1>2, <2>1, <2>2, <2>3, <2>4 DEF RefreshStep
<1>3. ASSUME NEW s \in Sessions, Logout(s) PROVE FALSE
  BY <1>3 DEF Logout
<1>4. ASSUME NEW d \in Deletions, DeletionStep(d) PROVE FALSE
  BY <1>4
  DEF DeletionStep, Authorize, ReadUser, LockUser, Schedule, AbortDeletion,
      sessions
<1>5. ASSUME NEW d \in Deletions, JobStep(d) \/ Requeue(d) PROVE FALSE
  BY <1>5 DEF JobStep, SkipSettled, Anonymize, JobFails, Requeue, sessions
<1>6. CASE Tick
  BY <1>6 DEF Tick, sessions
<1> QED
  BY <1>1, <1>2, <1>3, <1>4, <1>5, <1>6 DEF Next

\* A refresh opens a session only for an active account, although it read the
\* account without a lock.
THEOREM RotationIsAuthorized == Spec => RotationRespectsDeletion
<1>1. ASSUME IInv, Next, NEW f \in Refreshes,
             session[f] = "none", session'[f] = "live"
      PROVE  account = "active"
  <2>1. Rotate(f)
    BY <1>1, OnlyRotateOpens
  <2> QED
    BY <2>1, <1>1 DEF IInv, SessionsOK, Rotate
<1>2. IInv /\ [Next]_vars =>
        [\A f \in Refreshes :
           session[f] = "none" /\ session'[f] = "live" => account = "active"]_vars
  BY <1>1
<1> QED
  BY <1>2, Invariant, PTL DEF Spec, RotationRespectsDeletion

-----------------------------------------------------------------------------
(* The refinement of AccountPromise.                                        *)

Deadlines == {due[d] : d \in Requested}

\* A step that leaves the account, the requests and the clock alone stutters.
LEMMA RestStutters == UNCHANGED <<rows, now>> =>
                        UNCHANGED <<account, Deadlines, now>>
BY DEF rows, Deadlines, Requested

\* What the account's owner is promised is what the code does.
THEOREM PromiseHolds == Spec => PromiseIsKept
<1> USE DEF Promise!Request, Promise!TakeBack, Promise!Erase, Promise!Pass
<1>1. Init => Promise!Init
  BY DEF Init, Promise!Init, Requested
<1>2. ASSUME IInv, NEW l \in Logins, Cancel(l)
      PROVE  Promise!TakeBack \/ UNCHANGED <<account, Deadlines, now>>
  <2>1. CASE UNCHANGED <<account, request>>
    BY <1>2, <2>1, RestStutters DEF Cancel, rows
  <2>2. CASE /\ MayCancel(l)
             /\ request' = [request EXCEPT ![view[l].target] = "cancelled"]
    <3>1. view[l].target \in Requested /\ account = "deletion_pending"
      BY <1>2, <2>2
      DEF IInv, AccountOK, RequestMatchesAccount, Cancel, MayCancel, Requested
    <3>2. Requested' = {}
      BY <2>2, <3>1, <1>2
      DEF IInv, TypeOK, AccountOK, RequestMatchesAccount, Requested
    <3>3. account' = "active" /\ UNCHANGED now
      BY <1>2, <2>2, <3>1 DEF IInv, TypeOK, Cancel, MayCancel, Requested
    <3> QED
      BY <3>1, <3>2, <3>3
  <2> QED
    BY <1>2, <2>1, <2>2 DEF Cancel
<1>3. ASSUME IInv, NEW d \in Deletions, Schedule(d)
      PROVE  Promise!Request
  <2>1. account = "active" /\ account' = "deletion_pending" /\ UNCHANGED now
    BY <1>3, CallsAssumption DEF IInv, AccountOK, Schedule, Calls
  <2>2. Requested' = {d}
    BY <1>3, <2>1
    DEF IInv, TypeOK, AccountOK, RequestMatchesAccount, Requested, Schedule
  <2>3. due'[d] = view[d].began + Grace
    BY <1>3 DEF IInv, TypeOK, Schedule
  <2>4. view[d].began <= now /\ now <= view[d].began + RequestTime
    BY <1>3 DEF IInv, ClockOK, Timed, Schedule, Calls
  <2>5. view[d].began \in Nat /\ now \in Nat
    BY <1>3 DEF IInv, TypeOK, View, Calls
  <2>6. due'[d] \in (now + Grace - RequestTime) .. (now + Grace)
    BY <2>3, <2>4, <2>5, TimesAssumption
  <2>7. {due'[e] : e \in Requested'} = {due'[d]}
    BY <2>2
  <2> QED
    BY <2>1, <2>6, <2>7
<1>4. ASSUME IInv, NEW d \in Deletions, Anonymize(d)
      PROVE  Promise!Erase
  <2>1. Requested = {d}
    BY <1>4
    DEF IInv, AccountOK, RequestMatchesAccount, Requested, Anonymize
  <2>2. Requested' = {}
    BY <1>4, <2>1 DEF IInv, TypeOK, Requested, Anonymize
  <2>3. now >= due[d]
    BY <1>4 DEF Anonymize, Fetchable
  <2> QED
    BY <1>4, <2>1, <2>2, <2>3 DEF Anonymize
<1>5. ASSUME Tick PROVE Promise!Pass
  BY <1>5 DEF Tick, rows, Requested
<1>6. IInv /\ [Next]_vars =>
        [Promise!Next]_<<account, {due[d] : d \in Requested}, now>>
  <2> SUFFICES ASSUME IInv, [Next]_vars
               PROVE  Promise!Next \/ UNCHANGED <<account, Deadlines, now>>
    BY DEF Deadlines
  <2>1. ASSUME NEW l \in Logins, LoginStep(l), ~Cancel(l)
        PROVE  UNCHANGED <<rows, now>>
    BY <2>1 DEF LoginStep, Login, Lookup, Verify, OpenSession
  <2>2. ASSUME NEW f \in Refreshes, RefreshStep(f)
        PROVE  UNCHANGED <<rows, now>>
    BY <2>2
    DEF RefreshStep, Claim, CheckAccount, Rotate, AbortRefresh, DetectReuse,
        RevokeAll
  <2>3. ASSUME NEW s \in Sessions, Logout(s)
        PROVE  UNCHANGED <<rows, now>>
    BY <2>3 DEF Logout
  <2>4. ASSUME NEW d \in Deletions, DeletionStep(d), ~Schedule(d)
        PROVE  UNCHANGED <<rows, now>>
    BY <2>4 DEF DeletionStep, Authorize, ReadUser, LockUser, AbortDeletion
  <2>5. ASSUME NEW d \in Deletions, JobStep(d) \/ Requeue(d), ~Anonymize(d)
        PROVE  UNCHANGED <<rows, now>>
    BY <2>5 DEF JobStep, SkipSettled, JobFails, Requeue
  <2>6. CASE UNCHANGED vars
    BY <2>6, RestStutters DEF vars
  <2> QED
    BY <1>2, <1>3, <1>4, <1>5, <2>1, <2>2, <2>3, <2>4, <2>5, <2>6, RestStutters
    DEF Next, Promise!Next
<1> QED
  BY <1>1, <1>6, Invariant, PTL DEF Spec, PromiseIsKept, Promise!Spec
=============================================================================
