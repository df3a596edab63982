------------------------ MODULE MediaIngestionProofs ------------------------
(***************************************************************************)
(* Theorems about MediaIngestion, for every set of requests, every timing   *)
(* that satisfies TimingAssumption and every number of PUT attempts.        *)
(*                                                                          *)
(* None of the safety properties is inductive.  IInv strengthens them with  *)
(* what ties the four kinds of state together: what a row's status says of  *)
(* its other columns (RowShape), what a request at an await may assume of   *)
(* the row (UploadAt, CleanupAt), what a transaction still in flight may    *)
(* still do (TxOK, SentBy), and when an abandoned PUT can land (Timing).      *)
(***************************************************************************)
EXTENDS MediaIngestion, TLAPS

-----------------------------------------------------------------------------
(* The inductive invariant.                                                 *)

UploadFailure == {"PROCESSING_FAILED", "DATABASE_WRITE_FAILED",
                  "STORAGE_WRITE_FAILED"}

Gone == puts = {} /\ row.key \notin stored

UploadRow(s) == row.status = s /\ row.token \in Uploads
                /\ row.print = Fingerprint[row.token]
                /\ ~row.marked /\ row.absentAt = NoTime

CleanupRow(s) == row.status = s /\ row.token \in Workers
                 /\ row.print \in Payloads
                 /\ row.marked /\ row.key # None

\* What each status says of the other columns of the row.
RowShape ==
  \/ row = NoRow
  \/ UploadRow("processing") /\ row.code = "NONE"
       /\ row.key \in {None, row.token}
  \/ UploadRow("completed") /\ row.code = "NONE" /\ row.key = row.token
  \/ UploadRow("rejected") /\ row.code = "REJECTED"
  \/ UploadRow("failed") /\ row.code \in UploadFailure
       /\ row.key \in {None, row.token}
  \/ CleanupRow("cleanup_required") /\ row.code \in CleanupCode
  \/ CleanupRow("processing") /\ row.code = "OBJECT_CLEANUP_IN_PROGRESS"
       /\ row.token \in Cleanups
  \/ CleanupRow("failed") /\ row.code = "OBJECT_CLEANED"
       /\ row.token \in Cleanups

\* What an upload request at an await knows of the row.
UploadAt(u) ==
  /\ pc[u] = "start" => row.token # u /\ \A t \in inflight : t.by # u
  /\ pc[u] \in {"validate", "reject", "reserve", "put", "finalize",
                "reread_error", "own", "compensate", "record"} => Owns(u)
  /\ pc[u] \in {"put", "finalize", "reread_error", "own", "compensate"} =>
       row.key = u
  /\ pc[u] \in {"finalize", "reread_error"} => u \in stored
  /\ pc[u] = "reread_lost" =>
       row.token = u /\ row.status \in {"processing", "completed"}
  /\ pc[u] = "replay" => row.status = "completed" /\ row.print = Fingerprint[u]
  /\ pc[u] = "record" =>
       \/ verdict[u].status = "failed" /\ verdict[u].code \in UploadFailure
       \/ /\ verdict[u].status = "cleanup_required"
          /\ verdict[u].code \in CleanupCode
          /\ row.key # None

CleanupWorking == {"check", "head", "delete", "verify", "decide", "defer",
                   "complete", "fail"}

\* What a cleanup request at an await knows of the row and of the object.
CleanupAt(c) ==
  /\ pc[c] = "start" => row.token # c /\ \A t \in inflight : t.by # c
  /\ pc[c] \in CleanupWorking => Owns(c) /\ view[c].absent = row.absentAt
  /\ pc[c] = "decide" =>
       /\ view[c].seen <= now /\ now <= view[c].seen + OpTimeout
       /\ (/\ view[c].absent # NoTime
           /\ view[c].seen > view[c].absent + PutLatency) => Gone
  /\ pc[c] = "complete" => Gone

\* Every abandoned PUT was issued before the instant t.
IssuedBefore(t) == t <= now /\ \A p \in puts : p.until <= t + PutLatency

\* A transaction that closes a row: the codes and times each status takes.
CloseOK(t) ==
  \/ /\ t.by \in Uploads /\ t.at = KeepTime
     /\ \/ t.status = "rejected" /\ t.code = "REJECTED"
        \/ t.status = "failed" /\ t.code \in UploadFailure
        \/ /\ t.status = "cleanup_required" /\ t.code \in CleanupCode
           /\ row.key # None
  \/ /\ t.by \in Cleanups /\ row.marked
     /\ \/ /\ t.status = "cleanup_required"
           /\ t.code = "OBJECT_CLEANUP_REQUIRED" /\ t.at = NoTime
        \/ /\ t.status = "cleanup_required"
           /\ t.code = "OBJECT_CLEANUP_SETTLING"
           /\ t.at \in Nat /\ IssuedBefore(t.at)
        \/ /\ t.status = "failed" /\ t.code = "OBJECT_CLEANED"
           /\ t.at = KeepTime /\ Gone

\* What a transaction of the service is, and what holds of the row and of the
\* object at the moment it applies.
TxOK(t) ==
  \/ t.by \in Uploads /\ t = ClaimTx(t.by)
  \/ t.by \in Cleanups /\ t = ClaimCleanupTx(t.by)
  \/ t.by \in Uploads /\ t = ReserveTx(t.by)
  \/ /\ t.by \in Uploads /\ t = FinalizeTx(t.by)
     /\ Owns(t.by) => row.key = t.by /\ t.by \in stored
  \/ t.op = "close" /\ CloseOK(t)

\* Where the request that sent a transaction still in flight can be.  While
\* its claim is in flight a request has sent nothing else.
SentBy(t) ==
  /\ t.op \in {"claim", "claim_cleanup"} =>
       /\ row.token # t.by
       /\ pc[t.by] \in {"claim_reread", "cleanup_reread", "done"}
       /\ \A s \in inflight : s.by = t.by => s = t
  /\ t.op = "reserve" => pc[t.by] \in {"record", "done"}
  /\ t.op = "finalize" => pc[t.by] \in {"reread_lost", "replay", "done"}
  /\ t.op = "close" => pc[t.by] \in {"reject_reread", "confirm", "done"}

Timing ==
  /\ \A p \in puts : now <= p.until /\ p.until <= now + PutLatency
  /\ row.absentAt # NoTime => IssuedBefore(row.absentAt)

\* The part of the invariant that speaks of no request.
TableInv ==
  /\ RowShape
  /\ CompletedIsStored
  /\ ObjectsAreTracked
  /\ CleanedIsGone
  /\ Timing

IInv ==
  /\ TypeOK
  /\ TableInv
  /\ \A u \in Uploads : UploadAt(u)
  /\ \A c \in Cleanups : CleanupAt(c)
  /\ \A t \in inflight : TxOK(t) /\ SentBy(t)
  /\ RepliesAreTrue

-----------------------------------------------------------------------------
(* What every step leaves to the requests that do not take it.              *)

RowStable(w) ==
  /\ \A v \in Workers \ {w} : /\ Owns(v) => row' = row
                              /\ row.token # v => row'.token # v
                              /\ Owns(v)' => Owns(v)
  /\ row.key # None => row'.key = row.key
  /\ row.marked => row'.marked
  /\ row.status \in {"completed", "rejected"} => row' = row
  /\ row.code = "OBJECT_CLEANED" => row' = row

StoreStable(w) ==
  /\ \A v \in Uploads \ {w} : Owns(v) /\ v \in stored => v \in stored'
  /\ row.marked => puts' \subseteq puts /\ (Gone => Gone')
  /\ now' = now

OnlyMoves(w) ==
  /\ \A v \in Workers \ {w} : pc'[v] = pc[v] /\ reply'[v] = reply[v]
  /\ \A v \in Uploads \ {w} : verdict'[v] = verdict[v]
  /\ \A v \in Cleanups \ {w} : view'[v] = view[v]
  /\ \A t \in inflight' : t \in inflight \/ t.by = w

\* What a step must establish for the request that takes it.
OwnPart(w) ==
  /\ w \in Uploads => UploadAt(w)
  /\ w \in Cleanups => CleanupAt(w)
  /\ \A t \in inflight : t.by = w => TxOK(t) /\ SentBy(t)
  /\ w \in Uploads =>
       /\ reply[w] = "success" =>
            row.status = "completed" /\ row.print = Fingerprint[w]
       /\ reply[w] = "rejected" => row.status = "rejected"
  /\ w \in Cleanups => (reply[w] = "cleaned" => row.code = "OBJECT_CLEANED")

-----------------------------------------------------------------------------
(* Facts about one transaction.                                             *)

\* A fenced write closes the row to everyone else: what the other requests and
\* the clients may rely on when a transaction commits.
LEMMA CommitIsFenced ==
  ASSUME TypeOK, TableInv, NEW t \in Tx, TxOK(t), Commit(t)
  PROVE  RowStable(t.by)
  <1> USE RequestsAssumption DEF TypeOK, Row, Tx, Workers, Owns, TableInv,
        RowShape, UploadRow, CleanupRow, NoRow, CleanupCode, UploadFailure, RowStable
  <1>1. CASE CommitClaim(t)
    BY <1>1 DEF CommitClaim, MayClaim, TxOK, ClaimTx, ReserveTx, ClaimCleanupTx, FinalizeTx
  <1>2. CASE CommitClaimCleanup(t)
    BY <1>2 DEF CommitClaimCleanup, MayClaimCleanup, TxOK, ClaimTx, ReserveTx, ClaimCleanupTx, FinalizeTx
  <1>3. CASE CommitReserve(t)
    BY <1>3 DEF CommitReserve, TxOK, ClaimTx, ReserveTx, ClaimCleanupTx, FinalizeTx
  <1>4. CASE CommitFinalize(t)
    BY <1>4 DEF CommitFinalize
  <1>5. CASE CommitClose(t)
    BY <1>5 DEF CommitClose
  <1>6. QED BY <1>1, <1>2, <1>3, <1>4, <1>5 DEF Commit

\* The kind of a transaction tells who sent it and what may be assumed.
LEMMA TxKind ==
  ASSUME NEW t \in Tx, TxOK(t)
  PROVE  /\ t.op \in {"claim", "reserve", "finalize"} => t.by \in Uploads
         /\ t.op = "claim_cleanup" => t.by \in Cleanups
         /\ t.op = "finalize" /\ Owns(t.by) =>
              row.key = t.by /\ t.by \in stored
         /\ t.op = "close" =>
              \/ t.by \in Uploads /\ t.at = KeepTime
              \/ t.by \in Cleanups /\ row.marked
  BY DEF TxOK, CloseOK, ClaimTx, ReserveTx, ClaimCleanupTx, FinalizeTx

\* A committed transaction leaves a table the invariant allows.
LEMMA CommitKeepsTable ==
  ASSUME TypeOK, TableInv, NEW t \in Tx, TxOK(t), Commit(t),
         UNCHANGED <<stored, puts, now>>
  PROVE  row' \in Row /\ media' \subseteq Uploads /\ TableInv'
  <1>1. /\ row \in Row /\ media \subseteq Uploads /\ now \in Nat
        /\ puts \subseteq Put /\ stored \subseteq Uploads
        /\ RowShape /\ CompletedIsStored /\ ObjectsAreTracked
        /\ CleanedIsGone /\ Timing
    BY DEF TypeOK, TableInv
  <1>2. CASE CommitClaim(t)
    <2> USE <1>1, <1>2, RequestsAssumption DEF CommitClaim, MayClaim, Workers, Row, Tx
    <2>0. t.by \in Uploads
      BY TxKind
    <2> USE <2>0
    <2>1. row' \in Row /\ media' \subseteq Uploads
      BY DEF Status, FailureCode, NoTime, KeepTime, CleanupCode, UploadFailure
    <2>2. RowShape'
      BY DEF RowShape, UploadRow, CleanupRow, NoRow, CleanupCode, UploadFailure, NoTime, KeepTime
    <2>3. CompletedIsStored'
      BY DEF CompletedIsStored, RowShape, UploadRow, CleanupRow, NoRow, CleanupCode, UploadFailure
    <2>4. ObjectsAreTracked'
      BY DEF ObjectsAreTracked, Put, RowShape, UploadRow, CleanupRow, NoRow, CleanupCode, UploadFailure
    <2>5. CleanedIsGone'
      BY DEF CleanedIsGone, Gone, RowShape, UploadRow, CleanupRow, NoRow, CleanupCode, UploadFailure
    <2>6. Timing'
      BY DEF Timing, IssuedBefore, NoTime, KeepTime, RowShape, UploadRow, CleanupRow, NoRow, CleanupCode, UploadFailure
    <2>7. QED BY <2>1, <2>2, <2>3, <2>4, <2>5, <2>6 DEF TableInv
  <1>3. CASE CommitClaimCleanup(t)
    <2> USE <1>1, <1>3, RequestsAssumption DEF CommitClaimCleanup, MayClaimCleanup, Workers, Row, Tx
    <2>0. t.by \in Cleanups
      BY TxKind
    <2> USE <2>0
    <2>1. row' \in Row /\ media' \subseteq Uploads
      BY DEF Status, FailureCode, NoTime, KeepTime, CleanupCode, UploadFailure
    <2>2. RowShape'
      BY DEF RowShape, UploadRow, CleanupRow, NoRow, CleanupCode, UploadFailure, NoTime, KeepTime
    <2>3. CompletedIsStored'
      BY DEF CompletedIsStored, RowShape, UploadRow, CleanupRow, NoRow, CleanupCode, UploadFailure
    <2>4. ObjectsAreTracked'
      BY DEF ObjectsAreTracked, Put, RowShape, UploadRow, CleanupRow, NoRow, CleanupCode, UploadFailure
    <2>5. CleanedIsGone'
      BY DEF CleanedIsGone, Gone, RowShape, UploadRow, CleanupRow, NoRow, CleanupCode, UploadFailure
    <2>6. Timing'
      BY DEF Timing, IssuedBefore, NoTime, KeepTime, RowShape, UploadRow, CleanupRow, NoRow, CleanupCode, UploadFailure
    <2>7. QED BY <2>1, <2>2, <2>3, <2>4, <2>5, <2>6 DEF TableInv
  <1>4. CASE CommitReserve(t)
    <2> USE <1>1, <1>4, RequestsAssumption DEF CommitReserve, Owns, Workers, Row, Tx
    <2>0. t.by \in Uploads
      BY TxKind
    <2> USE <2>0
    <2>1. row' \in Row /\ media' \subseteq Uploads
      BY DEF Status, FailureCode, NoTime, KeepTime, CleanupCode, UploadFailure
    <2>2. RowShape'
      BY DEF RowShape, UploadRow, CleanupRow, NoRow, CleanupCode, UploadFailure, NoTime, KeepTime
    <2>3. CompletedIsStored'
      BY DEF CompletedIsStored, RowShape, UploadRow, CleanupRow, NoRow, CleanupCode, UploadFailure
    <2>4. ObjectsAreTracked'
      BY DEF ObjectsAreTracked, Put, RowShape, UploadRow, CleanupRow, NoRow, CleanupCode, UploadFailure
    <2>5. CleanedIsGone'
      BY DEF CleanedIsGone, Gone, RowShape, UploadRow, CleanupRow, NoRow, CleanupCode, UploadFailure
    <2>6. Timing'
      BY DEF Timing, IssuedBefore, NoTime, KeepTime, RowShape, UploadRow, CleanupRow, NoRow, CleanupCode, UploadFailure
    <2>7. QED BY <2>1, <2>2, <2>3, <2>4, <2>5, <2>6 DEF TableInv
  <1>5. CASE CommitFinalize(t)
    <2> USE <1>1, <1>5, RequestsAssumption DEF CommitFinalize, Owns, Workers, Row, Tx
    <2>0. t.by \in Uploads
      BY TxKind
    <2> USE <2>0
    <2>1. row' \in Row /\ media' \subseteq Uploads
      BY DEF Status, FailureCode, NoTime, KeepTime, CleanupCode, UploadFailure
    <2>2. RowShape'
      BY TxKind DEF RowShape, UploadRow, CleanupRow, NoRow, CleanupCode, UploadFailure, NoTime, KeepTime
    <2>3. CompletedIsStored'
      BY TxKind DEF CompletedIsStored, RowShape, UploadRow, CleanupRow, NoRow, CleanupCode, UploadFailure
    <2>4. ObjectsAreTracked'
      BY DEF ObjectsAreTracked, Put, RowShape, UploadRow, CleanupRow, NoRow, CleanupCode, UploadFailure
    <2>5. CleanedIsGone'
      BY DEF CleanedIsGone, Gone, RowShape, UploadRow, CleanupRow, NoRow, CleanupCode, UploadFailure
    <2>6. Timing'
      BY DEF Timing, IssuedBefore, NoTime, KeepTime, RowShape, UploadRow, CleanupRow, NoRow, CleanupCode, UploadFailure
    <2>7. QED BY <2>1, <2>2, <2>3, <2>4, <2>5, <2>6 DEF TableInv
  <1>6. CASE CommitClose(t)
    <2> USE <1>1, <1>6, RequestsAssumption DEF CommitClose, Owns, Workers, Row, Tx
    <2>0. CloseOK(t)
      BY DEF TxOK, ClaimTx, ReserveTx, ClaimCleanupTx, FinalizeTx
    <2> USE <2>0 DEF CloseOK
    <2>a. t.at \in Nat \cup {NoTime, KeepTime} /\ t.status \in Status
          /\ t.code \in FailureCode
      OBVIOUS
    <2>b. row.absentAt \in Nat \cup {NoTime} /\ row.marked \in BOOLEAN
      OBVIOUS
    <2>1. row' \in Row /\ media' \subseteq Uploads
      BY <2>a, <2>b
    <2>2. RowShape'
      <3>1. CASE t.by \in Uploads
        <4> USE <3>1
        <4>1. UploadRow("processing") /\ row.key \in {None, row.token}
          BY DEF RowShape, UploadRow, CleanupRow, NoRow
        <4>2. t.at = KeepTime /\ row'.absentAt = NoTime
          BY <4>1 DEF UploadRow, KeepTime
        <4>3. CASE t.status = "rejected"
          BY <4>1, <4>2, <4>3 DEF RowShape, UploadRow, UploadFailure
        <4>4. CASE t.status = "failed"
          BY <4>1, <4>2, <4>4 DEF RowShape, UploadRow, UploadFailure
        <4>5. CASE t.status = "cleanup_required"
          BY <4>1, <4>5 DEF RowShape, UploadRow, CleanupRow
        <4>6. QED BY <4>3, <4>4, <4>5
      <3>2. CASE t.by \in Cleanups
        BY <3>2 DEF RowShape, UploadRow, CleanupRow, NoRow, CleanupCode, UploadFailure, NoTime, KeepTime
      <3>3. QED BY <3>1, <3>2
    <2>3. CompletedIsStored'
      BY DEF CompletedIsStored, RowShape, UploadRow, CleanupRow, NoRow, CleanupCode, UploadFailure
    <2>4. ObjectsAreTracked'
      BY DEF ObjectsAreTracked, Put, RowShape, UploadRow, CleanupRow, NoRow, CleanupCode, UploadFailure
    <2>5. CleanedIsGone'
      BY DEF CleanedIsGone, Gone, RowShape, UploadRow, CleanupRow, NoRow, CleanupCode, UploadFailure
    <2>6. Timing'
      BY DEF Timing, IssuedBefore, NoTime, KeepTime, RowShape, UploadRow, CleanupRow, NoRow, CleanupCode, UploadFailure
    <2>7. QED BY <2>1, <2>2, <2>3, <2>4, <2>5, <2>6 DEF TableInv
  <1>7. QED BY <1>2, <1>3, <1>4, <1>5, <1>6 DEF Commit

\* Steps keep the invariant when they keep the table, disturb nobody else and
\* establish their own part.
LEMMA StepKeeps ==
  ASSUME IInv, TypeOK', TableInv', NEW w \in Workers,
         RowStable(w), StoreStable(w), OnlyMoves(w), OwnPart(w)'
  PROVE  IInv'
  <1> USE RequestsAssumption DEF Workers
  <1>1. \A c \in Cleanups : Owns(c) => row.marked
    BY DEF IInv, TableInv, RowShape, UploadRow, CleanupRow, NoRow, Owns
  <1>2. ASSUME NEW u \in Uploads  PROVE UploadAt(u)'
    <2>1. CASE u = w
      BY <2>1 DEF OwnPart
    <2>2. CASE u # w
      BY <2>2 DEF IInv, UploadAt, RowStable, StoreStable, OnlyMoves, Owns
    <2>3. QED BY <2>1, <2>2
  <1>3. ASSUME NEW c \in Cleanups  PROVE CleanupAt(c)'
    <2>1. CASE c = w
      BY <2>1 DEF OwnPart
    <2>2. CASE c # w
      <3>1. CleanupAt(c) /\ (pc[c] \in CleanupWorking => Owns(c) /\ row' = row /\ row.marked)
        BY <1>1, <2>2 DEF IInv, CleanupAt, RowStable
      <3>2. pc'[c] = pc[c] /\ view'[c] = view[c] /\ now' = now
        BY <2>2 DEF OnlyMoves, StoreStable
      <3>3. row.marked => (Gone => Gone')
        BY DEF StoreStable
      <3>4. pc[c] = "start" => row'.token # c /\ \A t \in inflight' : t.by # c
        BY <2>2, <3>1 DEF CleanupAt, RowStable, OnlyMoves
      <3>5. QED
        BY <3>1, <3>2, <3>3, <3>4 DEF CleanupAt, CleanupWorking, Owns
    <2>3. QED BY <2>1, <2>2
  <1>4. ASSUME NEW t \in inflight'  PROVE TxOK(t)' /\ SentBy(t)'
    <2>1. CASE t.by = w
      BY <2>1 DEF OwnPart
    <2>2. CASE t.by # w
      <3>1. t \in inflight /\ TxOK(t) /\ SentBy(t) /\ t.by \in Workers
        BY <2>2 DEF OnlyMoves, IInv, TypeOK, Tx
      <3>2. /\ row.token # t.by => row'.token # t.by
            /\ Owns(t.by)' => Owns(t.by) /\ row' = row
            /\ row.key # None => row'.key # None
            /\ row.marked => row'.marked
            /\ pc'[t.by] = pc[t.by]
        BY <2>2, <3>1 DEF RowStable, OnlyMoves
      <3>3. row.marked /\ Gone => Gone'
        BY DEF StoreStable
      <3>4. ASSUME NEW i \in Nat, row.marked, IssuedBefore(i)
            PROVE  IssuedBefore(i)'
        BY <3>4 DEF IssuedBefore, StoreStable
      <3>5. t.op = "close" /\ CloseOK(t) => CloseOK(t)'
        BY <3>2, <3>3, <3>4 DEF CloseOK
      <3>6. TxOK(t)'
        BY <3>1, <3>2, <3>5, <2>2 DEF TxOK, StoreStable
      <3>7. SentBy(t)'
        BY <3>1, <3>2, <2>2 DEF SentBy, OnlyMoves
      <3>8. QED BY <3>6, <3>7
    <2>3. QED BY <2>1, <2>2
  <1>5. RepliesAreTrue'
    BY DEF IInv, RepliesAreTrue, OnlyMoves, RowStable, OwnPart
  <1>6. QED BY <1>2, <1>3, <1>4, <1>5 DEF IInv

\* A step that commits t, and leaves storage and the clock alone.
LEMMA CommitIsStable ==
  ASSUME TypeOK, TableInv, NEW t \in Tx, TxOK(t), Commit(t),
         UNCHANGED <<stored, puts, now>>
  PROVE  RowStable(t.by) /\ StoreStable(t.by) /\ TableInv'
         /\ row' \in Row /\ media' \subseteq Uploads
  <1>1. RowStable(t.by) /\ TableInv' /\ row' \in Row /\ media' \subseteq Uploads
    BY CommitIsFenced, CommitKeepsTable
  <1>2. row.marked => row.key # None
    BY RequestsAssumption DEF TableInv, RowShape, UploadRow, CleanupRow, NoRow
  <1>3. StoreStable(t.by)
    BY <1>1, <1>2 DEF StoreStable, RowStable, Gone
  <1>4. QED BY <1>1, <1>3

\* A step that writes no row and touches no object.
LEMMA QuietIsStable ==
  ASSUME TableInv, NEW w \in Workers, UNCHANGED <<row, media, stored, puts, now>>
  PROVE  RowStable(w) /\ StoreStable(w) /\ TableInv'
  <1>1. RowStable(w) /\ StoreStable(w)
    BY DEF RowStable, StoreStable, Owns, Gone
  <1>2. TableInv'
    BY DEF TableInv, RowShape, UploadRow, CleanupRow, CompletedIsStored,
           ObjectsAreTracked, CleanedIsGone, Timing, IssuedBefore
  <1>3. QED BY <1>1, <1>2

-----------------------------------------------------------------------------
(* Steps that write no row and touch no object.                             *)

\* A request that moves from one await to the next, or answers, keeps the
\* types and disturbs nobody.
LEMMA UploadMoves ==
  ASSUME TypeOK, NEW u \in Uploads, NEW l \in UploadPc,
         \/ Goto(u, l)
         \/ l = "done" /\ \E r \in Reply : Answer(u, r)
  PROVE  /\ pc' \in [Workers -> UploadPc \cup CleanupPc]
         /\ \A v \in Uploads : pc'[v] \in UploadPc
         /\ \A c \in Cleanups : pc'[c] \in CleanupPc
         /\ reply' \in [Workers -> Reply]
         /\ pc'[u] = l
         /\ \A v \in Workers \ {u} : pc'[v] = pc[v] /\ reply'[v] = reply[v]
  <1> USE RequestsAssumption DEF TypeOK, Workers
  <1>1. CASE Goto(u, l)
    BY <1>1 DEF Goto
  <1>2. CASE l = "done" /\ \E r \in Reply : Answer(u, r)
    BY <1>2 DEF Answer
  <1>3. QED BY <1>1, <1>2

\* The same for a cleanup request.
LEMMA CleanupMoves ==
  ASSUME TypeOK, NEW c \in Cleanups, NEW l \in CleanupPc,
         \/ Goto(c, l)
         \/ l = "done" /\ \E r \in Reply : Answer(c, r)
  PROVE  /\ pc' \in [Workers -> UploadPc \cup CleanupPc]
         /\ \A v \in Uploads : pc'[v] \in UploadPc
         /\ \A d \in Cleanups : pc'[d] \in CleanupPc
         /\ reply' \in [Workers -> Reply]
         /\ pc'[c] = l
         /\ \A v \in Workers \ {c} : pc'[v] = pc[v] /\ reply'[v] = reply[v]
  <1> USE RequestsAssumption DEF TypeOK, Workers
  <1>1. CASE Goto(c, l)
    BY <1>1 DEF Goto
  <1>2. CASE l = "done" /\ \E r \in Reply : Answer(c, r)
    BY <1>2 DEF Answer
  <1>3. QED BY <1>1, <1>2

\* A quiet upload step keeps the invariant when what it leaves behind, at its
\* next await and in flight, is what the invariant says of it.
LEMMA UploadQuiet ==
  ASSUME IInv, NEW u \in Uploads, NEW l \in UploadPc,
         \/ Goto(u, l)
         \/ l = "done" /\ \E r \in Reply : Answer(u, r),
         UNCHANGED <<row, media, stored, puts, now, view>>,
         verdict' \in [Uploads -> [status : {"failed", "cleanup_required"},
                                   code : FailureCode]],
         \A v \in Uploads \ {u} : verdict'[v] = verdict[v],
         inflight' \subseteq Tx,
         \A t \in inflight' : t \in inflight \/ t.by = u,
         \A t \in inflight' : t.by = u => TxOK(t) /\ SentBy(t)',
         UploadAt(u)',
         reply'[u] = "success" => row.status = "completed" /\ row.print = Fingerprint[u],
         reply'[u] = "rejected" => row.status = "rejected"
  PROVE  IInv'
  <1>1. u \in Workers /\ TypeOK /\ TableInv
    BY DEF IInv, Workers
  <1>2. RowStable(u) /\ StoreStable(u) /\ TableInv'
    BY <1>1, QuietIsStable
  <1>3. TypeOK' /\ OnlyMoves(u)
    BY <1>1, UploadMoves DEF TypeOK, OnlyMoves
  <1>4. ASSUME NEW t \in inflight', TxOK(t)  PROVE TxOK(t)'
    BY <1>4 DEF TxOK, CloseOK, Owns, Gone, IssuedBefore
  <1>5. OwnPart(u)'
    BY <1>4, RequestsAssumption DEF OwnPart
  <1>6. QED BY <1>1, <1>2, <1>3, <1>5, StepKeeps

\* The same for a cleanup request.
LEMMA CleanupQuiet ==
  ASSUME IInv, NEW c \in Cleanups, NEW l \in CleanupPc,
         \/ Goto(c, l)
         \/ l = "done" /\ \E r \in Reply : Answer(c, r),
         UNCHANGED <<row, media, stored, puts, now, verdict>>,
         view' \in [Cleanups -> [absent : Nat \cup {NoTime}, present : BOOLEAN,
                                 seen : Nat]],
         \A d \in Cleanups \ {c} : view'[d] = view[d],
         inflight' \subseteq Tx,
         \A t \in inflight' : t \in inflight \/ t.by = c,
         \A t \in inflight' : t.by = c => TxOK(t) /\ SentBy(t)',
         CleanupAt(c)',
         reply'[c] = "cleaned" => row.code = "OBJECT_CLEANED"
  PROVE  IInv'
  <1>1. c \in Workers /\ TypeOK /\ TableInv
    BY DEF IInv, Workers
  <1>2. RowStable(c) /\ StoreStable(c) /\ TableInv'
    BY <1>1, QuietIsStable
  <1>3. TypeOK' /\ OnlyMoves(c)
    BY <1>1, CleanupMoves DEF TypeOK, OnlyMoves
  <1>4. ASSUME NEW t \in inflight', TxOK(t)  PROVE TxOK(t)'
    BY <1>4 DEF TxOK, CloseOK, Owns, Gone, IssuedBefore
  <1>5. OwnPart(c)'
    BY <1>4, RequestsAssumption DEF OwnPart
  <1>6. QED BY <1>1, <1>2, <1>3, <1>5, StepKeeps

\* A commit of an upload request keeps the invariant when what it leaves
\* behind is what the invariant says of it.
LEMMA UploadCommit ==
  ASSUME IInv, NEW u \in Uploads, NEW t \in Tx, t.by = u, TxOK(t), Acked(t),
         NEW l \in UploadPc,
         \/ Goto(u, l)
         \/ l = "done" /\ \E r \in Reply : Answer(u, r),
         UNCHANGED <<stored, puts, now, local>>,
         \A s \in inflight : s.by = u => TxOK(s)' /\ SentBy(s)',
         UploadAt(u)',
         reply'[u] = "success" => (row.status = "completed" /\ row.print = Fingerprint[u])',
         reply'[u] = "rejected" => row'.status = "rejected"
  PROVE  IInv'
  <1>1. u \in Workers /\ TypeOK /\ TableInv /\ Commit(t) /\ inflight' = inflight
        /\ verdict' = verdict /\ view' = view
    BY DEF IInv, Workers, Acked, local
  <1>2. RowStable(u) /\ StoreStable(u) /\ TableInv'
        /\ row' \in Row /\ media' \subseteq Uploads
    BY <1>1, CommitIsStable
  <1>3. TypeOK' /\ OnlyMoves(u)
    BY <1>1, <1>2, UploadMoves DEF TypeOK, OnlyMoves
  <1>4. OwnPart(u)'
    BY <1>1, RequestsAssumption DEF OwnPart
  <1>5. QED BY <1>1, <1>2, <1>3, <1>4, StepKeeps

\* The same for a cleanup request.
LEMMA CleanupCommit ==
  ASSUME IInv, NEW c \in Cleanups, NEW t \in Tx, t.by = c, TxOK(t), Acked(t),
         NEW l \in CleanupPc,
         \/ Goto(c, l)
         \/ l = "done" /\ \E r \in Reply : Answer(c, r),
         UNCHANGED <<stored, puts, now, verdict>>,
         view' \in [Cleanups -> [absent : Nat \cup {NoTime}, present : BOOLEAN,
                                 seen : Nat]],
         \A d \in Cleanups \ {c} : view'[d] = view[d],
         \A s \in inflight : s.by = c => TxOK(s)' /\ SentBy(s)',
         CleanupAt(c)',
         reply'[c] = "cleaned" => row'.code = "OBJECT_CLEANED"
  PROVE  IInv'
  <1>1. c \in Workers /\ TypeOK /\ TableInv /\ Commit(t) /\ inflight' = inflight
    BY DEF IInv, Workers, Acked
  <1>2. RowStable(c) /\ StoreStable(c) /\ TableInv'
        /\ row' \in Row /\ media' \subseteq Uploads
    BY <1>1, CommitIsStable
  <1>3. TypeOK' /\ OnlyMoves(c)
    BY <1>1, <1>2, CleanupMoves DEF TypeOK, OnlyMoves
  <1>4. OwnPart(c)'
    BY <1>1, RequestsAssumption DEF OwnPart
  <1>5. QED BY <1>1, <1>2, <1>3, <1>4, StepKeeps

\* A request has nothing in flight at the awaits that follow an acknowledged
\* transaction.
LEMMA NothingInFlight ==
  ASSUME IInv, NEW w \in Workers,
         pc[w] \notin {"claim_reread", "cleanup_reread", "record", "reread_lost",
                       "replay", "reject_reread", "confirm", "done"}
  PROVE  \A t \in inflight : t.by # w
  BY DEF IInv, TxOK, SentBy, ClaimTx, ClaimCleanupTx, ReserveTx, FinalizeTx

\* The transactions a request sends are the transactions of the type.
LEMMA TxTypes ==
  /\ \A u \in Uploads : /\ ClaimTx(u) \in Tx /\ ReserveTx(u) \in Tx
                        /\ FinalizeTx(u) \in Tx
  /\ \A c \in Cleanups : ClaimCleanupTx(c) \in Tx
  /\ \A w \in Workers, s \in Status, f \in FailureCode,
        a \in Nat \cup {NoTime, KeepTime} : CloseTx(w, s, f, a) \in Tx
  BY DEF ClaimTx, ReserveTx, FinalizeTx, ClaimCleanupTx, CloseTx, Tx, Workers,
         Status, FailureCode, CleanupCode, KeepTime, NoTime

\* Where a request is after a move.
LEMMA MovedTo ==
  ASSUME TypeOK, NEW w \in Workers, NEW l, NEW r
  PROVE  /\ Goto(w, l) => pc'[w] = l /\ reply'[w] = reply[w]
         /\ Answer(w, r) => pc'[w] = "done" /\ reply'[w] = r
  BY DEF Goto, Answer, TypeOK

-----------------------------------------------------------------------------
(* The steps of an upload request.                                          *)

\* Claim: the row that is taken over had no key, no mark and no owner.
LEMMA ClaimKeeps ==
  ASSUME IInv, NEW u \in Uploads, Claim(u)
  PROVE  IInv'
  <1> DEFINE t == ClaimTx(u)
  <1>1. u \in Workers /\ TypeOK /\ UploadAt(u) /\ pc[u] = "start"
        /\ UNCHANGED <<stored, puts, now, verdict, view, local>>
        /\ (reply[u] = "success" => row.status = "completed" /\ row.print = Fingerprint[u])
        /\ (reply[u] = "rejected" => row.status = "rejected")
    BY DEF IInv, Claim, Workers, storage, local, RepliesAreTrue
  <1>2. row.token # u /\ \A s \in inflight : s.by # u
    BY <1>1 DEF UploadAt
  <1>3. t \in Tx /\ t.by = u /\ t.op = "claim" /\ TxOK(t)
    BY TxTypes DEF TxOK, ClaimTx
  <1>4. CASE Acked(t) /\ Goto(u, "validate")
    <2>1. pc'[u] = "validate" /\ reply'[u] = reply[u]
      BY <1>1, <1>4, MovedTo
    <2>2. MayClaim(u) /\ row' = [row EXCEPT !.status = "processing", !.token = u,
                        !.code = "NONE", !.print = Fingerprint[u]]
      BY <1>3, <1>4 DEF Acked, Commit, CommitClaim, CommitClaimCleanup, CommitReserve,
                        CommitFinalize, CommitClose
    <2>3. UploadAt(u)'
      BY <1>1, <2>1, <2>2 DEF UploadAt, Owns, TypeOK, Row
    <2>4. "validate" \in UploadPc
      BY DEF UploadPc
    <2>5. QED BY <1>1, <1>2, <1>3, <1>4, <2>1, <2>2, <2>3, <2>4, UploadCommit DEF MayClaim
  <1>5. CASE row.status = "completed" /\ row.print = Fingerprint[u]
             /\ Goto(u, "replay") /\ UNCHANGED db
    <2>1. pc'[u] = "replay" /\ reply'[u] = reply[u]
      BY <1>1, <1>5, MovedTo
    <2>2. UploadAt(u)' /\ UNCHANGED <<row, media, inflight>>
      BY <2>1, <1>5 DEF UploadAt, db
    <2>3. "replay" \in UploadPc
      BY DEF UploadPc
    <2>4. QED BY <1>1, <1>2, <1>5, <2>1, <2>2, <2>3, UploadQuiet DEF TypeOK
  <1>6. CASE UNCHANGED db /\ \/ row.status = "rejected" /\ Answer(u, "rejected")
                             \/ Answer(u, "error")
    <2>1. pc'[u] = "done" /\ (\/ reply'[u] = "error" 
                              \/ reply'[u] = "rejected" /\ row.status = "rejected")
      BY <1>1, <1>6, MovedTo
    <2>2. UploadAt(u)' /\ UNCHANGED <<row, media, inflight>>
      BY <2>1, <1>6 DEF UploadAt, db
    <2>3. "done" \in UploadPc /\ \E r \in Reply : Answer(u, r)
      BY <1>6 DEF UploadPc, Reply
    <2>4. QED BY <1>1, <1>2, <1>6, <2>1, <2>2, <2>3, UploadQuiet DEF TypeOK
  <1>7. CASE Lost(t) /\ Goto(u, "claim_reread")
    <2>1. pc'[u] = "claim_reread" /\ reply'[u] = reply[u]
      BY <1>1, <1>7, MovedTo
    <2>2. UNCHANGED <<row, media>> /\ inflight' = inflight \cup {t}
      BY <1>7 DEF Lost
    <2>3. UploadAt(u)' /\ SentBy(t)'
      BY <2>1, <2>2, <1>2, <1>3 DEF UploadAt, SentBy
    <2>4. "claim_reread" \in UploadPc
      BY DEF UploadPc
    <2>5. QED BY <1>1, <1>2, <1>3, <1>7, <2>1, <2>2, <2>3, <2>4, UploadQuiet DEF TypeOK
  <1>8. QED BY <1>4, <1>5, <1>6, <1>7 DEF Claim

\* ClaimReread: the reread that finds its own token has made the claim.
LEMMA ClaimRereadKeeps ==
  ASSUME IInv, NEW u \in Uploads, ClaimReread(u)
  PROVE  IInv'
  <1>1. TypeOK /\ UploadAt(u)
        /\ \A t \in inflight : t.by = u => TxOK(t) /\ SentBy(t)
    BY DEF IInv
  <1>2. UNCHANGED <<row, media, inflight, stored, puts, now, verdict, view>>
        /\ pc[u] = "claim_reread"
    BY DEF ClaimReread, db, storage, local
  <1>3. PICK l \in {"validate", "done"} :
          /\ l = "validate" => Owns(u) /\ Goto(u, l)
          /\ l = "done" => Answer(u, "error")
    BY DEF ClaimReread
  <1>4. l \in UploadPc /\ (Goto(u, l) \/ (l = "done" /\ \E r \in Reply : Answer(u, r)))
    BY <1>3 DEF UploadPc, Reply
  <1>5. pc'[u] = l /\ reply'[u] \in {reply[u], "error"}
    BY <1>1, <1>3, <1>4 DEF Goto, Answer, TypeOK, Workers
  <1>6. UploadAt(u)'
    BY <1>1, <1>2, <1>3, <1>5 DEF UploadAt, Owns
  <1>7. \A t \in inflight' : t.by = u => SentBy(t)'
    BY <1>1, <1>2, <1>3, <1>5 DEF SentBy, Owns
  <1>8. QED
    BY <1>1, <1>2, <1>4, <1>5, <1>6, <1>7, UploadQuiet DEF TypeOK, IInv, RepliesAreTrue

\* The step that sets the verdict RecordFailure will write.
LEMMA Recorded ==
  ASSUME TypeOK, NEW u \in Uploads, NEW s \in {"failed", "cleanup_required"},
         NEW f \in FailureCode, Record(u, s, f)
  PROVE  /\ verdict' \in [Uploads -> [status : {"failed", "cleanup_required"},
                                      code : FailureCode]]
         /\ \A v \in Uploads \ {u} : verdict'[v] = verdict[v]
         /\ verdict'[u] = [status |-> s, code |-> f]
         /\ view' = view /\ Goto(u, "record")
         /\ pc'[u] = "record" /\ reply'[u] = reply[u]
  BY DEF Record, Goto, TypeOK, Workers

\* What the invariant says of the answer of one upload request.
LEMMA UploadFacts ==
  ASSUME IInv, NEW u \in Uploads
  PROVE  /\ u \in Workers /\ TypeOK /\ TableInv /\ UploadAt(u)
         /\ \A t \in inflight : t.by = u => TxOK(t) /\ SentBy(t)
         /\ reply[u] = "success" =>
              row.status = "completed" /\ row.print = Fingerprint[u]
         /\ reply[u] = "rejected" => row.status = "rejected"
  BY DEF IInv, Workers, RepliesAreTrue

\* Validate: the attempt keeps the row, which has no object yet.
LEMMA ValidateKeeps ==
  ASSUME IInv, NEW u \in Uploads, Validate(u)
  PROVE  IInv'
  <1>1. u \in Workers /\ TypeOK /\ UploadAt(u) /\ pc[u] = "validate" /\ Owns(u)
        /\ UNCHANGED <<row, media, inflight, stored, puts, now>>
        /\ (\A s \in inflight : s.by # u)
        /\ (reply[u] = "success" => row.status = "completed" /\ row.print = Fingerprint[u])
        /\ (reply[u] = "rejected" => row.status = "rejected")
    BY UploadFacts, NothingInFlight DEF Validate, storage, db, UploadAt
  <1>2. ASSUME NEW l \in {"reserve", "reject"}, Goto(u, l), UNCHANGED local
        PROVE  IInv'
    <2>1. pc'[u] = l /\ reply'[u] = reply[u] /\ UNCHANGED <<verdict, view>>
      BY <1>1, <1>2, MovedTo DEF local
    <2>2. UploadAt(u)' /\ l \in UploadPc
      BY <1>1, <2>1 DEF UploadAt, Owns, UploadPc
    <2>3. QED BY <1>1, <1>2, <2>1, <2>2, UploadQuiet DEF TypeOK
  <1>3. CASE Record(u, "failed", "PROCESSING_FAILED")
    <2>1. /\ verdict'[u] = [status |-> "failed", code |-> "PROCESSING_FAILED"]
          /\ verdict' \in [Uploads -> [status : {"failed", "cleanup_required"},
                                      code : FailureCode]]
          /\ \A v \in Uploads \ {u} : verdict'[v] = verdict[v]
          /\ view' = view /\ Goto(u, "record")
          /\ pc'[u] = "record" /\ reply'[u] = reply[u]
      BY <1>1, <1>3, Recorded DEF FailureCode
    <2>2. UploadAt(u)' /\ "record" \in UploadPc
      BY <1>1, <2>1 DEF UploadAt, Owns, UploadPc, UploadFailure
    <2>3. QED BY <1>1, <2>1, <2>2, UploadQuiet DEF TypeOK
  <1>4. QED BY <1>2, <1>3 DEF Validate

\* Reject: the fenced write that closes the row as rejected.
LEMMA RejectKeeps ==
  ASSUME IInv, NEW u \in Uploads, Reject(u)
  PROVE  IInv'
  <1> DEFINE t == CloseTx(u, "rejected", "REJECTED", KeepTime)
  <1>1. u \in Workers /\ TypeOK /\ UploadAt(u) /\ pc[u] = "reject" /\ Owns(u)
        /\ UNCHANGED <<stored, puts, now, verdict, view, local>>
        /\ (\A s \in inflight : s.by # u)
        /\ (reply[u] = "success" => row.status = "completed" /\ row.print = Fingerprint[u])
        /\ (reply[u] = "rejected" => row.status = "rejected")
    BY UploadFacts, NothingInFlight DEF Reject, storage, local, UploadAt
  <1>2. t \in Tx /\ t.by = u /\ t.op = "close" /\ t.status = "rejected" /\ TxOK(t)
    BY <1>1, TxTypes DEF TxOK, CloseOK, CloseTx, Status, FailureCode
  <1>3. CASE Acked(t) /\ Answer(u, "rejected")
    <2>1. pc'[u] = "done" /\ reply'[u] = "rejected"
      BY <1>1, <1>3, MovedTo
    <2>2. row'.status = "rejected" /\ row'.token = row.token
      BY <1>1, <1>2, <1>3 DEF Acked, Commit, CommitClaim, CommitClaimCleanup,
           CommitReserve, CommitFinalize, CommitClose, TypeOK, Row
    <2>3. UploadAt(u)' /\ "done" \in UploadPc /\ \E r \in Reply : Answer(u, r)
      BY <1>3, <2>1 DEF UploadAt, UploadPc, Reply
    <2>4. QED BY <1>1, <1>2, <1>3, <2>1, <2>2, <2>3, UploadCommit
  <1>4. CASE Lost(t) /\ Goto(u, "reject_reread")
    <2>1. pc'[u] = "reject_reread" /\ reply'[u] = reply[u]
      BY <1>1, <1>4, MovedTo
    <2>2. UNCHANGED <<row, media>> /\ inflight' = inflight \cup {t}
      BY <1>4 DEF Lost
    <2>3. UploadAt(u)' /\ SentBy(t)' /\ "reject_reread" \in UploadPc
      BY <2>1, <2>2, <1>1, <1>2 DEF UploadAt, SentBy, UploadPc
    <2>4. QED BY <1>1, <1>2, <1>4, <2>1, <2>2, <2>3, UploadQuiet DEF TypeOK
  <1>5. QED BY <1>1, <1>3, <1>4 DEF Reject

\* RejectReread: a row its own token rejected is the answer.
LEMMA RejectRereadKeeps ==
  ASSUME IInv, NEW u \in Uploads, RejectReread(u)
  PROVE  IInv'
  <1>1. TypeOK /\ u \in Workers /\ pc[u] = "reject_reread"
        /\ (\A t \in inflight : t.by = u => TxOK(t) /\ SentBy(t))
        /\ UNCHANGED <<row, media, inflight, stored, puts, now, verdict, view>>
    BY UploadFacts DEF RejectReread, db, storage, local
  <1>2. pc'[u] = "done" /\ (\/ reply'[u] = "error"
                            \/ reply'[u] = "rejected" /\ row.status = "rejected")
    BY <1>1, MovedTo DEF RejectReread
  <1>3. UploadAt(u)' /\ "done" \in UploadPc /\ \E r \in Reply : Answer(u, r)
    BY <1>2 DEF UploadAt, UploadPc, Reply, RejectReread
  <1>4. \A t \in inflight' : t.by = u => SentBy(t)'
    BY <1>1, <1>2 DEF SentBy
  <1>5. QED BY <1>1, <1>2, <1>3, <1>4, UploadQuiet DEF TypeOK

\* Reserve: the key is in the row before a byte is sent.
LEMMA ReserveKeeps ==
  ASSUME IInv, NEW u \in Uploads, Reserve(u)
  PROVE  IInv'
  <1> DEFINE t == ReserveTx(u)
  <1>1. u \in Workers /\ TypeOK /\ UploadAt(u) /\ pc[u] = "reserve" /\ Owns(u)
        /\ UNCHANGED <<stored, puts, now>>
        /\ (\A s \in inflight : s.by # u)
        /\ (reply[u] = "success" => row.status = "completed" /\ row.print = Fingerprint[u])
        /\ (reply[u] = "rejected" => row.status = "rejected")
    BY UploadFacts, NothingInFlight DEF Reserve, storage, UploadAt
  <1>2. t \in Tx /\ t.by = u /\ t.op = "reserve" /\ TxOK(t)
    BY <1>1, TxTypes DEF TxOK, ReserveTx
  <1>3. CASE Acked(t) /\ Goto(u, "put") /\ UNCHANGED local
    <2>1. pc'[u] = "put" /\ reply'[u] = reply[u]
      BY <1>1, <1>3, MovedTo
    <2>2. row' = [row EXCEPT !.key = u]
      BY <1>1, <1>2, <1>3 DEF Acked, Commit, CommitClaim, CommitClaimCleanup,
           CommitReserve, CommitFinalize, CommitClose
    <2>3. UploadAt(u)' /\ "put" \in UploadPc
      BY <1>1, <2>1, <2>2 DEF UploadAt, UploadPc, Owns, TypeOK, Row
    <2>4. QED BY <1>1, <1>2, <1>3, <2>1, <2>2, <2>3, UploadCommit DEF Owns
  <1>4. CASE Record(u, "failed", "DATABASE_WRITE_FAILED")
             /\ (UNCHANGED db \/ Lost(t))
    <2>1. /\ verdict'[u] = [status |-> "failed", code |-> "DATABASE_WRITE_FAILED"]
          /\ verdict' \in [Uploads -> [status : {"failed", "cleanup_required"},
                                      code : FailureCode]]
          /\ \A v \in Uploads \ {u} : verdict'[v] = verdict[v]
          /\ view' = view /\ Goto(u, "record")
          /\ pc'[u] = "record" /\ reply'[u] = reply[u]
      BY <1>1, <1>4, Recorded DEF FailureCode
    <2>2. UNCHANGED <<row, media>> /\ inflight' \in {inflight, inflight \cup {t}}
      BY <1>4 DEF Lost, db
    <2>3. UploadAt(u)' /\ "record" \in UploadPc
      BY <1>1, <2>1, <2>2 DEF UploadAt, Owns, UploadPc, UploadFailure
    <2>4. SentBy(t)'
      BY <1>2, <2>1 DEF SentBy
    <2>5. QED BY <1>1, <1>2, <2>1, <2>2, <2>3, <2>4, UploadQuiet DEF TypeOK
  <1>5. QED BY <1>3, <1>4 DEF Reserve

\* Finalize: publication is one fenced transaction.
LEMMA FinalizeKeeps ==
  ASSUME IInv, NEW u \in Uploads, Finalize(u)
  PROVE  IInv'
  <1> DEFINE t == FinalizeTx(u)
  <1>1. u \in Workers /\ TypeOK /\ TableInv /\ UploadAt(u) /\ pc[u] = "finalize"
        /\ Owns(u) /\ row.key = u /\ u \in stored
        /\ UNCHANGED <<stored, puts, now, verdict, view, local>>
        /\ (\A s \in inflight : s.by # u)
        /\ (reply[u] = "success" => row.status = "completed" /\ row.print = Fingerprint[u])
        /\ (reply[u] = "rejected" => row.status = "rejected")
    BY UploadFacts, NothingInFlight DEF Finalize, storage, local, UploadAt
  <1>2. t \in Tx /\ t.by = u /\ t.op = "finalize" /\ TxOK(t)
    BY <1>1, TxTypes DEF TxOK, FinalizeTx
  <1>3. row.print = Fingerprint[u]
    BY <1>1, RequestsAssumption DEF TableInv, RowShape, UploadRow, CleanupRow, NoRow,
       Owns, Workers
  <1>4. CASE Acked(t) /\ Answer(u, "success")
    <2>1. pc'[u] = "done" /\ reply'[u] = "success"
      BY <1>1, <1>4, MovedTo
    <2>2. row' = [row EXCEPT !.status = "completed", !.code = "NONE"]
      BY <1>1, <1>2, <1>4 DEF Acked, Commit, CommitClaim, CommitClaimCleanup,
           CommitReserve, CommitFinalize, CommitClose
    <2>3. UploadAt(u)' /\ "done" \in UploadPc /\ \E r \in Reply : Answer(u, r)
      BY <1>4, <2>1 DEF UploadAt, UploadPc, Reply
    <2>4. row'.status = "completed" /\ row'.print = row.print
      BY <1>1, <2>2 DEF TypeOK, Row
    <2>5. QED BY <1>1, <1>2, <1>3, <1>4, <2>1, <2>3, <2>4, UploadCommit
  <1>5. CASE Goto(u, "reread_error") /\ UNCHANGED db
    <2>1. pc'[u] = "reread_error" /\ reply'[u] = reply[u]
          /\ UNCHANGED <<row, media, inflight>>
      BY <1>1, <1>5, MovedTo DEF db
    <2>2. UploadAt(u)' /\ "reread_error" \in UploadPc
      BY <1>1, <2>1 DEF UploadAt, UploadPc, Owns
    <2>3. QED BY <1>1, <1>5, <2>1, <2>2, UploadQuiet DEF TypeOK
  <1>6. CASE Lost(t) /\ Goto(u, "reread_lost")
    <2>1. pc'[u] = "reread_lost" /\ reply'[u] = reply[u]
      BY <1>1, <1>6, MovedTo
    <2>2. UNCHANGED <<row, media>> /\ inflight' = inflight \cup {t}
      BY <1>6 DEF Lost
    <2>3. UploadAt(u)' /\ SentBy(t)' /\ "reread_lost" \in UploadPc
      BY <2>1, <2>2, <1>1, <1>2 DEF UploadAt, SentBy, UploadPc, Owns
    <2>4. QED BY <1>1, <1>2, <1>6, <2>1, <2>2, <2>3, UploadQuiet DEF TypeOK
  <1>7. QED BY <1>4, <1>5, <1>6 DEF Finalize

\* FinalizeReread: only the owner whose transaction certainly failed goes on to
\* compensate.
LEMMA FinalizeRereadKeeps ==
  ASSUME IInv, NEW u \in Uploads, FinalizeReread(u)
  PROVE  IInv'
  <1>1. u \in Workers /\ TypeOK /\ TableInv /\ UploadAt(u)
        /\ pc[u] \in {"reread_error", "reread_lost"}
        /\ (\A t \in inflight : t.by = u => TxOK(t) /\ SentBy(t))
        /\ UNCHANGED <<row, media, inflight, stored, puts, now, verdict, view>>
        /\ (reply[u] = "success" => row.status = "completed" /\ row.print = Fingerprint[u])
        /\ (reply[u] = "rejected" => row.status = "rejected")
    BY UploadFacts DEF FinalizeReread, db, storage, local
  <1>2. CASE Answer(u, "error")
    <2>1. pc'[u] = "done" /\ reply'[u] = "error"
      BY <1>1, <1>2, MovedTo
    <2>2. UploadAt(u)' /\ "done" \in UploadPc /\ \E r \in Reply : Answer(u, r)
      BY <1>2, <2>1 DEF UploadAt, UploadPc, Reply
    <2>3. \A t \in inflight' : t.by = u => SentBy(t)'
      BY <1>1, <2>1 DEF SentBy
    <2>4. QED BY <1>1, <2>1, <2>2, <2>3, UploadQuiet DEF TypeOK
  <1>3. CASE row.status = "completed" /\ Goto(u, "replay")
    <2>1. pc'[u] = "replay" /\ reply'[u] = reply[u]
      BY <1>1, <1>3, MovedTo
    <2>2. row.token = u /\ row.print = Fingerprint[u]
      BY <1>1, <1>3, RequestsAssumption DEF UploadAt, Owns, TableInv, RowShape,
         UploadRow, CleanupRow, NoRow
    <2>3. UploadAt(u)' /\ "replay" \in UploadPc
      BY <1>1, <1>3, <2>1, <2>2 DEF UploadAt, UploadPc
    <2>4. \A t \in inflight' : t.by = u => SentBy(t)'
      BY <1>1, <2>1, <2>2 DEF SentBy
    <2>5. QED BY <1>1, <1>3, <2>1, <2>3, <2>4, UploadQuiet DEF TypeOK
  <1>4. CASE pc[u] = "reread_error" /\ Owns(u) /\ Goto(u, "own")
    <2>1. pc'[u] = "own" /\ reply'[u] = reply[u]
      BY <1>1, <1>4, MovedTo
    <2>2. UploadAt(u)' /\ "own" \in UploadPc
      BY <1>1, <1>4, <2>1 DEF UploadAt, UploadPc, Owns
    <2>3. \A t \in inflight : t.by # u
      BY <1>1, <1>4, NothingInFlight
    <2>4. QED BY <1>1, <1>4, <2>1, <2>2, <2>3, UploadQuiet DEF TypeOK
  <1>5. QED BY <1>2, <1>3, <1>4 DEF FinalizeReread

\* CheckAttempt: nothing is deleted unless the attempt owns the row.
LEMMA CheckAttemptKeeps ==
  ASSUME IInv, NEW u \in Uploads, CheckAttempt(u)
  PROVE  IInv'
  <1>1. u \in Workers /\ TypeOK /\ UploadAt(u) /\ pc[u] = "own" /\ Owns(u)
        /\ row.key = u
        /\ UNCHANGED <<row, media, inflight, stored, puts, now>>
        /\ (\A s \in inflight : s.by # u)
        /\ (reply[u] = "success" => row.status = "completed" /\ row.print = Fingerprint[u])
        /\ (reply[u] = "rejected" => row.status = "rejected")
    BY UploadFacts, NothingInFlight DEF CheckAttempt, storage, db, UploadAt
  <1>2. CASE Goto(u, "compensate") /\ UNCHANGED local
    <2>1. pc'[u] = "compensate" /\ reply'[u] = reply[u] /\ UNCHANGED <<verdict, view>>
      BY <1>1, <1>2, MovedTo DEF local
    <2>2. UploadAt(u)' /\ "compensate" \in UploadPc
      BY <1>1, <2>1 DEF UploadAt, Owns, UploadPc
    <2>3. QED BY <1>1, <1>2, <2>1, <2>2, UploadQuiet DEF TypeOK
  <1>3. CASE Record(u, "cleanup_required", "OBJECT_CLEANUP_REQUIRED")
    <2>1. /\ verdict'[u] = [status |-> "cleanup_required",
                            code |-> "OBJECT_CLEANUP_REQUIRED"]
          /\ verdict' \in [Uploads -> [status : {"failed", "cleanup_required"},
                                      code : FailureCode]]
          /\ \A v \in Uploads \ {u} : verdict'[v] = verdict[v]
          /\ view' = view /\ Goto(u, "record")
          /\ pc'[u] = "record" /\ reply'[u] = reply[u]
      BY <1>1, <1>3, Recorded DEF FailureCode, CleanupCode
    <2>2. UploadAt(u)' /\ "record" \in UploadPc
      BY <1>1, <2>1, RequestsAssumption DEF UploadAt, Owns, UploadPc, CleanupCode, Workers
    <2>3. QED BY <1>1, <2>1, <2>2, UploadQuiet DEF TypeOK
  <1>4. QED BY <1>2, <1>3 DEF CheckAttempt

\* RecordFailure: the verdict is one the row may be closed with.
LEMMA RecordFailureKeeps ==
  ASSUME IInv, NEW u \in Uploads, RecordFailure(u)
  PROVE  IInv'
  <1> DEFINE t == CloseTx(u, verdict[u].status, verdict[u].code, KeepTime)
  <1>1. u \in Workers /\ TypeOK /\ UploadAt(u) /\ pc[u] = "record" /\ Owns(u)
        /\ UNCHANGED <<stored, puts, now, verdict, view, local>>
        /\ (\A s \in inflight : s.by = u => TxOK(s) /\ SentBy(s))
        /\ Answer(u, "error")
    BY UploadFacts DEF RecordFailure, storage, local, UploadAt
  <1>2. verdict[u].status \in Status /\ verdict[u].code \in FailureCode
    BY <1>1 DEF TypeOK, Status
  <1>3. t \in Tx /\ t.by = u /\ t.op = "close" /\ TxOK(t)
    BY <1>1, <1>2, TxTypes DEF TxOK, CloseOK, CloseTx, UploadAt
  <1>4. pc'[u] = "done" /\ reply'[u] = "error" /\ "done" \in UploadPc
        /\ \E r \in Reply : Answer(u, r)
    BY <1>1, MovedTo DEF UploadPc, Reply
  <1>5. UploadAt(u)'
    BY <1>4 DEF UploadAt
  <1>6. \A s \in inflight : s.by = u => s.op = "reserve"
    BY <1>1 DEF SentBy, Tx, TypeOK
  <1>7. CASE Acked(t)
    <2>1. \A s \in inflight : s.by = u => TxOK(s)' /\ SentBy(s)'
      BY <1>1, <1>4, <1>6 DEF TxOK, SentBy, ClaimTx, ClaimCleanupTx, FinalizeTx, ReserveTx
    <2>2. QED BY <1>1, <1>3, <1>4, <1>5, <1>7, <2>1, UploadCommit
  <1>8. CASE UNCHANGED db \/ Lost(t)
    <2>1. UNCHANGED <<row, media>> /\ inflight' \in {inflight, inflight \cup {t}}
      BY <1>8 DEF Lost, db
    <2>2. \A s \in inflight' : s.by = u => TxOK(s) /\ SentBy(s)'
      BY <1>1, <1>3, <1>4, <1>6, <2>1 DEF SentBy
    <2>3. QED BY <1>1, <1>3, <1>4, <1>5, <2>1, <2>2, UploadQuiet DEF TypeOK
  <1>9. QED BY <1>7, <1>8 DEF RecordFailure

\* Replay: the row a replay answers from is completed for good.
LEMMA ReplayKeeps ==
  ASSUME IInv, NEW u \in Uploads, Replay(u)
  PROVE  IInv'
  <1>1. TypeOK /\ u \in Workers /\ pc[u] = "replay" /\ UploadAt(u)
        /\ (\A t \in inflight : t.by = u => TxOK(t) /\ SentBy(t))
        /\ UNCHANGED <<row, media, inflight, stored, puts, now, verdict, view>>
    BY UploadFacts DEF Replay, db, storage, local
  <1>2. pc'[u] = "done" /\ reply'[u] \in {"error", "success"}
    BY <1>1, MovedTo DEF Replay
  <1>3. UploadAt(u)' /\ "done" \in UploadPc /\ \E r \in Reply : Answer(u, r)
    BY <1>2 DEF UploadAt, UploadPc, Reply, Replay
  <1>4. \A t \in inflight' : t.by = u => SentBy(t)'
    BY <1>1, <1>2 DEF SentBy
  <1>5. row.status = "completed" /\ row.print = Fingerprint[u]
    BY <1>1 DEF UploadAt
  <1>6. QED BY <1>1, <1>2, <1>3, <1>4, <1>5, UploadQuiet DEF TypeOK

\* PutObject: while the attempt owns the row nobody cleans up after it.
LEMMA PutObjectKeeps ==
  ASSUME IInv, NEW u \in Uploads, PutObject(u)
  PROVE  IInv'
  <1>1. u \in Workers /\ TypeOK /\ TableInv /\ UploadAt(u) /\ pc[u] = "put" /\ Owns(u)
        /\ row.key = u
        /\ UNCHANGED <<row, media, inflight, now>>
        /\ (\A s \in inflight : s.by # u)
        /\ (reply[u] = "success" => row.status = "completed" /\ row.print = Fingerprint[u])
        /\ (reply[u] = "rejected" => row.status = "rejected")
    BY UploadFacts, NothingInFlight DEF PutObject, db, UploadAt
  <1>2. ~row.marked /\ row.code = "NONE" /\ row.absentAt = NoTime /\ media = {}
    BY <1>1, RequestsAssumption DEF TableInv, RowShape, UploadRow, CleanupRow, NoRow,
       Owns, CompletedIsStored
  <1>3. /\ puts' \in {puts, puts \cup {[key |-> u, until |-> now + PutLatency]}}
        /\ stored' \in {stored, stored \cup {u}}
    BY DEF PutObject, Abandoned
  <1>4. PICK l \in {"finalize", "record"} :
          /\ pc'[u] = l /\ Goto(u, l) /\ reply'[u] = reply[u] /\ view' = view
          /\ verdict' \in [Uploads -> [status : {"failed", "cleanup_required"},
                                      code : FailureCode]]
          /\ \A v \in Uploads \ {u} : verdict'[v] = verdict[v]
          /\ l = "finalize" => u \in stored'
          /\ l = "record" => \/ verdict'[u].status = "failed"
                                /\ verdict'[u].code \in UploadFailure
                             \/ verdict'[u].status = "cleanup_required"
                                /\ verdict'[u].code \in CleanupCode
    <2>1. CASE Goto(u, "finalize") /\ UNCHANGED local /\ stored' = stored \cup {u}
      BY <1>1, <2>1, MovedTo DEF local, TypeOK
    <2>2. CASE Record(u, "failed", "STORAGE_WRITE_FAILED")
      <3>1. "STORAGE_WRITE_FAILED" \in FailureCode \cap UploadFailure
        BY DEF FailureCode, UploadFailure
      <3>2. /\ verdict' \in [Uploads -> [status : {"failed", "cleanup_required"},
                                        code : FailureCode]]
            /\ \A v \in Uploads \ {u} : verdict'[v] = verdict[v]
            /\ verdict'[u] = [status |-> "failed", code |-> "STORAGE_WRITE_FAILED"]
            /\ view' = view /\ Goto(u, "record")
            /\ pc'[u] = "record" /\ reply'[u] = reply[u]
        BY <1>1, <2>2, <3>1, Recorded
      <3>3. verdict'[u].status = "failed" /\ verdict'[u].code \in UploadFailure
        BY <3>1, <3>2
      <3>4. QED BY <3>2, <3>3
    <2>3. CASE Record(u, "cleanup_required", "OBJECT_WRITE_OUTCOME_UNKNOWN")
      BY <1>1, <2>3, Recorded DEF FailureCode, CleanupCode
    <2>4. QED BY <2>1, <2>2, <2>3 DEF PutObject
  <1>5. TypeOK'
    <2>1. puts' \subseteq Put /\ stored' \subseteq Uploads
      BY <1>1, <1>3, TimingAssumption DEF TypeOK, Put
    <2>2. l \in UploadPc
      BY DEF UploadPc
    <2>3. QED BY <1>1, <1>4, <2>1, <2>2, UploadMoves DEF TypeOK
  <1>6. TableInv'
    <2> USE <1>1, <1>2, <1>3 DEF TableInv
    <2>1. RowShape'
      BY DEF RowShape, UploadRow, CleanupRow
    <2>2. CompletedIsStored'
      BY DEF CompletedIsStored, Owns
    <2>3. ObjectsAreTracked'
      BY DEF ObjectsAreTracked
    <2>4. CleanedIsGone'
      BY DEF CleanedIsGone
    <2>5. Timing'
      BY TimingAssumption DEF Timing, TypeOK, Put
    <2>6. QED BY <2>1, <2>2, <2>3, <2>4, <2>5
  <1>7. RowStable(u) /\ StoreStable(u)
    BY <1>1, <1>2, <1>3 DEF RowStable, StoreStable, Owns
  <1>8. OnlyMoves(u)
    BY <1>1, <1>4 DEF OnlyMoves, Goto, TypeOK
  <1>9. OwnPart(u)'
    <2>1. UploadAt(u)'
      BY <1>1, <1>4, RequestsAssumption DEF UploadAt, Owns, Workers
    <2>2. QED BY <1>1, <1>4, <2>1, RequestsAssumption DEF OwnPart
  <1>10. QED BY <1>1, <1>5, <1>6, <1>7, <1>8, <1>9, StepKeeps

\* Compensate: the object deleted is the attempt's own, and is published by
\* nobody.
LEMMA CompensateKeeps ==
  ASSUME IInv, NEW u \in Uploads, Compensate(u)
  PROVE  IInv'
  <1>1. u \in Workers /\ TypeOK /\ TableInv /\ UploadAt(u) /\ pc[u] = "compensate"
        /\ Owns(u) /\ row.key = u
        /\ UNCHANGED <<row, media, inflight, puts, now>>
        /\ (\A s \in inflight : s.by # u)
        /\ (reply[u] = "success" => row.status = "completed" /\ row.print = Fingerprint[u])
        /\ (reply[u] = "rejected" => row.status = "rejected")
    BY UploadFacts, NothingInFlight DEF Compensate, db, UploadAt
  <1>2. ~row.marked /\ row.code = "NONE" /\ row.absentAt = NoTime /\ media = {}
    BY <1>1, RequestsAssumption DEF TableInv, RowShape, UploadRow, CleanupRow, NoRow,
       Owns, CompletedIsStored
  <1>3. stored' \in {stored, stored \ {u}}
    BY DEF Compensate
  <1>4. /\ pc'[u] = "record" /\ Goto(u, "record") /\ reply'[u] = reply[u]
        /\ view' = view
        /\ verdict' \in [Uploads -> [status : {"failed", "cleanup_required"},
                                    code : FailureCode]]
        /\ \A v \in Uploads \ {u} : verdict'[v] = verdict[v]
        /\ \/ verdict'[u].status = "failed" /\ verdict'[u].code \in UploadFailure
           \/ verdict'[u].status = "cleanup_required" /\ verdict'[u].code \in CleanupCode
    <2>1. CASE Record(u, "failed", "DATABASE_WRITE_FAILED")
      <3>1. "DATABASE_WRITE_FAILED" \in FailureCode \cap UploadFailure
        BY DEF FailureCode, UploadFailure
      <3>2. /\ verdict' \in [Uploads -> [status : {"failed", "cleanup_required"},
                                        code : FailureCode]]
            /\ \A v \in Uploads \ {u} : verdict'[v] = verdict[v]
            /\ verdict'[u] = [status |-> "failed", code |-> "DATABASE_WRITE_FAILED"]
            /\ view' = view /\ Goto(u, "record")
            /\ pc'[u] = "record" /\ reply'[u] = reply[u]
        BY <1>1, <2>1, <3>1, Recorded
      <3>3. verdict'[u].status = "failed" /\ verdict'[u].code \in UploadFailure
        BY <3>1, <3>2
      <3>4. QED BY <3>2, <3>3
    <2>2. CASE Record(u, "cleanup_required", "OBJECT_CLEANUP_REQUIRED")
      BY <1>1, <2>2, Recorded DEF FailureCode, CleanupCode
    <2>3. QED BY <2>1, <2>2 DEF Compensate
  <1>5. TypeOK'
    <2>1. stored' \subseteq Uploads /\ "record" \in UploadPc
      BY <1>1, <1>3 DEF TypeOK, UploadPc
    <2>2. QED BY <1>1, <1>4, <2>1, UploadMoves DEF TypeOK
  <1>6. TableInv'
    <2> USE <1>1, <1>2, <1>3 DEF TableInv
    <2>1. RowShape'
      BY DEF RowShape, UploadRow, CleanupRow
    <2>2. CompletedIsStored'
      BY DEF CompletedIsStored, Owns
    <2>3. ObjectsAreTracked' /\ CleanedIsGone'
      BY DEF ObjectsAreTracked, CleanedIsGone
    <2>4. Timing'
      BY DEF Timing
    <2>5. QED BY <2>1, <2>2, <2>3, <2>4
  <1>7. RowStable(u) /\ StoreStable(u)
    BY <1>1, <1>2, <1>3 DEF RowStable, StoreStable, Owns
  <1>8. OnlyMoves(u)
    BY <1>1, <1>4 DEF OnlyMoves, Goto, TypeOK
  <1>9. OwnPart(u)'
    <2>1. UploadAt(u)'
      BY <1>1, <1>4, RequestsAssumption DEF UploadAt, Owns, Workers
    <2>2. QED BY <1>1, <1>4, <2>1, RequestsAssumption DEF OwnPart
  <1>10. QED BY <1>1, <1>5, <1>6, <1>7, <1>8, <1>9, StepKeeps

-----------------------------------------------------------------------------
(* The steps of a cleanup request.                                          *)

\* What the invariant says of one cleanup request; while it works on the row
\* the row is marked, so its key is set and no upload attempt owns it.
LEMMA CleanupFacts ==
  ASSUME IInv, NEW c \in Cleanups
  PROVE  /\ c \in Workers /\ c \notin Uploads /\ TypeOK /\ TableInv /\ CleanupAt(c)
         /\ \A t \in inflight : t.by = c => TxOK(t) /\ SentBy(t)
         /\ reply[c] = "cleaned" => row.code = "OBJECT_CLEANED"
         /\ pc[c] \in CleanupWorking =>
              /\ Owns(c) /\ view[c].absent = row.absentAt
              /\ row.marked /\ row.key # None
              /\ row.code = "OBJECT_CLEANUP_IN_PROGRESS" /\ media = {}
              /\ \A t \in inflight : t.by # c
  <1>1. /\ c \in Workers /\ c \notin Uploads /\ TypeOK /\ TableInv /\ CleanupAt(c)
        /\ \A t \in inflight : t.by = c => TxOK(t) /\ SentBy(t)
        /\ reply[c] = "cleaned" => row.code = "OBJECT_CLEANED"
    BY RequestsAssumption DEF IInv, Workers, RepliesAreTrue
  <1>2. ASSUME pc[c] \in CleanupWorking
        PROVE  /\ Owns(c) /\ view[c].absent = row.absentAt
               /\ row.marked /\ row.key # None
               /\ row.code = "OBJECT_CLEANUP_IN_PROGRESS" /\ media = {}
               /\ \A t \in inflight : t.by # c
    <2>1. Owns(c) /\ view[c].absent = row.absentAt
      BY <1>1, <1>2 DEF CleanupAt
    <2>2. row.marked /\ row.key # None /\ row.code = "OBJECT_CLEANUP_IN_PROGRESS"
      BY <1>1, <2>1 DEF TableInv, RowShape, UploadRow, CleanupRow, NoRow, Owns
    <2>3. media = {}
      BY <1>1, <2>1 DEF TableInv, CompletedIsStored, Owns
    <2>4. \A t \in inflight : t.by # c
      BY <1>1, <1>2, NothingInFlight DEF CleanupWorking
    <2>5. QED BY <2>1, <2>2, <2>3, <2>4
  <1>3. QED BY <1>1, <1>2

\* ClaimCleanup: the claim and the observation it starts from are one read.
LEMMA ClaimCleanupKeeps ==
  ASSUME IInv, NEW c \in Cleanups, ClaimCleanup(c)
  PROVE  IInv'
  <1> DEFINE t == ClaimCleanupTx(c)
  <1>1. c \in Workers /\ TypeOK /\ CleanupAt(c) /\ pc[c] = "start"
        /\ UNCHANGED <<stored, puts, now, verdict>>
        /\ (reply[c] = "cleaned" => row.code = "OBJECT_CLEANED")
    BY CleanupFacts DEF ClaimCleanup, storage
  <1>2. row.token # c /\ \A s \in inflight : s.by # c
    BY <1>1 DEF CleanupAt
  <1>3. t \in Tx /\ t.by = c /\ t.op = "claim_cleanup" /\ TxOK(t)
    BY TxTypes DEF TxOK, ClaimCleanupTx
  <1>4. CASE Acked(t) /\ Remember(c) /\ Goto(c, "check")
    <2>1. pc'[c] = "check" /\ reply'[c] = reply[c] /\ "check" \in CleanupPc
      BY <1>1, <1>4, MovedTo DEF CleanupPc
    <2>2. row.status = "cleanup_required"
          /\ row' = [row EXCEPT !.status = "processing", !.token = c,
                                !.code = "OBJECT_CLEANUP_IN_PROGRESS"]
      BY <1>3, <1>4 DEF Acked, Commit, CommitClaim, CommitClaimCleanup, MayClaimCleanup,
           CommitReserve, CommitFinalize, CommitClose
    <2>3. /\ view' \in [Cleanups -> [absent : Nat \cup {NoTime}, present : BOOLEAN,
                                    seen : Nat]]
          /\ \A d \in Cleanups \ {c} : view'[d] = view[d]
          /\ view'[c].absent = row.absentAt
      BY <1>1, <1>4 DEF Remember, TypeOK, Row
    <2>4. CleanupAt(c)'
      BY <1>1, <2>1, <2>2, <2>3 DEF CleanupAt, Owns, TypeOK, Row
    <2>5. row.code # "OBJECT_CLEANED"
      BY <2>2 DEF IInv, TableInv, RowShape, UploadRow, CleanupRow, NoRow, CleanupCode
    <2>6. QED BY <1>1, <1>2, <1>3, <1>4, <2>1, <2>3, <2>4, <2>5, CleanupCommit
  <1>5. CASE Answer(c, "error") /\ UNCHANGED <<db, view>>
    <2>1. pc'[c] = "done" /\ reply'[c] = "error" /\ UNCHANGED <<row, media, inflight>>
      BY <1>1, <1>5, MovedTo DEF db
    <2>2. CleanupAt(c)' /\ "done" \in CleanupPc /\ \E r \in Reply : Answer(c, r)
      BY <2>1, <1>5 DEF CleanupAt, CleanupPc, Reply, CleanupWorking
    <2>3. QED BY <1>1, <1>2, <1>5, <2>1, <2>2, CleanupQuiet DEF TypeOK
  <1>6. CASE Lost(t) /\ Goto(c, "cleanup_reread") /\ UNCHANGED view
    <2>1. pc'[c] = "cleanup_reread" /\ reply'[c] = reply[c]
      BY <1>1, <1>6, MovedTo
    <2>2. UNCHANGED <<row, media>> /\ inflight' = inflight \cup {t}
      BY <1>6 DEF Lost
    <2>3. CleanupAt(c)' /\ SentBy(t)' /\ "cleanup_reread" \in CleanupPc
      BY <2>1, <2>2, <1>2, <1>3 DEF CleanupAt, SentBy, CleanupPc, CleanupWorking
    <2>4. QED BY <1>1, <1>2, <1>3, <1>6, <2>1, <2>2, <2>3, CleanupQuiet DEF TypeOK
  <1>7. QED BY <1>4, <1>5, <1>6 DEF ClaimCleanup

\* CleanupReread: a request that finds its own token has made the claim.
LEMMA CleanupRereadKeeps ==
  ASSUME IInv, NEW c \in Cleanups, CleanupReread(c)
  PROVE  IInv'
  <1>1. c \in Workers /\ TypeOK /\ CleanupAt(c) /\ pc[c] = "cleanup_reread"
        /\ UNCHANGED <<row, media, inflight, stored, puts, now, verdict>>
        /\ (reply[c] = "cleaned" => row.code = "OBJECT_CLEANED")
        /\ (\A t \in inflight : t.by = c => TxOK(t) /\ SentBy(t))
    BY CleanupFacts DEF CleanupReread, storage, db
  <1>2. CASE Owns(c) /\ Remember(c) /\ Goto(c, "check")
    <2>1. pc'[c] = "check" /\ reply'[c] = reply[c] /\ "check" \in CleanupPc
      BY <1>1, <1>2, MovedTo DEF CleanupPc
    <2>2. /\ view' \in [Cleanups -> [absent : Nat \cup {NoTime}, present : BOOLEAN,
                                    seen : Nat]]
          /\ \A d \in Cleanups \ {c} : view'[d] = view[d]
          /\ view'[c].absent = row.absentAt
      BY <1>1, <1>2 DEF Remember, TypeOK, Row
    <2>3. CleanupAt(c)'
      BY <1>1, <1>2, <2>1, <2>2 DEF CleanupAt, Owns
    <2>4. \A t \in inflight : t.by = c => SentBy(t)'
      BY <1>1, <1>2, <2>1 DEF SentBy, Owns
    <2>5. QED BY <1>1, <1>2, <2>1, <2>2, <2>3, <2>4, CleanupQuiet DEF TypeOK
  <1>3. CASE Answer(c, "error") /\ UNCHANGED view
    <2>1. pc'[c] = "done" /\ reply'[c] = "error"
      BY <1>1, <1>3, MovedTo
    <2>2. CleanupAt(c)' /\ "done" \in CleanupPc /\ \E r \in Reply : Answer(c, r)
      BY <2>1, <1>3 DEF CleanupAt, CleanupPc, Reply, CleanupWorking
    <2>3. \A t \in inflight : t.by = c => SentBy(t)'
      BY <1>1, <2>1 DEF SentBy
    <2>4. QED BY <1>1, <1>3, <2>1, <2>2, <2>3, CleanupQuiet DEF TypeOK
  <1>4. QED BY <1>2, <1>3 DEF CleanupReread

\* CheckCleanup: a request that lost the row stops here.
LEMMA CheckCleanupKeeps ==
  ASSUME IInv, NEW c \in Cleanups, CheckCleanup(c)
  PROVE  IInv'
  <1>1. c \in Workers /\ TypeOK /\ CleanupAt(c) /\ pc[c] = "check"
        /\ UNCHANGED <<row, media, inflight, stored, puts, now, verdict, view>>
        /\ (reply[c] = "cleaned" => row.code = "OBJECT_CLEANED")
        /\ Owns(c) /\ view[c].absent = row.absentAt /\ (\A t \in inflight : t.by # c)
    BY CleanupFacts DEF CheckCleanup, storage, db, local, CleanupWorking
  <1>2. PICK l \in {"head", "fail"} : Goto(c, l)
    BY <1>1 DEF CheckCleanup
  <1>3. pc'[c] = l /\ reply'[c] = reply[c] /\ l \in CleanupPc
    BY <1>1, <1>2, MovedTo DEF CleanupPc
  <1>4. CleanupAt(c)'
    BY <1>1, <1>3 DEF CleanupAt, Owns
  <1>5. QED BY <1>1, <1>2, <1>3, <1>4, CleanupQuiet DEF TypeOK

\* Head: the probe changes nothing but what the request remembers.
LEMMA HeadKeeps ==
  ASSUME IInv, NEW c \in Cleanups, Head(c)
  PROVE  IInv'
  <1>1. c \in Workers /\ TypeOK /\ CleanupAt(c) /\ pc[c] = "head"
        /\ UNCHANGED <<row, media, inflight, stored, puts, now, verdict>>
        /\ (reply[c] = "cleaned" => row.code = "OBJECT_CLEANED")
        /\ Owns(c) /\ view[c].absent = row.absentAt /\ (\A t \in inflight : t.by # c)
    BY CleanupFacts DEF Head, storage, db, CleanupWorking
  <1>2. PICK l \in {"delete", "fail"} : Goto(c, l)
    BY <1>1 DEF Head
  <1>3. pc'[c] = l /\ reply'[c] = reply[c] /\ l \in CleanupPc
    BY <1>1, <1>2, MovedTo DEF CleanupPc
  <1>4. /\ view' \in [Cleanups -> [absent : Nat \cup {NoTime}, present : BOOLEAN,
                                    seen : Nat]]
        /\ \A d \in Cleanups \ {c} : view'[d] = view[d]
        /\ view'[c].absent = view[c].absent
    <2>1. PICK b \in BOOLEAN :
            view' = [view EXCEPT ![c].present = b] \/ view' = view
      <3>1. (row.key \in stored) \in BOOLEAN
        OBVIOUS
      <3>2. QED BY <3>1 DEF Head
    <2>2. QED BY <1>1, <2>1 DEF TypeOK
  <1>5. CleanupAt(c)'
    BY <1>1, <1>3, <1>4 DEF CleanupAt, Owns
  <1>6. QED BY <1>1, <1>2, <1>3, <1>4, <1>5, CleanupQuiet DEF TypeOK

\* Verify: an absence seen later than PutLatency after the recorded one is
\* final, because every abandoned PUT was issued before the recorded one.
LEMMA VerifyKeeps ==
  ASSUME IInv, NEW c \in Cleanups, Verify(c)
  PROVE  IInv'
  <1>1. c \in Workers /\ TypeOK /\ TableInv /\ CleanupAt(c) /\ pc[c] = "verify"
        /\ UNCHANGED <<row, media, inflight, stored, puts, now, verdict>>
        /\ (reply[c] = "cleaned" => row.code = "OBJECT_CLEANED")
        /\ Owns(c) /\ view[c].absent = row.absentAt /\ (\A t \in inflight : t.by # c)
    BY CleanupFacts DEF Verify, storage, db, CleanupWorking
  <1>2. CASE row.key \notin stored /\ view' = [view EXCEPT ![c].seen = now]
             /\ Goto(c, "decide")
    <2>1. pc'[c] = "decide" /\ reply'[c] = reply[c] /\ "decide" \in CleanupPc
      BY <1>1, <1>2, MovedTo DEF CleanupPc
    <2>2. /\ view' \in [Cleanups -> [absent : Nat \cup {NoTime}, present : BOOLEAN,
                                    seen : Nat]]
          /\ \A d \in Cleanups \ {c} : view'[d] = view[d]
          /\ view'[c].absent = view[c].absent /\ view'[c].seen = now
      BY <1>1, <1>2 DEF TypeOK
    <2>3. ASSUME view[c].absent # NoTime, now > view[c].absent + PutLatency
          PROVE  Gone
      <3>1. IssuedBefore(row.absentAt) /\ \A p \in puts : now <= p.until
        BY <1>1, <2>3 DEF TableInv, Timing
      <3>2. row.absentAt \in Nat
        BY <1>1, <2>3 DEF TypeOK, Row
      <3>3. \A p \in puts : p.until \in Nat
        BY <1>1 DEF TypeOK, Put
      <3>4. puts = {}
        BY <1>1, <2>3, <3>1, <3>2, <3>3, TimingAssumption DEF IssuedBefore, TypeOK
      <3>5. QED BY <1>2, <3>4 DEF Gone
    <2>4. CleanupAt(c)'
      BY <1>1, <2>1, <2>2, <2>3, TimingAssumption DEF CleanupAt, Owns, Gone, TypeOK
    <2>5. QED BY <1>1, <1>2, <2>1, <2>2, <2>4, CleanupQuiet DEF TypeOK
  <1>3. CASE Goto(c, "fail") /\ UNCHANGED view
    <2>1. pc'[c] = "fail" /\ reply'[c] = reply[c] /\ "fail" \in CleanupPc
      BY <1>1, <1>3, MovedTo DEF CleanupPc
    <2>2. CleanupAt(c)'
      BY <1>1, <1>3, <2>1 DEF CleanupAt, Owns
    <2>3. QED BY <1>1, <1>3, <2>1, <2>2, CleanupQuiet DEF TypeOK
  <1>4. QED BY <1>2, <1>3 DEF Verify

\* Decide: the settling window outlives an abandoned PUT even when the clock is
\* read OpTimeout after the absence was seen.
LEMMA DecideKeeps ==
  ASSUME IInv, NEW c \in Cleanups, Decide(c)
  PROVE  IInv'
  <1>1. c \in Workers /\ TypeOK /\ CleanupAt(c) /\ pc[c] = "decide"
        /\ UNCHANGED <<row, media, inflight, stored, puts, now, verdict, view>>
        /\ (reply[c] = "cleaned" => row.code = "OBJECT_CLEANED")
        /\ Owns(c) /\ view[c].absent = row.absentAt /\ (\A t \in inflight : t.by # c)
    BY CleanupFacts DEF Decide, storage, db, local, CleanupWorking
  <1>2. PICK l \in {"complete", "defer"} :
          Goto(c, l) /\ (l = "complete" => Settled(c))
    BY DEF Decide
  <1>3. pc'[c] = l /\ reply'[c] = reply[c] /\ l \in CleanupPc
    BY <1>1, <1>2, MovedTo DEF CleanupPc
  <1>4. Settled(c) => Gone
    <2>1. /\ view[c].absent \in Nat \cup {NoTime} /\ view[c].seen \in Nat /\ now \in Nat
          /\ now <= view[c].seen + OpTimeout
      BY <1>1 DEF TypeOK, CleanupAt
    <2>2. Settled(c) => view[c].absent # NoTime /\ view[c].seen > view[c].absent + PutLatency
      BY <2>1, TimingAssumption DEF Settled
    <2>3. QED BY <1>1, <2>2 DEF CleanupAt
  <1>5. CleanupAt(c)'
    BY <1>1, <1>2, <1>3, <1>4 DEF CleanupAt, Owns, Gone
  <1>6. QED BY <1>1, <1>2, <1>3, <1>5, CleanupQuiet DEF TypeOK

\* DeferCleanup: the recorded observation is later than every abandoned PUT.
LEMMA DeferCleanupKeeps ==
  ASSUME IInv, NEW c \in Cleanups, DeferCleanup(c)
  PROVE  IInv'
  <1>1. c \in Workers /\ TypeOK /\ TableInv /\ CleanupAt(c) /\ pc[c] = "defer"
        /\ UNCHANGED <<stored, puts, now, verdict, view>>
        /\ (reply[c] = "cleaned" => row.code = "OBJECT_CLEANED")
        /\ Owns(c) /\ view[c].absent = row.absentAt /\ (\A s \in inflight : s.by # c)
        /\ row.marked /\ row.code = "OBJECT_CLEANUP_IN_PROGRESS"
    BY CleanupFacts DEF DeferCleanup, storage, local, CleanupWorking
  <1>2. ObservedAt(c) \in Nat /\ IssuedBefore(ObservedAt(c))
    <2>1. view[c].absent \in Nat \cup {NoTime} /\ now \in Nat
      BY <1>1 DEF TypeOK
    <2>2. IssuedBefore(now)
      BY <1>1, TimingAssumption DEF IssuedBefore, TableInv, Timing, TypeOK, Put
    <2>3. view[c].absent # NoTime => IssuedBefore(view[c].absent)
      BY <1>1 DEF TableInv, Timing
    <2>4. QED BY <2>1, <2>2, <2>3 DEF ObservedAt
  <1> PICK a \in Nat : a = ObservedAt(c) /\ IssuedBefore(a)
    BY <1>2
  <1> DEFINE t == CloseTx(c, "cleanup_required", "OBJECT_CLEANUP_SETTLING", a)
  <1>3. t \in Tx /\ t.by = c /\ t.op = "close" /\ TxOK(t)
    BY <1>1, <1>2, TxTypes DEF TxOK, CloseOK, CloseTx, Status, FailureCode, CleanupCode
  <1>4. CASE Acked(t) /\ Answer(c, "settling")
    <2>1. pc'[c] = "done" /\ reply'[c] = "settling"
      BY <1>1, <1>4, MovedTo
    <2>2. CleanupAt(c)' /\ "done" \in CleanupPc /\ \E r \in Reply : Answer(c, r)
      BY <2>1, <1>4 DEF CleanupAt, CleanupPc, Reply, CleanupWorking
    <2>3. QED BY <1>1, <1>3, <1>4, <2>1, <2>2, CleanupCommit DEF TypeOK
  <1>5. CASE Lost(t) /\ Goto(c, "confirm")
    <2>1. pc'[c] = "confirm" /\ reply'[c] = reply[c]
      BY <1>1, <1>5, MovedTo
    <2>2. UNCHANGED <<row, media>> /\ inflight' = inflight \cup {t}
      BY <1>5 DEF Lost
    <2>3. CleanupAt(c)' /\ SentBy(t)' /\ "confirm" \in CleanupPc
      BY <2>1, <2>2, <1>1, <1>3 DEF CleanupAt, SentBy, CleanupPc, CleanupWorking
    <2>4. QED BY <1>1, <1>3, <1>5, <2>1, <2>2, <2>3, CleanupQuiet DEF TypeOK
  <1>6. QED BY <1>1, <1>4, <1>5 DEF DeferCleanup

\* CompleteCleanup: the object is gone for good when the row is closed.
LEMMA CompleteCleanupKeeps ==
  ASSUME IInv, NEW c \in Cleanups, CompleteCleanup(c)
  PROVE  IInv'
  <1> DEFINE t == CloseTx(c, "failed", "OBJECT_CLEANED", KeepTime)
  <1>1. c \in Workers /\ TypeOK /\ TableInv /\ CleanupAt(c) /\ pc[c] = "complete"
        /\ UNCHANGED <<stored, puts, now, verdict, view>>
        /\ (reply[c] = "cleaned" => row.code = "OBJECT_CLEANED")
        /\ Owns(c) /\ (\A s \in inflight : s.by # c)
        /\ row.marked /\ row.code = "OBJECT_CLEANUP_IN_PROGRESS"
    BY CleanupFacts DEF CompleteCleanup, storage, local, CleanupWorking
  <1>2. Gone
    BY <1>1 DEF CleanupAt
  <1>3. t \in Tx /\ t.by = c /\ t.op = "close" /\ t.code = "OBJECT_CLEANED" /\ TxOK(t)
    BY <1>1, <1>2, TxTypes DEF TxOK, CloseOK, CloseTx, Status, FailureCode
  <1>4. CASE Acked(t) /\ Answer(c, "cleaned")
    <2>1. pc'[c] = "done" /\ reply'[c] = "cleaned"
      BY <1>1, <1>4, MovedTo
    <2>2. CleanupAt(c)' /\ "done" \in CleanupPc /\ \E r \in Reply : Answer(c, r)
      BY <2>1, <1>4 DEF CleanupAt, CleanupPc, Reply, CleanupWorking
    <2>3. row'.code = "OBJECT_CLEANED"
      BY <1>1, <1>3, <1>4 DEF Acked, Commit, CommitClaim, CommitClaimCleanup,
           CommitReserve, CommitFinalize, CommitClose, TypeOK, Row
    <2>4. QED BY <1>1, <1>3, <1>4, <2>1, <2>2, <2>3, CleanupCommit DEF TypeOK
  <1>5. CASE Lost(t) /\ Goto(c, "confirm")
    <2>1. pc'[c] = "confirm" /\ reply'[c] = reply[c]
      BY <1>1, <1>5, MovedTo
    <2>2. UNCHANGED <<row, media>> /\ inflight' = inflight \cup {t}
      BY <1>5 DEF Lost
    <2>3. CleanupAt(c)' /\ SentBy(t)' /\ "confirm" \in CleanupPc
      BY <2>1, <2>2, <1>1, <1>3 DEF CleanupAt, SentBy, CleanupPc, CleanupWorking
    <2>4. QED BY <1>1, <1>3, <1>5, <2>1, <2>2, <2>3, CleanupQuiet DEF TypeOK
  <1>6. QED BY <1>1, <1>4, <1>5 DEF CompleteCleanup

\* RecordCleanupFailure: the row goes back to cleanup_required.
LEMMA RecordCleanupFailureKeeps ==
  ASSUME IInv, NEW c \in Cleanups, RecordCleanupFailure(c)
  PROVE  IInv'
  <1> DEFINE t == CloseTx(c, "cleanup_required", "OBJECT_CLEANUP_REQUIRED", NoTime)
  <1>1. c \in Workers /\ TypeOK /\ CleanupAt(c) /\ pc[c] = "fail"
        /\ UNCHANGED <<stored, puts, now, verdict, view>>
        /\ Owns(c) /\ (\A s \in inflight : s.by # c)
        /\ row.marked /\ Answer(c, "error")
    BY CleanupFacts DEF RecordCleanupFailure, storage, local, CleanupWorking
  <1>2. t \in Tx /\ t.by = c /\ t.op = "close" /\ TxOK(t)
    BY <1>1, TxTypes DEF TxOK, CloseOK, CloseTx, Status, FailureCode, CleanupCode
  <1>3. pc'[c] = "done" /\ reply'[c] = "error"
    BY <1>1, MovedTo
  <1>4. CleanupAt(c)' /\ "done" \in CleanupPc /\ \E r \in Reply : Answer(c, r)
    BY <1>1, <1>3 DEF CleanupAt, CleanupPc, Reply, CleanupWorking
  <1>5. CASE Acked(t)
    BY <1>1, <1>2, <1>3, <1>4, <1>5, CleanupCommit DEF TypeOK
  <1>6. CASE Lost(t)
    <2>1. UNCHANGED <<row, media>> /\ inflight' = inflight \cup {t}
      BY <1>6 DEF Lost
    <2>2. SentBy(t)'
      BY <1>2, <1>3 DEF SentBy
    <2>3. QED BY <1>1, <1>2, <1>3, <1>4, <2>1, <2>2, CleanupQuiet DEF TypeOK
  <1>7. QED BY <1>1, <1>5, <1>6 DEF RecordCleanupFailure

\* ConfirmCleanup: the answer is what the reread row shows.
LEMMA ConfirmCleanupKeeps ==
  ASSUME IInv, NEW c \in Cleanups, ConfirmCleanup(c)
  PROVE  IInv'
  <1>1. c \in Workers /\ TypeOK /\ CleanupAt(c) /\ pc[c] = "confirm"
        /\ UNCHANGED <<row, media, inflight, stored, puts, now, verdict, view>>
        /\ (\A t \in inflight : t.by = c => TxOK(t) /\ SentBy(t))
    BY CleanupFacts DEF ConfirmCleanup, storage, db, local
  <1>2. PICK r \in {"cleaned", "settling", "error"} :
          Answer(c, r) /\ (r = "cleaned" => row.code = "OBJECT_CLEANED")
    BY DEF ConfirmCleanup
  <1>3. pc'[c] = "done" /\ reply'[c] = r
    BY <1>1, <1>2, MovedTo
  <1>4. CleanupAt(c)' /\ "done" \in CleanupPc /\ \E q \in Reply : Answer(c, q)
    BY <1>2, <1>3 DEF CleanupAt, CleanupPc, Reply, CleanupWorking
  <1>5. \A t \in inflight : t.by = c => SentBy(t)'
    BY <1>1, <1>3 DEF SentBy
  <1>6. QED BY <1>1, <1>2, <1>3, <1>4, <1>5, CleanupQuiet DEF TypeOK

\* Delete: the object deleted is the row's, and the row is not published.
LEMMA DeleteKeeps ==
  ASSUME IInv, NEW c \in Cleanups, Delete(c)
  PROVE  IInv'
  <1>1. c \in Workers /\ c \notin Uploads /\ TypeOK /\ TableInv /\ CleanupAt(c)
        /\ pc[c] = "delete"
        /\ UNCHANGED <<row, media, inflight, puts, now, verdict, view>>
        /\ Owns(c) /\ view[c].absent = row.absentAt /\ (\A s \in inflight : s.by # c)
        /\ row.marked /\ row.code = "OBJECT_CLEANUP_IN_PROGRESS" /\ media = {}
        /\ (reply[c] = "cleaned" => row.code = "OBJECT_CLEANED")
    BY CleanupFacts DEF Delete, db, local, CleanupWorking
  <1>2. PICK l \in {"verify", "fail"} : Goto(c, l)
    BY DEF Delete
  <1>3. pc'[c] = l /\ reply'[c] = reply[c] /\ l \in CleanupPc
    BY <1>1, <1>2, MovedTo DEF CleanupPc
  <1>4. stored' \subseteq stored /\ stored \ stored' \subseteq {row.key}
    BY DEF Delete
  <1>5. TypeOK' /\ OnlyMoves(c)
    BY <1>1, <1>2, <1>3, <1>4, CleanupMoves DEF TypeOK, OnlyMoves
  <1>6. TableInv'
    <2> USE <1>1, <1>4 DEF TableInv
    <2>1. RowShape'
      BY DEF RowShape, UploadRow, CleanupRow
    <2>2. CompletedIsStored'
      BY DEF CompletedIsStored, Owns
    <2>3. ObjectsAreTracked' /\ CleanedIsGone'
      BY DEF ObjectsAreTracked, CleanedIsGone
    <2>4. Timing'
      BY DEF Timing, IssuedBefore
    <2>5. QED BY <2>1, <2>2, <2>3, <2>4
  <1>7. RowStable(c) /\ StoreStable(c)
    BY <1>1, <1>4 DEF RowStable, StoreStable, Owns, Gone
  <1>8. CleanupAt(c)'
    BY <1>1, <1>3 DEF CleanupAt, Owns
  <1>9. OwnPart(c)'
    BY <1>1, <1>3, <1>8 DEF OwnPart
  <1>10. QED BY <1>1, <1>5, <1>6, <1>7, <1>9, StepKeeps

-----------------------------------------------------------------------------
(* The steps of the environment.                                            *)

\* A transaction still in flight stays one the service may have sent.
LEMMA TxKeeps ==
  ASSUME NEW s \in Tx, TxOK(s), UNCHANGED <<stored, puts, now>>,
         row.key # None => row'.key = row.key,
         row.marked => row'.marked /\ row.key # None,
         Owns(s.by)' => Owns(s.by)
  PROVE  TxOK(s)'
  <1>1. CASE s.op = "close"
    <2>1. CloseOK(s)
      BY <1>1 DEF TxOK, ClaimTx, ClaimCleanupTx, ReserveTx, FinalizeTx
    <2>2. CloseOK(s)'
      BY <2>1 DEF CloseOK, Gone, IssuedBefore
    <2>3. QED BY <1>1, <2>2 DEF TxOK
  <1>2. CASE s.op # "close"
    <2>1. \/ s.by \in Uploads /\ s = ClaimTx(s.by)
          \/ s.by \in Cleanups /\ s = ClaimCleanupTx(s.by)
          \/ s.by \in Uploads /\ s = ReserveTx(s.by)
          \/ /\ s.by \in Uploads /\ s = FinalizeTx(s.by)
             /\ Owns(s.by) => row.key = s.by /\ s.by \in stored
      BY <1>2 DEF TxOK
    <2>2. (Owns(s.by) => row.key = s.by /\ s.by \in stored) /\ s.by \in Uploads
          => (Owns(s.by) => row.key = s.by /\ s.by \in stored)'
      BY RequestsAssumption DEF Workers
    <2>3. QED BY <2>1, <2>2 DEF TxOK
  <1>3. QED BY <1>1, <1>2

\* Land: a transaction that commits after its request stopped waiting for it.
LEMMA LandKeeps ==
  ASSUME IInv, NEW t \in inflight, Land(t)
  PROVE  IInv'
  <1>1. /\ TypeOK /\ TableInv /\ t \in Tx /\ t.by \in Workers /\ TxOK(t) /\ SentBy(t)
        /\ Commit(t) /\ inflight' = inflight \ {t}
        /\ UNCHANGED <<stored, puts, now, pc, verdict, view, reply>>
        /\ \A s \in inflight : s \in Tx /\ TxOK(s) /\ SentBy(s)
    BY DEF IInv, TypeOK, Tx, Land, storage, local
  <1>2. /\ RowStable(t.by) /\ StoreStable(t.by) /\ TableInv'
        /\ row' \in Row /\ media' \subseteq Uploads
    BY <1>1, CommitIsStable
  <1>3. TypeOK' /\ OnlyMoves(t.by)
    BY <1>1, <1>2 DEF TypeOK, OnlyMoves
  <1>4. row.marked => row.key # None
    BY <1>1, RequestsAssumption DEF TableInv, RowShape, UploadRow, CleanupRow, NoRow
  <1>5. ASSUME NEW s \in inflight', s.by = t.by
        PROVE  TxOK(s)' /\ SentBy(s)'
    <2>1. s \in inflight /\ s # t /\ s \in Tx /\ TxOK(s) /\ SentBy(s)
      BY <1>1, <1>5
    <2>2. t.op \notin {"claim", "claim_cleanup"} /\ s.op \notin {"claim", "claim_cleanup"}
      BY <1>1, <1>5, <2>1 DEF SentBy
    <2>3. Owns(t.by)
      BY <1>1, <2>2 DEF Commit, CommitClaim, CommitClaimCleanup, CommitReserve,
         CommitFinalize, CommitClose
    <2>4. TxOK(s)'
      BY <1>1, <1>2, <1>4, <1>5, <2>1, <2>3, TxKeeps DEF RowStable
    <2>5. SentBy(s)'
      BY <1>1, <1>5, <2>1, <2>2 DEF SentBy
    <2>6. QED BY <2>4, <2>5
  <1>6. ASSUME t.by \in Uploads
        PROVE  /\ UploadAt(t.by)'
               /\ ~(reply[t.by] \in {"success", "rejected"})
    <2>1. UploadAt(t.by) /\ (reply[t.by] = "success" => row.status = "completed")
          /\ (reply[t.by] = "rejected" => row.status = "rejected")
      BY <1>6 DEF IInv, RepliesAreTrue
    <2>2. t.by \notin Cleanups /\ t.op \in {"claim", "reserve", "finalize", "close"}
      BY <1>1, <1>6, RequestsAssumption, TxKind DEF Tx
    <2>3. CASE t.op = "claim"
      <3>1. MayClaim(t.by) /\ pc[t.by] \in {"claim_reread", "cleanup_reread", "done"}
        BY <1>1, <2>3 DEF SentBy, Commit, CommitClaim, CommitClaimCleanup, CommitReserve,
           CommitFinalize, CommitClose
      <3>2. QED BY <1>1, <2>1, <3>1 DEF UploadAt, MayClaim
    <2>4. CASE t.op = "reserve"
      <3>1. Owns(t.by) /\ pc[t.by] \in {"record", "done"}
            /\ row' = [row EXCEPT !.key = t.by]
        BY <1>1, <2>4 DEF SentBy, Commit, CommitClaim, CommitClaimCleanup, CommitReserve,
           CommitFinalize, CommitClose
      <3>2. row'.status = row.status /\ row'.token = row.token /\ row'.key = t.by
        BY <1>1, <3>1 DEF TypeOK, Row
      <3>3. QED BY <1>1, <2>1, <3>1, <3>2, RequestsAssumption DEF UploadAt, Owns
    <2>5. CASE t.op = "finalize"
      <3>1. Owns(t.by) /\ pc[t.by] \in {"reread_lost", "replay", "done"}
            /\ row' = [row EXCEPT !.status = "completed", !.code = "NONE"]
        BY <1>1, <2>5 DEF SentBy, Commit, CommitClaim, CommitClaimCleanup, CommitReserve,
           CommitFinalize, CommitClose
      <3>2. row'.status = "completed" /\ row'.token = row.token
        BY <1>1, <3>1 DEF TypeOK, Row
      <3>3. QED BY <1>1, <2>1, <3>1, <3>2 DEF UploadAt, Owns
    <2>6. CASE t.op = "close"
      <3>1. Owns(t.by) /\ pc[t.by] \in {"reject_reread", "confirm", "done"}
        BY <1>1, <2>6 DEF SentBy, Commit, CommitClaim, CommitClaimCleanup, CommitReserve,
           CommitFinalize, CommitClose
      <3>2. QED BY <1>1, <2>1, <3>1 DEF UploadAt, Owns
    <2>7. QED BY <2>2, <2>3, <2>4, <2>5, <2>6
  <1>7. ASSUME t.by \in Cleanups
        PROVE  CleanupAt(t.by)' /\ reply[t.by] # "cleaned"
    <2>1. CleanupAt(t.by) /\ (reply[t.by] = "cleaned" => row.code = "OBJECT_CLEANED")
      BY <1>7 DEF IInv, RepliesAreTrue
    <2>2. pc[t.by] \in {"claim_reread", "cleanup_reread", "reject_reread", "confirm", "done"}
          /\ row.status \in {"cleanup_required", "processing"}
      <3>1. t.op \in {"claim_cleanup", "close"}
        BY <1>1, <1>7, RequestsAssumption, TxKind DEF Tx
      <3>2. QED BY <1>1, <3>1 DEF SentBy, Commit, CommitClaim, CommitClaimCleanup,
           CommitReserve, CommitFinalize, CommitClose, MayClaimCleanup, Owns
    <2>3. row.code # "OBJECT_CLEANED"
      BY <1>1, <2>2 DEF TableInv, RowShape, UploadRow, CleanupRow, NoRow, CleanupCode
    <2>4. CleanupAt(t.by)'
      BY <1>1, <2>2 DEF CleanupAt, CleanupWorking
    <2>5. QED BY <2>1, <2>3, <2>4
  <1>8. OwnPart(t.by)'
    BY <1>1, <1>5, <1>6, <1>7 DEF OwnPart
  <1>9. QED BY <1>1, <1>2, <1>3, <1>8, StepKeeps

\* Vanish: a transaction the server rolled back.
LEMMA VanishKeeps ==
  ASSUME IInv, NEW t \in inflight, Vanish(t)
  PROVE  IInv'
  <1>1. /\ TypeOK /\ TableInv /\ t.by \in Workers /\ inflight' = inflight \ {t}
        /\ UNCHANGED <<row, media, stored, puts, now, pc, verdict, view, reply>>
    BY DEF IInv, TypeOK, Tx, Vanish, storage, local
  <1>2. RowStable(t.by) /\ StoreStable(t.by) /\ TableInv'
    BY <1>1, QuietIsStable
  <1>3. TypeOK' /\ OnlyMoves(t.by)
    BY <1>1 DEF TypeOK, OnlyMoves
  <1>4. ASSUME NEW s \in inflight'  PROVE TxOK(s)' /\ SentBy(s)'
    <2>1. s \in inflight /\ s \in Tx /\ TxOK(s) /\ SentBy(s)
      BY <1>1 DEF IInv, TypeOK
    <2>2. TxOK(s)'
      BY <1>1, <2>1 DEF TxOK, CloseOK, Owns, Gone, IssuedBefore
    <2>3. SentBy(s)'
      BY <1>1, <2>1 DEF SentBy
    <2>4. QED BY <2>2, <2>3
  <1>5. t.by \in Uploads => UploadAt(t.by)'
    BY <1>1 DEF IInv, UploadAt, Owns
  <1>6. t.by \in Cleanups => CleanupAt(t.by)'
    BY <1>1 DEF IInv, CleanupAt, Owns, Gone
  <1>7. OwnPart(t.by)'
    BY <1>1, <1>4, <1>5, <1>6 DEF OwnPart, IInv, RepliesAreTrue
  <1>8. QED BY <1>1, <1>2, <1>3, <1>7, StepKeeps

\* LandPut and DropPut: an abandoned PUT exists only while nobody relies on the
\* object being gone.
LEMMA PutEndsKeeps ==
  ASSUME IInv, NEW p \in puts, LandPut(p) \/ DropPut(p)
  PROVE  IInv'
  <1> DEFINE u == p.key
  <1>1. /\ TypeOK /\ TableInv /\ u \in Uploads /\ u \in Workers
        /\ row.key = u /\ puts' = puts \ {p}
        /\ stored' \in {stored, stored \cup {u}}
        /\ UNCHANGED <<row, media, inflight, now, pc, verdict, view, reply>>
        /\ row.code # "OBJECT_CLEANED"
    BY DEF IInv, TypeOK, Put, TableInv, ObjectsAreTracked, CleanedIsGone,
       LandPut, DropPut, db, local, Workers
  <1>2. ~Gone
    BY DEF Gone
  <1>3. TypeOK' /\ OnlyMoves(u)
    BY <1>1 DEF TypeOK, OnlyMoves
  <1>4. RowStable(u) /\ StoreStable(u)
    BY <1>1, <1>2 DEF RowStable, StoreStable, Owns
  <1>5. TableInv'
    BY <1>1 DEF TableInv, RowShape, UploadRow, CleanupRow, CompletedIsStored,
       ObjectsAreTracked, CleanedIsGone, Timing, IssuedBefore
  <1>6. UploadAt(u)'
    BY <1>1 DEF IInv, UploadAt, Owns
  <1>7. ASSUME NEW s \in inflight', s.by = u  PROVE TxOK(s)' /\ SentBy(s)'
    <2>1. s \in inflight /\ s \in Tx /\ TxOK(s) /\ SentBy(s)
      BY <1>1 DEF IInv, TypeOK
    <2>2. TxOK(s)'
      BY <1>1, <1>2, <1>7, <2>1, RequestsAssumption DEF TxOK, CloseOK, Owns
    <2>3. SentBy(s)'
      BY <1>1, <2>1 DEF SentBy
    <2>4. QED BY <2>2, <2>3
  <1>8. OwnPart(u)'
    BY <1>1, <1>6, <1>7, RequestsAssumption DEF OwnPart, IInv, RepliesAreTrue
  <1>9. QED BY <1>1, <1>3, <1>4, <1>5, <1>8, StepKeeps

\* Tick: time passes no deadline.
LEMMA TickKeeps ==
  ASSUME IInv, Tick
  PROVE  IInv'
  <1>1. /\ TypeOK /\ TableInv /\ now' = now + 1 /\ now \in Nat
        /\ \A p \in puts : now < p.until /\ p.until \in Nat
        /\ \A c \in Cleanups : pc[c] = "decide" => now < view[c].seen + OpTimeout
        /\ UNCHANGED <<row, media, inflight, stored, puts, pc, verdict, view, reply>>
    BY DEF IInv, TypeOK, Put, Tick, db, storage, local
  <1>2. TypeOK'
    BY <1>1 DEF TypeOK
  <1>3. ASSUME NEW i, IssuedBefore(i), i \in Nat  PROVE IssuedBefore(i)'
    BY <1>1, <1>3 DEF IssuedBefore
  <1>4. TableInv'
    <2>1. row.absentAt \in Nat \cup {NoTime}
      BY <1>1 DEF TypeOK, Row
    <2>2. Timing'
      <3>1. \A p \in puts : now' <= p.until /\ p.until <= now' + PutLatency
        BY <1>1, TimingAssumption DEF TableInv, Timing
      <3>2. QED BY <1>1, <1>3, <2>1, <3>1 DEF TableInv, Timing
    <2>3. QED BY <1>1, <2>2 DEF TableInv, RowShape, UploadRow, CleanupRow,
              CompletedIsStored, ObjectsAreTracked, CleanedIsGone
  <1>5. \A u \in Uploads : UploadAt(u)'
    BY <1>1 DEF IInv, UploadAt, Owns
  <1>6. ASSUME NEW c \in Cleanups  PROVE CleanupAt(c)'
    <2>1. CleanupAt(c) /\ view[c].seen \in Nat
      BY <1>1 DEF IInv, TypeOK
    <2>2. pc[c] = "decide" => view[c].seen <= now' /\ now' <= view[c].seen + OpTimeout
      BY <1>1, <2>1, TimingAssumption DEF CleanupAt
    <2>3. QED BY <1>1, <2>1, <2>2 DEF CleanupAt, Owns, Gone
  <1>7. ASSUME NEW t \in inflight'  PROVE TxOK(t)' /\ SentBy(t)'
    <2>1. t \in inflight /\ TxOK(t) /\ SentBy(t)
      BY <1>1 DEF IInv
    <2>2. CloseOK(t) => CloseOK(t)'
      BY <1>1, <1>3 DEF CloseOK, Gone
    <2>3. TxOK(t)'
      BY <1>1, <2>1, <2>2 DEF TxOK, Owns
    <2>4. SentBy(t)'
      BY <1>1, <2>1 DEF SentBy
    <2>5. QED BY <2>3, <2>4
  <1>8. RepliesAreTrue'
    BY <1>1 DEF IInv, RepliesAreTrue
  <1>9. QED BY <1>2, <1>4, <1>5, <1>6, <1>7, <1>8 DEF IInv

\* Crash: a dead request answers nothing but an error.
LEMMA CrashKeeps ==
  ASSUME IInv, NEW w \in Workers, Crash(w)
  PROVE  IInv'
  <1>1. TypeOK /\ Answer(w, "error")
        /\ UNCHANGED <<row, media, inflight, stored, puts, now, verdict, view>>
        /\ pc'[w] = "done" /\ reply'[w] = "error"
        /\ (\A t \in inflight : t.by = w => TxOK(t) /\ SentBy(t))
    BY MovedTo DEF IInv, Crash, db, storage, local
  <1>2. \A t \in inflight : t.by = w => SentBy(t)'
    BY <1>1 DEF SentBy, IInv, UploadAt, CleanupAt
  <1>3. CASE w \in Uploads
    <2>1. UploadAt(w)' /\ "done" \in UploadPc /\ \E r \in Reply : Answer(w, r)
      BY <1>1 DEF UploadAt, UploadPc, Reply
    <2>2. QED BY <1>1, <1>2, <1>3, <2>1, UploadQuiet DEF TypeOK
  <1>4. CASE w \in Cleanups
    <2>1. CleanupAt(w)' /\ "done" \in CleanupPc /\ \E r \in Reply : Answer(w, r)
      BY <1>1 DEF CleanupAt, CleanupPc, Reply, CleanupWorking
    <2>2. QED BY <1>1, <1>2, <1>4, <2>1, CleanupQuiet DEF TypeOK
  <1>5. QED BY <1>3, <1>4 DEF Workers

-----------------------------------------------------------------------------
(* The theorems.                                                            *)

\* An empty table, before the first request, satisfies the invariant.
THEOREM InitInv == Init => IInv
  <1> SUFFICES ASSUME Init PROVE IInv
    OBVIOUS
  <1> USE RequestsAssumption DEF Init, NoRow, Workers
  <1>1. TypeOK
    BY DEF TypeOK, Row, Status, FailureCode, UploadPc, CleanupPc, Reply, NoTime
  <1>2. TableInv
    BY DEF TableInv, RowShape, CompletedIsStored, ObjectsAreTracked, CleanedIsGone, Timing
  <1>3. /\ \A u \in Uploads : UploadAt(u)
        /\ \A c \in Cleanups : CleanupAt(c)
    BY DEF UploadAt, CleanupAt, CleanupWorking
  <1>4. RepliesAreTrue
    BY DEF RepliesAreTrue
  <1>5. QED BY <1>1, <1>2, <1>3, <1>4 DEF IInv

\* Every step of a request, of the database, of the provider and of the clock
\* preserves the invariant.
THEOREM NextInv == IInv /\ [Next]_vars => IInv'
  <1> SUFFICES ASSUME IInv, [Next]_vars PROVE IInv'
    OBVIOUS
  <1>1. ASSUME NEW u \in Uploads, UploadStep(u)  PROVE IInv'
    BY <1>1, ClaimKeeps, ClaimRereadKeeps, ValidateKeeps, RejectKeeps,
       RejectRereadKeeps, ReserveKeeps, PutObjectKeeps, FinalizeKeeps,
       FinalizeRereadKeeps, CheckAttemptKeeps, CompensateKeeps,
       RecordFailureKeeps, ReplayKeeps DEF UploadStep
  <1>2. ASSUME NEW c \in Cleanups, CleanupStep(c)  PROVE IInv'
    BY <1>2, ClaimCleanupKeeps, CleanupRereadKeeps, CheckCleanupKeeps,
       HeadKeeps, DeleteKeeps, VerifyKeeps, DecideKeeps, DeferCleanupKeeps,
       CompleteCleanupKeeps, RecordCleanupFailureKeeps, ConfirmCleanupKeeps
       DEF CleanupStep
  <1>3. CASE \E w \in Workers : Crash(w)
    BY <1>3, CrashKeeps
  <1>4. CASE \E t \in inflight : Land(t) \/ Vanish(t)
    BY <1>4, LandKeeps, VanishKeeps
  <1>5. CASE \E p \in puts : LandPut(p) \/ DropPut(p)
    BY <1>5, PutEndsKeeps
  <1>6. CASE Tick
    BY <1>6, TickKeeps
  <1>7. CASE UNCHANGED vars
    <2>1. UNCHANGED <<row, media, stored, puts, inflight, now, pc, verdict, view, reply>>
      BY <1>7 DEF vars
    <2>2. TypeOK' /\ TableInv' /\ RepliesAreTrue'
      BY <2>1 DEF IInv, TypeOK, TableInv, RowShape, UploadRow, CleanupRow,
         CompletedIsStored, ObjectsAreTracked, CleanedIsGone, Timing, IssuedBefore,
         RepliesAreTrue
    <2>3. (\A u \in Uploads : UploadAt(u))' /\ (\A c \in Cleanups : CleanupAt(c))'
      BY <2>1 DEF IInv, UploadAt, CleanupAt, Owns, Gone
    <2>4. (\A t \in inflight : TxOK(t) /\ SentBy(t))'
      BY <2>1 DEF IInv, TxOK, CloseOK, SentBy, Owns, Gone, IssuedBefore
    <2>5. QED BY <2>2, <2>3, <2>4 DEF IInv
  <1>8. QED BY <1>1, <1>2, <1>3, <1>4, <1>5, <1>6, <1>7 DEF Next

\* The invariant holds in every reachable state.
THEOREM Invariant == Spec => []IInv
  BY InitInv, NextInv, PTL DEF Spec

\* Type correctness.
THEOREM TypeCorrect == Spec => []TypeOK
  <1>1. IInv => TypeOK
    BY DEF IInv
  <1>2. QED BY <1>1, Invariant, PTL

\* Publication: a completed row has its object and its one Media, and a Media
\* without a completed row does not exist.
THEOREM PublishedIsStored == Spec => []CompletedIsStored
  <1>1. IInv => CompletedIsStored
    BY DEF IInv, TableInv
  <1>2. QED BY <1>1, Invariant, PTL

\* Every private object can be found from the row that tracks it.
THEOREM NoUntrackedObject == Spec => []ObjectsAreTracked
  <1>1. IInv => ObjectsAreTracked
    BY DEF IInv, TableInv
  <1>2. QED BY <1>1, Invariant, PTL

\* The settling window is long enough: no abandoned PUT revives an object that
\* cleanup declared gone, whatever the number of PUT attempts and requests.
THEOREM CleanupIsFinal == Spec => []CleanedIsGone
  <1>1. IInv => CleanedIsGone
    BY DEF IInv, TableInv
  <1>2. QED BY <1>1, Invariant, PTL

\* A request at a side effect on private storage holds the fencing token.
THEOREM FencingHolds == Spec => []SideEffectsAreFenced
  <1>1. IInv => SideEffectsAreFenced
    <2> SUFFICES ASSUME IInv PROVE SideEffectsAreFenced
      OBVIOUS
    <2>1. ASSUME NEW u \in Uploads, pc[u] \in {"put", "finalize", "compensate"}
          PROVE  Owns(u) /\ row.key = u
      BY <2>1 DEF IInv, UploadAt
    <2>2. ASSUME NEW c \in Cleanups, pc[c] \in {"head", "delete", "verify", "complete"}
          PROVE  Owns(c) /\ row.key # None
      BY <2>2, CleanupFacts DEF CleanupWorking
    <2>3. QED BY <2>1, <2>2 DEF SideEffectsAreFenced
  <1>2. QED BY <1>1, Invariant, PTL

\* No request claims an outcome the table does not show.
THEOREM AnswersAreTrue == Spec => []RepliesAreTrue
  <1>1. IInv => RepliesAreTrue
    BY DEF IInv
  <1>2. QED BY <1>1, Invariant, PTL

-----------------------------------------------------------------------------
(* Steps of the table: action properties and the two refinements.           *)

\* Every change of the row or of the Media is one transaction of the service,
\* acknowledged or late.
LEMMA TableSteps ==
  ASSUME IInv, [Next]_vars
  PROVE  \/ UNCHANGED <<row, media>>
         \/ \E t \in Tx : TxOK(t) /\ Commit(t)
  <1> DEFINE Quiet == UNCHANGED <<row, media>>
             Loud == \E t \in Tx : TxOK(t) /\ Commit(t)
  <1>1. ASSUME NEW u \in Uploads, UploadStep(u)  PROVE Quiet \/ Loud
    <2>0. u \in Workers /\ UploadAt(u) /\ TypeOK
      BY UploadFacts
    <2>1. CASE Claim(u)
      <3>1. ClaimTx(u) \in Tx /\ TxOK(ClaimTx(u))
        BY TxTypes DEF TxOK, ClaimTx
      <3>2. QED BY <2>1, <3>1 DEF Claim, Acked, Lost, db
    <2>2. CASE Reject(u)
      <3> DEFINE t == CloseTx(u, "rejected", "REJECTED", KeepTime)
      <3>1. t \in Tx /\ TxOK(t)
        BY <2>0, TxTypes DEF TxOK, CloseOK, CloseTx, Status, FailureCode
      <3>2. QED BY <2>2, <3>1 DEF Reject, Acked, Lost, db
    <2>3. CASE Reserve(u)
      <3>1. ReserveTx(u) \in Tx /\ TxOK(ReserveTx(u))
        BY TxTypes DEF TxOK, ReserveTx
      <3>2. QED BY <2>3, <3>1 DEF Reserve, Acked, Lost, db
    <2>4. CASE Finalize(u)
      <3>1. FinalizeTx(u) \in Tx /\ TxOK(FinalizeTx(u))
        BY <2>0, <2>4, TxTypes DEF TxOK, FinalizeTx, Finalize, UploadAt
      <3>2. QED BY <2>4, <3>1 DEF Finalize, Acked, Lost, db
    <2>5. CASE RecordFailure(u)
      <3> DEFINE t == CloseTx(u, verdict[u].status, verdict[u].code, KeepTime)
      <3>1. verdict[u].status \in Status /\ verdict[u].code \in FailureCode
        BY <2>0 DEF TypeOK, Status
      <3>2. t \in Tx /\ TxOK(t)
        BY <2>0, <2>5, <3>1, TxTypes DEF TxOK, CloseOK, CloseTx, UploadAt, RecordFailure
      <3>3. QED BY <2>5, <3>2 DEF RecordFailure, Acked, Lost, db
    <2>6. CASE \/ ClaimReread(u) \/ Validate(u) \/ RejectReread(u) \/ PutObject(u)
               \/ FinalizeReread(u) \/ CheckAttempt(u) \/ Compensate(u) \/ Replay(u)
      BY <2>6 DEF ClaimReread, Validate, RejectReread, PutObject, FinalizeReread,
         CheckAttempt, Compensate, Replay, db
    <2>7. QED BY <1>1, <2>1, <2>2, <2>3, <2>4, <2>5, <2>6 DEF UploadStep
  <1>2. ASSUME NEW c \in Cleanups, CleanupStep(c)  PROVE Quiet \/ Loud
    <2>0. c \in Workers /\ CleanupAt(c) /\ TypeOK /\ TableInv
          /\ (pc[c] \in CleanupWorking => row.marked /\ view[c].absent = row.absentAt)
      BY CleanupFacts
    <2>1. CASE ClaimCleanup(c)
      <3>1. ClaimCleanupTx(c) \in Tx /\ TxOK(ClaimCleanupTx(c))
        BY TxTypes DEF TxOK, ClaimCleanupTx
      <3>2. QED BY <2>1, <3>1 DEF ClaimCleanup, Acked, Lost, db
    <2>2. CASE DeferCleanup(c)
      <3> DEFINE t == CloseTx(c, "cleanup_required", "OBJECT_CLEANUP_SETTLING",
                              ObservedAt(c))
      <3>1. ObservedAt(c) \in Nat /\ IssuedBefore(ObservedAt(c))
        <4>1. view[c].absent \in Nat \cup {NoTime} /\ now \in Nat
              /\ view[c].absent = row.absentAt
          BY <2>0, <2>2 DEF TypeOK, DeferCleanup, CleanupWorking
        <4>2. IssuedBefore(now)
          BY <2>0, TimingAssumption DEF IssuedBefore, TableInv, Timing, TypeOK, Put
        <4>3. view[c].absent # NoTime => IssuedBefore(view[c].absent)
          BY <2>0, <4>1 DEF TableInv, Timing
        <4>4. QED BY <4>1, <4>2, <4>3 DEF ObservedAt
      <3>2. t \in Tx /\ TxOK(t)
        BY <2>0, <2>2, <3>1, TxTypes DEF TxOK, CloseOK, CloseTx, DeferCleanup,
           CleanupWorking, Status, FailureCode, CleanupCode
      <3>3. QED BY <2>2, <3>2 DEF DeferCleanup, Acked, Lost, db
    <2>3. CASE CompleteCleanup(c)
      <3> DEFINE t == CloseTx(c, "failed", "OBJECT_CLEANED", KeepTime)
      <3>1. t \in Tx /\ TxOK(t)
        BY <2>0, <2>3, TxTypes DEF TxOK, CloseOK, CloseTx, CompleteCleanup, CleanupAt,
           CleanupWorking, Status, FailureCode
      <3>2. QED BY <2>3, <3>1 DEF CompleteCleanup, Acked, Lost, db
    <2>4. CASE RecordCleanupFailure(c)
      <3> DEFINE t == CloseTx(c, "cleanup_required", "OBJECT_CLEANUP_REQUIRED", NoTime)
      <3>1. t \in Tx /\ TxOK(t)
        BY <2>0, <2>4, TxTypes DEF TxOK, CloseOK, CloseTx, RecordCleanupFailure,
           CleanupWorking, Status, FailureCode, CleanupCode
      <3>2. QED BY <2>4, <3>1 DEF RecordCleanupFailure, Acked, Lost, db
    <2>5. CASE \/ CleanupReread(c) \/ CheckCleanup(c) \/ Head(c) \/ Delete(c)
               \/ Verify(c) \/ Decide(c) \/ ConfirmCleanup(c)
      BY <2>5 DEF CleanupReread, CheckCleanup, Head, Delete, Verify, Decide,
         ConfirmCleanup, db
    <2>6. QED BY <1>2, <2>1, <2>2, <2>3, <2>4, <2>5 DEF CleanupStep
  <1>3. ASSUME NEW t \in inflight, Land(t) \/ Vanish(t)  PROVE Quiet \/ Loud
    BY <1>3 DEF Land, Vanish, IInv, TypeOK
  <1>4. CASE \/ \E w \in Workers : Crash(w)
             \/ \E p \in puts : LandPut(p) \/ DropPut(p)
             \/ Tick
             \/ UNCHANGED vars
    BY <1>4 DEF Crash, LandPut, DropPut, Tick, vars, db
  <1>5. QED BY <1>1, <1>2, <1>3, <1>4 DEF Next

\* After its key is reserved a row is taken over by cleanup requests only.
THEOREM KeyIsNeverReused == Spec => ReservedKeyIsNeverReused
  <1> DEFINE Step == row.key # None =>
                       /\ row'.key = row.key
                       /\ row'.token # row.token => row'.token \in Cleanups
  <1>1. ASSUME IInv, [Next]_vars PROVE Step
    <2>1. CASE UNCHANGED <<row, media>>
      BY <2>1
    <2>2. ASSUME NEW t \in Tx, TxOK(t), Commit(t)  PROVE Step
      <3> USE DEF IInv, TypeOK, Row, Owns
      <3>1. CASE CommitClaim(t)
        BY <1>1, <3>1 DEF CommitClaim, MayClaim, TableInv, RowShape,
           UploadRow, CleanupRow, NoRow
      <3>2. CASE CommitClaimCleanup(t)
        BY <1>1, <2>2, <3>2, TxKind DEF CommitClaimCleanup
      <3>3. CASE CommitReserve(t)
        <4>1. t.by \in Uploads /\ t.by \notin Cleanups /\ row' = [row EXCEPT !.key = t.by]
              /\ row.token = t.by
          BY <2>2, <3>3, TxKind, RequestsAssumption DEF CommitReserve
        <4>2. row.key \in {None, t.by}
          BY <1>1, <3>3, <4>1 DEF CommitReserve, TableInv, RowShape, UploadRow, CleanupRow, NoRow
        <4>3. QED BY <1>1, <4>1, <4>2
      <3>4. CASE CommitFinalize(t) \/ CommitClose(t)
        BY <1>1, <3>4 DEF CommitFinalize, CommitClose
      <3>5. QED BY <2>2, <3>1, <3>2, <3>3, <3>4 DEF Commit
    <2>3. QED BY <1>1, <2>1, <2>2, TableSteps
  <1>2. QED BY <1>1, Invariant, PTL DEF Spec, ReservedKeyIsNeverReused

\* The service never asks for a transition the database refuses, even when a
\* transaction commits after its request has given up on it.
THEOREM LifecycleIsRespected == Spec => LifecycleRespected
  <1>1. Init => Lifecycle!Init
    BY DEF Init, NoRow, Lifecycle!Init
  <1>2. ASSUME IInv, [Next]_vars PROVE [Lifecycle!Next]_row
    <2>1. CASE UNCHANGED <<row, media>>
      BY <2>1
    <2>2. ASSUME NEW t \in Tx, TxOK(t), Commit(t)  PROVE Lifecycle!Next
      <3>0. row \in Row /\ RowShape
        BY <1>2 DEF IInv, TypeOK, TableInv
      <3> USE <3>0 DEF Row, Owns, Lifecycle!Next, Lifecycle!Insert, Lifecycle!Update,
            Lifecycle!Terminal, Lifecycle!StatusMove, Lifecycle!FenceMove,
            Lifecycle!MarkMove, Lifecycle!CleanupState, Lifecycle!Coherent,
            RowShape, UploadRow, CleanupRow, NoRow, CleanupCode, UploadFailure
      <3>1. CASE CommitClaim(t)
        BY <3>1 DEF CommitClaim, MayClaim
      <3>2. CASE CommitClaimCleanup(t)
        BY <3>2 DEF CommitClaimCleanup, MayClaimCleanup
      <3>3. CASE CommitReserve(t)
        BY <2>2, <3>3, TxKind, RequestsAssumption DEF CommitReserve, Workers
      <3>4. CASE CommitFinalize(t)
        BY <2>2, <3>4, TxKind, RequestsAssumption DEF CommitFinalize, Workers
      <3>5. CASE CommitClose(t)
        <4>1. CloseOK(t)
          BY <2>2, <3>5 DEF CommitClose, TxOK, ClaimTx, ReserveTx, ClaimCleanupTx, FinalizeTx
        <4>2. QED BY <4>1, <3>5, RequestsAssumption DEF CommitClose, CloseOK, Workers
      <3>6. QED BY <2>2, <3>1, <3>2, <3>3, <3>4, <3>5 DEF Commit
    <2>3. QED BY <1>2, <2>1, <2>2, TableSteps
  <1>3. QED BY <1>1, <1>2, Invariant, PTL DEF Spec, LifecycleRespected, Lifecycle!Spec

\* A request answers once: before its answer it has none.
AnsweredOnce == \A w \in Workers : pc[w] # "done" => reply[w] = "none"

\* A step moves at most one request, which had not answered; it answers success
\* only when it replays a published asset or its own finalize is acknowledged.
LEMMA AnswerSteps ==
  ASSUME [Next]_vars
  PROVE  \/ UNCHANGED <<pc, reply>>
         \/ \E w \in Workers :
              /\ pc[w] # "done"
              /\ \/ \E l \in UploadPc \cup CleanupPc : Goto(w, l)
                 \/ \E r \in Reply \ {"success"} : Answer(w, r)
                 \/ /\ w \in Uploads /\ Answer(w, "success")
                    /\ \/ Acked(FinalizeTx(w))
                       \/ pc[w] = "replay" /\ row.token \in media /\ UNCHANGED db
  <1> DEFINE Moves(w) ==
              /\ pc[w] # "done"
              /\ \/ \E l \in UploadPc \cup CleanupPc : Goto(w, l)
                 \/ \E r \in Reply \ {"success"} : Answer(w, r)
                 \/ /\ w \in Uploads /\ Answer(w, "success")
                    /\ \/ Acked(FinalizeTx(w))
                       \/ pc[w] = "replay" /\ row.token \in media /\ UNCHANGED db
  <1>1. ASSUME NEW u \in Uploads, UploadStep(u)  PROVE Moves(u)
    <2> USE DEF UploadPc, Reply
    <2>1. CASE Claim(u) \/ ClaimReread(u) \/ Reject(u) \/ RejectReread(u)
      BY <2>1 DEF Claim, ClaimReread, Reject, RejectReread
    <2>2. CASE Validate(u) \/ Reserve(u) \/ PutObject(u) \/ CheckAttempt(u)
               \/ Compensate(u)
      BY <2>2 DEF Validate, Reserve, PutObject, CheckAttempt, Compensate, Record
    <2>3. CASE Finalize(u) \/ FinalizeReread(u) \/ RecordFailure(u) \/ Replay(u)
      BY <2>3 DEF Finalize, FinalizeReread, RecordFailure, Replay
    <2>4. QED BY <1>1, <2>1, <2>2, <2>3 DEF UploadStep
  <1>2. ASSUME NEW c \in Cleanups, CleanupStep(c)  PROVE Moves(c)
    <2> USE DEF CleanupPc, Reply
    <2>1. CASE ClaimCleanup(c) \/ CleanupReread(c) \/ CheckCleanup(c) \/ Head(c)
      BY <2>1 DEF ClaimCleanup, CleanupReread, CheckCleanup, Head
    <2>2. CASE Delete(c) \/ Verify(c) \/ ConfirmCleanup(c)
      BY <2>2 DEF Delete, Verify, ConfirmCleanup
    <2>3. CASE Decide(c)
      <3>1. PICK l \in {"complete", "defer"} : Goto(c, l) /\ pc[c] = "decide"
        BY <2>3 DEF Decide
      <3>2. QED BY <3>1
    <2>4. CASE DeferCleanup(c) \/ CompleteCleanup(c) \/ RecordCleanupFailure(c)
      BY <2>4 DEF DeferCleanup, CompleteCleanup, RecordCleanupFailure
    <2>5. QED BY <1>2, <2>1, <2>2, <2>3, <2>4 DEF CleanupStep
  <1>3. ASSUME NEW w \in Workers, Crash(w)  PROVE Moves(w)
    BY <1>3 DEF Crash, Reply
  <1>4. CASE \/ \E t \in inflight : Land(t) \/ Vanish(t)
             \/ \E p \in puts : LandPut(p) \/ DropPut(p)
             \/ Tick
             \/ UNCHANGED vars
    BY <1>4 DEF Land, Vanish, LandPut, DropPut, Tick, vars
  <1>5. QED BY <1>1, <1>2, <1>3, <1>4 DEF Next, Workers

\* No request answers twice.
THEOREM RequestsAnswerOnce == Spec => []AnsweredOnce
  <1>1. Init => AnsweredOnce
    BY DEF Init, AnsweredOnce
  <1>2. TypeOK /\ AnsweredOnce /\ [Next]_vars => AnsweredOnce'
    BY AnswerSteps DEF AnsweredOnce, Goto, Answer, TypeOK
  <1>3. QED BY <1>1, <1>2, TypeCorrect, PTL DEF Spec

\* The ingestion of a key implements the promise of an Idempotency-Key.
THEOREM UploadIsIdempotentHolds == Spec => UploadIsIdempotent
  <1> DEFINE answered == {u \in Uploads : reply[u] = "success"}
  <1>1. Init => Promise!Init
    BY DEF Init, Promise!Init, Workers
  <1>2. ASSUME IInv, AnsweredOnce, [Next]_vars
        PROVE  [Promise!Next]_<<media, answered>>
    <2>0. TypeOK /\ RowShape /\ CompletedIsStored
      BY <1>2 DEF IInv, TableInv
    <2>1. media' = media \/ \E u \in Uploads : media = {} /\ media' = {u}
      <3>1. CASE UNCHANGED <<row, media>>
        BY <3>1
      <3>2. ASSUME NEW t \in Tx, TxOK(t), Commit(t)
            PROVE  media' = media \/ \E u \in Uploads : media = {} /\ media' = {u}
        <4>1. CASE CommitFinalize(t)
          BY <2>0, <3>2, <4>1, TxKind DEF CommitFinalize, Owns, CompletedIsStored
        <4>2. CASE ~CommitFinalize(t)
          BY <3>2, <4>2 DEF Commit, CommitClaim, CommitClaimCleanup, CommitReserve,
             CommitClose
        <4>3. QED BY <4>1, <4>2
      <3>3. QED BY <1>2, <3>1, <3>2, TableSteps
    <2>2. CASE answered' = answered
      BY <2>1, <2>2 DEF Promise!Next, Promise!Publish
    <2>3. ASSUME NEW u \in Uploads, pc[u] # "done", Answer(u, "success"),
                 \/ Acked(FinalizeTx(u))
                 \/ pc[u] = "replay" /\ row.token \in media /\ UNCHANGED db
          PROVE  Promise!Next
      <3>1. answered' = answered \cup {u}
        BY <2>0, <2>3 DEF Answer, TypeOK, Workers
      <3>2. CASE Acked(FinalizeTx(u))
        <4>1. media = {} /\ media' = {u}
          BY <2>0, <3>2 DEF Acked, Commit, CommitClaim, CommitClaimCleanup, CommitReserve,
             CommitFinalize, CommitClose, FinalizeTx, Owns, CompletedIsStored
        <4>2. QED BY <3>1, <4>1 DEF Promise!Next, Promise!Publish
      <3>3. CASE pc[u] = "replay" /\ row.token \in media /\ UNCHANGED db
        <4>1. UploadAt(u) /\ row.status = "completed" /\ row.print = Fingerprint[u]
          BY <1>2, <3>3 DEF IInv, UploadAt
        <4>2. row.token \in Uploads /\ Fingerprint[row.token] = row.print
          BY <2>0, <4>1 DEF RowShape, UploadRow, CleanupRow, NoRow
        <4>3. QED BY <3>1, <3>3, <4>1, <4>2 DEF Promise!Next, Promise!Answer, db
      <3>4. QED BY <2>3, <3>2, <3>3
    <2>4. CASE UNCHANGED <<pc, reply>>
      BY <2>2, <2>4
    <2>5. ASSUME NEW w \in Workers, pc[w] # "done",
                 \/ \E l \in UploadPc \cup CleanupPc : Goto(w, l)
                 \/ \E r \in Reply \ {"success"} : Answer(w, r)
          PROVE  answered' = answered
      <3>1. reply[w] = "none"
        BY <1>2, <2>5 DEF AnsweredOnce
      <3>2. QED BY <2>0, <2>5, <3>1 DEF Goto, Answer, TypeOK, Workers
    <2>6. QED BY <1>2, <2>2, <2>3, <2>4, <2>5, AnswerSteps
  <1>3. QED
    BY <1>1, <1>2, Invariant, RequestsAnswerOnce, PTL
    DEF Spec, UploadIsIdempotent, Promise!Spec
=============================================================================
