-------------------------- MODULE DataIntegrityProofs --------------------------
(***************************************************************************)
(* What the database and the export promise about the data, for every      *)
(* value of the constants: the triggers of the curriculum, the history of  *)
(* the migrations, the copy of the export, the offers of the path and the  *)
(* streak.                                                                 *)
(***************************************************************************)
EXTENDS MCDataIntegrity, FiniteSetTheorems, SequenceTheorems, WellFoundedInduction, TLAPS

\* A behaviour of the five together is one of each (they share no variable).
THEOREM EachPart == MCSpec => Spec /\ S!Spec /\ M!Spec /\ L!Spec /\ K!Spec
<1>1. MCInit => Init /\ S!Init /\ M!Init /\ L!Init /\ K!Init
  BY DEF MCInit, SnapshotAtRest, MigrationAtRest, PathInit, PathAtRest
<1> DEFINE all == <<vars, side, snapshotVars, migrationVars, pathVars, streakVars>>
<1>2. [MCNext]_all =>
        [Next]_vars /\ [S!Next]_(S!vars) /\ [M!Next]_(M!vars)
          /\ [L!Next]_(L!vars) /\ [K!Next]_(K!vars)
  <2> USE DEF snapshotVars, migrationVars, pathVars, streakVars, S!vars, S!writers,
              S!reader, M!vars, L!vars, L!content, L!personal, L!request, K!vars, K!request
  <2>1. UNCHANGED all => UNCHANGED <<vars, S!vars, M!vars, L!vars, K!vars>>
    OBVIOUS
  <2>2. MCNext =>
          /\ Next \/ UNCHANGED vars
          /\ S!Next \/ UNCHANGED S!vars
          /\ M!Next \/ UNCHANGED M!vars
          /\ L!Next \/ UNCHANGED L!vars
          /\ K!Next \/ UNCHANGED K!vars
    BY DEF MCNext, NextAbout
  <2> QED BY <2>1, <2>2
<1>. QED
  BY <1>1, <1>2, PTL DEF MCSpec, Spec, S!Spec, M!Spec, L!Spec, K!Spec

\* A set of natural numbers that is not empty has a least element.
LEMMA NatMin ==
  ASSUME NEW T \in SUBSET Nat, T # {}
  PROVE  \E x \in T : \A y \in T : x <= y
<1> DEFINE Below == {0..x : x \in T}
<1>1. Below \subseteq FiniteSubsetsOf(Nat) /\ Below # {}
  <2>1. ASSUME NEW x \in T PROVE 0..x \in FiniteSubsetsOf(Nat)
    <3>1. IsFiniteSet(0..x)
      BY FS_Interval
    <3>. QED
      BY <3>1 DEF FiniteSubsetsOf
  <2>. QED
    BY <2>1
<1>2. IsWellFoundedOn(StrictSubsetOrdering(Nat), FiniteSubsetsOf(Nat))
  BY FS_StrictSubsetOrderingWellFounded
<1>3. PICK b \in Below : \A c \in Below : ~(<<c, b>> \in StrictSubsetOrdering(Nat))
  <2> HIDE DEF Below
  <2>. QED
    BY <1>1, <1>2, WFMin, Zenon
<1>4. PICK x \in T : b = 0..x
  OBVIOUS
<1>5. \A y \in T : x <= y
  <2>1. SUFFICES ASSUME NEW y \in T, y < x PROVE FALSE
    OBVIOUS
  <2>2. <<0..y, b>> \in StrictSubsetOrdering(Nat)
    BY <1>4, <2>1 DEF StrictSubsetOrdering
  <2>. QED
    BY <1>3, <2>2
<1>. QED
  BY <1>5

-----------------------------------------------------------------------------
(***************************************************************************)
(* Migrations, for any number of deploys and resolves.                     *)
(*                                                                         *)
(* Who may change the history holds the advisory lock: the engine at work, *)
(* the batch it left running in PostgreSQL, or the resolve's transaction   *)
(* (LockInv).  What the holder has seen of the history is still so when it *)
(* writes (BatchInv, ResolveInv), and what it wrote is what its exit tells *)
(* (ExitInv).                                                              *)
(***************************************************************************)

Row == [state : M!States, done : BOOLEAN]
RunStates ==
  {"idle", "preflight", "deploy", "stopping", "classify", "advisory", "reported", "dead"} \cup M!InTransaction
Exits == {"none", "unsafe", "lock_timeout", "failed", "retry_block", "domain_preflight", "ok", "internal",
          "deadline", "signal"}
RunRecord == [kind : {"none", "deploy", "resolve"}, pc : RunStates, late : BOOLEAN, signal : BOOLEAN,
              exit : Exits, changed : BOOLEAN]
Working == {"history", "send", "await", "committed", "refused", "locked_out", "failed"}
EngineStates == {"none", "lock", "blocked", "timed_out", "finished"} \cup Working

MigrationType ==
  /\ history \in Seq(Row) /\ sound \in BOOLEAN /\ lock \in Runs \cup {NoRun}
  /\ run \in [Runs -> RunRecord] /\ group \in [Runs -> SUBSET M!Processes]
  /\ engine \in [Runs -> EngineStates] /\ session \in [Runs -> {"none", "idle", "batch"}]

Alive(r) == "engine" \in group[r]

\* Where a wrapper is, by its kind.
KindInv(r) ==
  /\ run[r].pc = "idle" <=> run[r].kind = "none"
  /\ run[r].kind = "deploy" => run[r].pc \notin M!InTransaction \cup {"advisory"}
  /\ run[r].kind = "resolve" =>
       run[r].pc \in M!InTransaction \cup {"advisory", "reported", "dead"}

\* The processes of a deploy; nothing else has any, nor has a deploy that is over.
ProcessInv(r) ==
  /\ run[r].kind # "deploy" \/ run[r].pc = "preflight" =>
       group[r] = {} /\ engine[r] = "none" /\ session[r] = "none"
  /\ run[r].kind = "deploy" /\ run[r].pc \in {"classify", "reported"} => group[r] = {}
  /\ Alive(r) => engine[r] \in Working \cup {"lock"}
                 /\ session[r] = IF engine[r] = "await" THEN "batch" ELSE "idle"
  /\ ~Alive(r) => session[r] # "idle"

HoldsLock(r) ==
  \/ Alive(r) /\ engine[r] \in Working
  \/ session[r] = "batch"
  \/ run[r].pc \in M!InTransaction
LockInv(r) == HoldsLock(r) => lock = r

\* The last row of the history is the engine's own, until it is finished.
BatchInv(r) ==
  /\ session[r] = "batch" \/ (Alive(r) /\ engine[r] \in Working \ {"history"}) =>
       Len(history) > 0 /\ history[Len(history)].state = "unfinished"
  /\ Alive(r) /\ engine[r] = "committed" => history[Len(history)].done
  /\ session[r] = "batch" \/ (Alive(r) /\ engine[r] \in Working \ {"history", "committed"}) =>
       ~history[Len(history)].done

\* A resolve that goes on has seen one unfinished row, and no trace of its statements.
ResolveInv(r) ==
  run[r].pc \in {"mutate", "verify", "commit"} =>
    Len(history) = 1 /\ history[1].state = "unfinished" /\ (Guarded => ~history[1].done)

RolledBack == \E i \in DOMAIN history : history[i].state = "rolledback"

\* A batch is running in PostgreSQL, or is about to be sent there.
Sending(r) == session[r] = "batch" \/ (Alive(r) /\ engine[r] = "send")

\* A row stands for a migration that was not applied, and no batch can apply it any more.
Leftover ==
  \E i \in DOMAIN history :
    /\ ~history[i].done
    /\ \/ history[i].state = "rolledback"
       \/ history[i].state = "unfinished" /\ \A r \in Runs : ~Sending(r)

\* What a run has changed and found, and what it exits with.
ExitInv(r) ==
  /\ run[r].kind = "deploy" /\ engine[r] \in {"none", "lock", "history", "blocked", "timed_out"} => ~run[r].changed
  /\ engine[r] = "finished" => M!Finished
  /\ engine[r] \in {"refused", "locked_out"} => Leftover
  /\ run[r].kind \in {"none", "resolve"} /\ run[r].pc \notin {"reported", "dead"} => ~run[r].changed
  /\ run[r].pc = "reported" =>
       /\ run[r].exit \in {"unsafe", "retry_block"} => ~run[r].changed
       /\ run[r].exit \in {"lock_timeout", "domain_preflight"} /\ run[r].changed => Leftover
       /\ run[r].exit = "ok" /\ run[r].kind = "deploy" => M!Finished
       /\ run[r].exit = "ok" /\ run[r].kind = "resolve" => RolledBack
       /\ run[r].kind = "resolve" /\ run[r].changed => run[r].exit \in {"ok", "internal", "deadline"}

Truth ==
  \A i \in DOMAIN history :
    /\ history[i].state = "finished" => history[i].done
    /\ Guarded /\ history[i].state = "rolledback" => ~history[i].done

RunInv(r) ==
  KindInv(r) /\ ProcessInv(r) /\ LockInv(r) /\ BatchInv(r) /\ ResolveInv(r) /\ ExitInv(r)
MigrationInv == MigrationType /\ Truth /\ \A r \in Runs : RunInv(r)

Others(r) ==
  \A q \in Runs \ {r} : run'[q] = run[q] /\ group'[q] = group[q] /\ engine'[q] = engine[q] /\ session'[q] = session[q]

\* A step of one run that writes the history only under its lock, and keeps what was finished,
\* rolled back and left over, keeps the invariant of every other run.
LEMMA OthersKept ==
  ASSUME MigrationInv, MigrationType', Truth', NEW r \in Runs, Others(r), RunInv(r)',
         lock' = lock \/ lock \in {r, NoRun},
         history' = history \/ lock = r,
         M!Finished => M!Finished', RolledBack => RolledBack', Leftover => Leftover'
  PROVE  MigrationInv'
<1> SUFFICES ASSUME NEW q \in Runs \ {r} PROVE RunInv(q)'
  BY DEF MigrationInv
<1>1. RunInv(q) /\ run'[q] = run[q] /\ group'[q] = group[q] /\ engine'[q] = engine[q] /\ session'[q] = session[q]
  BY DEF MigrationInv, Others
<1>2. HoldsLock(q)' <=> HoldsLock(q)
  BY <1>1 DEF HoldsLock, Alive
<1>3. HoldsLock(q) => lock' = q /\ history' = history
  BY <1>1, IntegrityAssumption DEF RunInv, LockInv
<1>4. KindInv(q)' /\ ProcessInv(q)'
  BY <1>1 DEF RunInv, KindInv, ProcessInv, Alive
<1>5. LockInv(q)'
  BY <1>2, <1>3 DEF LockInv
<1>6. BatchInv(q)'
  <2>1. CASE HoldsLock(q)
    BY <1>1, <1>3, <2>1 DEF RunInv, BatchInv, Alive
  <2>2. CASE ~HoldsLock(q)
    BY <1>1, <2>2 DEF HoldsLock, BatchInv, Alive, Working
  <2> QED BY <2>1, <2>2
<1>7. ResolveInv(q)'
  <2>1. CASE HoldsLock(q)
    BY <1>1, <1>3, <2>1 DEF RunInv, ResolveInv
  <2>2. CASE ~HoldsLock(q)
    BY <1>1, <2>2 DEF HoldsLock, ResolveInv, M!InTransaction
  <2> QED BY <2>1, <2>2
<1>8. ExitInv(q)'
  BY <1>1 DEF RunInv, ExitInv
<1> QED BY <1>4, <1>5, <1>6, <1>7, <1>8 DEF RunInv

\* What is left over stays so while no new batch comes up.
LEMMA LeftoverKept ==
  ASSUME NEW r \in Runs, Others(r), history' = history, Sending(r)' => Sending(r)
  PROVE  Leftover => Leftover'
<1>1. \A q \in Runs : Sending(q)' => Sending(q)
  BY DEF Others, Sending, Alive
<1> QED BY <1>1 DEF Leftover

\* The same for a step that leaves the history alone.
LEMMA HistoryKept ==
  ASSUME MigrationInv, MigrationType', NEW r \in Runs, Others(r), history' = history,
         Sending(r)' => Sending(r), lock' = lock \/ lock \in {r, NoRun}, RunInv(r)'
  PROVE  MigrationInv'
<1>1. Truth' /\ (M!Finished => M!Finished') /\ (RolledBack => RolledBack')
  BY DEF MigrationInv, Truth, M!Finished, RolledBack
<1> QED BY <1>1, LeftoverKept, OthersKept

\* A step of a wrapper that takes or gives back the lock at most.
LEMMA WrapperStep ==
  ASSUME MigrationInv, NEW r \in Runs, NEW k \in RunRecord, run' = [run EXCEPT ![r] = k],
         UNCHANGED <<history, sound, group, engine, session>>,
         lock' = lock \/ (lock' = NoRun /\ lock = r) \/ (lock' = r /\ lock = NoRun),
         RunInv(r)'
  PROVE  MigrationInv'
<1>1. MigrationType'
  BY DEF MigrationInv, MigrationType
<1>2. Others(r) /\ (Sending(r)' => Sending(r))
  BY DEF MigrationInv, MigrationType, Others, Sending, Alive
<1> QED BY <1>1, <1>2, HistoryKept

\* Such a step of a run that is not a transaction, or that stays where it is in one.
LEMMA RunStep ==
  ASSUME MigrationInv, NEW r \in Runs, NEW k \in RunRecord, run' = [run EXCEPT ![r] = k],
         UNCHANGED <<history, sound, group, engine, session, lock>>,
         k.kind = run[r].kind, k.changed = run[r].changed, k.pc \notin {"idle", "reported"}, run[r].pc # "idle",
         \/ k.pc = run[r].pc
         \/ k.kind = "deploy" /\ k.pc \in {"stopping", "dead"} /\ run[r].pc # "preflight"
         \/ k.kind = "deploy" /\ k.pc = "classify" /\ group[r] = {}
         \/ k.kind = "deploy" /\ k.pc = "dead"
  PROVE  MigrationInv'
<1>1. run'[r] = k /\ RunInv(r)
  BY DEF MigrationInv, MigrationType
<1>2. KindInv(r)'
  BY <1>1 DEF RunInv, KindInv, M!InTransaction, RunRecord
<1>3. ProcessInv(r)'
  BY <1>1 DEF RunInv, ProcessInv, Alive, KindInv
<1>4. LockInv(r)' /\ ResolveInv(r)' /\ BatchInv(r)'
  BY <1>1 DEF RunInv, LockInv, HoldsLock, Alive, ResolveInv, BatchInv, M!InTransaction
<1>5. ExitInv(r)'
  BY <1>1 DEF RunInv, ExitInv, KindInv, M!Finished, Leftover, Sending, Alive
<1> QED BY <1>2, <1>3, <1>4, <1>5, WrapperStep DEF RunInv

\* A run ends with an exit, its lock given back: nothing of it works on.
LEMMA RunReports ==
  ASSUME MigrationInv, NEW r \in Runs, NEW exit \in Exits, M!Report(r, exit),
         UNCHANGED <<history, sound, group, engine, session>>,
         lock' = lock \/ (lock' = NoRun /\ lock = r),
         run[r].kind # "none",
         run[r].kind = "deploy" => group[r] = {} /\ (exit = "ok" => engine[r] = "finished") /\ lock' = lock
           /\ (exit \in {"unsafe", "retry_block"} => ~run[r].changed)
           /\ (exit \in {"lock_timeout", "domain_preflight"} /\ run[r].changed => Leftover),
         run[r].kind = "resolve" => ~run[r].changed /\ exit # "ok"
  PROVE  MigrationInv'
<1>1. PICK e : e = IF run[r].signal /\ ~(run[r].kind = "resolve" /\ exit = "ok") THEN "signal" ELSE exit
  OBVIOUS
<1>2. PICK k : k = [run[r] EXCEPT !.pc = "reported", !.exit = e]
  OBVIOUS
<1>3. run[r] \in RunRecord /\ e \in Exits /\ RunInv(r)
  BY <1>1 DEF MigrationInv, MigrationType, Exits
<1>4. k \in RunRecord /\ k.pc = "reported" /\ k.exit = e /\ k.kind = run[r].kind /\ k.changed = run[r].changed
  BY <1>2, <1>3 DEF RunRecord, RunStates
<1>5. run' = [run EXCEPT ![r] = k] /\ run'[r] = k
  BY <1>1, <1>2, <1>3 DEF M!Report, MigrationInv, MigrationType, RunRecord
<1>6. KindInv(r)'
  BY <1>3, <1>4, <1>5 DEF RunInv, KindInv, M!InTransaction
<1>7. ProcessInv(r)'
  BY <1>3, <1>4, <1>5 DEF RunInv, ProcessInv, Alive, KindInv, RunRecord
<1>8. LockInv(r)'
  <2>1. session[r] = "batch" => run[r].kind = "deploy" /\ lock = r
    BY <1>3 DEF RunInv, ProcessInv, LockInv, HoldsLock, RunRecord
  <2>2. ~Alive(r)
    BY <1>3 DEF RunInv, ProcessInv, Alive, RunRecord
  <2> QED BY <1>4, <1>5, <2>1, <2>2 DEF LockInv, HoldsLock, Alive, M!InTransaction
<1>9. BatchInv(r)' /\ ResolveInv(r)'
  BY <1>3, <1>4, <1>5 DEF RunInv, BatchInv, ResolveInv, Alive
<1>10. ExitInv(r)'
  <2>1. (M!Finished <=> M!Finished') /\ (RolledBack <=> RolledBack') /\ (Leftover <=> Leftover')
    BY DEF M!Finished, RolledBack, Leftover, Sending, Alive
  <2> QED BY <1>1, <1>3, <1>4, <1>5, <2>1 DEF RunInv, ExitInv, RunRecord
<1> QED BY <1>4, <1>5, <1>6, <1>7, <1>8, <1>9, <1>10, WrapperStep DEF RunInv

\* What is known of a run before its step.
LEMMA RunFacts ==
  ASSUME MigrationInv, NEW r \in Runs
  PROVE  /\ run[r] \in RunRecord /\ RunInv(r)
         /\ \A pc \in RunStates : [run[r] EXCEPT !.pc = pc] \in RunRecord
         /\ [run[r] EXCEPT !.late = TRUE] \in RunRecord /\ [run[r] EXCEPT !.signal = TRUE] \in RunRecord
         /\ group[r] \in SUBSET M!Processes /\ engine[r] \in EngineStates
         /\ session[r] \in {"none", "idle", "batch"} /\ history \in Seq(Row)
  BY DEF MigrationInv, MigrationType, RunRecord

\* A run starts as a deploy or as a resolve.
LEMMA StartKeeps == ASSUME MigrationInv, NEW r \in Runs, M!StartDeploy(r) \/ M!StartResolve(r) PROVE MigrationInv'
<1>1. PICK role \in {"deploy", "resolve"}, pc \in {"preflight", "advisory"} :
        /\ run' = [run EXCEPT ![r].kind = role, ![r].pc = pc]
        /\ role = "deploy" <=> pc = "preflight"
  BY DEF M!StartDeploy, M!StartResolve
<1>2. run[r].pc = "idle" /\ UNCHANGED <<history, sound, group, engine, session, lock>>
  BY DEF M!StartDeploy, M!StartResolve, M!database, M!child
<1>3. PICK k : k = [run[r] EXCEPT !.kind = role, !.pc = pc]
  OBVIOUS
<1>4. k \in RunRecord /\ k.kind = role /\ k.pc = pc /\ k.changed = run[r].changed
  <2>1. run[r] \in RunRecord /\ pc \in RunStates
    BY RunFacts DEF RunStates
  <2> QED BY <1>3, <2>1 DEF RunRecord
<1>5. run' = [run EXCEPT ![r] = k] /\ run'[r] = k
  BY <1>1, <1>3 DEF MigrationInv, MigrationType
<1>6. run[r].kind = "none" /\ ~run[r].changed /\ group[r] = {} /\ engine[r] = "none" /\ session[r] = "none"
  BY <1>2, RunFacts DEF RunInv, KindInv, ExitInv, ProcessInv
<1>7. RunInv(r)'
  <2>1. KindInv(r)' /\ ProcessInv(r)' /\ LockInv(r)'
    BY <1>1, <1>2, <1>4, <1>5, <1>6 DEF KindInv, ProcessInv, Alive, LockInv, HoldsLock, M!InTransaction
  <2>2. BatchInv(r)' /\ ResolveInv(r)' /\ ExitInv(r)'
    BY <1>1, <1>2, <1>4, <1>5, <1>6 DEF BatchInv, ResolveInv, Alive, ExitInv
  <2> QED BY <2>1, <2>2 DEF RunInv
<1> QED BY <1>2, <1>4, <1>5, <1>7, WrapperStep

\* The wrapper of a deploy waits, stops its group and reports; deadlines and signals are noted.
LEMMA NoteKeeps ==
  ASSUME MigrationInv, NEW r \in Runs,
         M!DeadlinePasses(r) \/ M!Signal(r) \/ M!Terminate(r) \/ M!ChildClosed(r)
  PROVE  MigrationInv'
<1>. UNCHANGED <<history, sound, group, engine, session, lock>>
  BY DEF M!DeadlinePasses, M!Signal, M!Terminate, M!ChildClosed, M!database, M!child
<1>. run \in [Runs -> RunRecord]
  BY DEF MigrationInv, MigrationType
<1>1. CASE M!DeadlinePasses(r)
  <2>1. PICK k : k = [run[r] EXCEPT !.late = TRUE]
    OBVIOUS
  <2>2. k \in RunRecord /\ k.kind = run[r].kind /\ k.pc = run[r].pc /\ k.changed = run[r].changed
    <3>1. k \in RunRecord
      BY <2>1, RunFacts
    <3>2. run[r] \in RunRecord
      OBVIOUS
    <3> QED BY <2>1, <3>1, <3>2 DEF RunRecord
  <2>3. /\ run' = [run EXCEPT ![r] = [run[r] EXCEPT !.late = TRUE]]
        /\ run[r].pc \notin {"idle", "reported", "dead"}
    BY <1>1 DEF M!DeadlinePasses, M!Running
  <2>4. run' = [run EXCEPT ![r] = k]
    BY <2>1, <2>3, Zenon
  <2> QED BY <2>2, <2>3, <2>4, RunStep
<1>2. CASE M!Signal(r)
  <2>1. PICK k : k = [run[r] EXCEPT !.signal = TRUE]
    OBVIOUS
  <2>2. k \in RunRecord /\ k.kind = run[r].kind /\ k.pc = run[r].pc /\ k.changed = run[r].changed
    <3>1. k \in RunRecord
      BY <2>1, RunFacts
    <3>2. run[r] \in RunRecord
      OBVIOUS
    <3> QED BY <2>1, <3>1, <3>2 DEF RunRecord
  <2>3. /\ run' = [run EXCEPT ![r] = [run[r] EXCEPT !.signal = TRUE]]
        /\ run[r].pc \notin {"idle", "reported", "dead"}
    BY <1>2 DEF M!Signal, M!Running
  <2>4. run' = [run EXCEPT ![r] = k]
    BY <2>1, <2>3, Zenon
  <2> QED BY <2>2, <2>3, <2>4, RunStep
<1>3. CASE M!Terminate(r) \/ M!ChildClosed(r)
  <2>1. PICK pc \in {"stopping", "classify"} : M!Goto(r, pc) /\ (pc = "classify" => group[r] = {})
    BY <1>3 DEF M!Terminate, M!ChildClosed
  <2>2. run[r].pc = "deploy" /\ run[r].kind = "deploy"
    BY <1>3, RunFacts DEF M!Terminate, M!ChildClosed, RunInv, KindInv, M!InTransaction, RunRecord
  <2>3. PICK k : k = [run[r] EXCEPT !.pc = pc]
    OBVIOUS
  <2>4. k \in RunRecord /\ k.kind = run[r].kind /\ k.pc = pc /\ k.changed = run[r].changed
    BY <2>3, RunFacts DEF RunRecord, RunStates
  <2>5. run' = [run EXCEPT ![r] = k]
    BY <2>1, <2>3 DEF M!Goto
  <2> QED BY <2>1, <2>2, <2>4, <2>5, RunStep
<1> QED BY <1>1, <1>2, <1>3

\* The group of a deploy is started, or its preflight ends it.
LEMMA PreflightKeeps == ASSUME MigrationInv, NEW r \in Runs, M!Preflight(r) PROVE MigrationInv'
<1>1. run[r].pc = "preflight" /\ run[r].kind = "deploy" /\ group[r] = {} /\ engine[r] = "none"
      /\ session[r] = "none" /\ ~run[r].changed
  BY RunFacts DEF M!Preflight, RunInv, KindInv, ProcessInv, ExitInv, M!InTransaction, RunRecord
<1>2. UNCHANGED <<history, sound, lock>>
  BY DEF M!Preflight, M!database
<1>3. ASSUME NEW exit \in {"deadline", "internal", "lock_timeout", "failed"}, M!Report(r, exit), UNCHANGED M!child
      PROVE  MigrationInv'
  BY <1>1, <1>2, <1>3, RunReports DEF M!child, Exits
<1>4. CASE /\ M!Goto(r, "deploy") /\ group' = [group EXCEPT ![r] = M!Processes]
           /\ engine' = [engine EXCEPT ![r] = "lock"] /\ session' = [session EXCEPT ![r] = "idle"]
  <2>1. MigrationType'
    BY <1>2, <1>4 DEF MigrationInv, MigrationType, M!Goto, RunRecord, RunStates, EngineStates
  <2>2. /\ run'[r].pc = "deploy" /\ run'[r].kind = "deploy" /\ run'[r].changed = run[r].changed
        /\ group'[r] = M!Processes /\ engine'[r] = "lock" /\ session'[r] = "idle" /\ Others(r)
    BY <1>1, <1>4 DEF M!Goto, MigrationInv, MigrationType, RunRecord, Others
  <2>3. RunInv(r)'
    <3>1. KindInv(r)' /\ ProcessInv(r)' /\ LockInv(r)'
      BY <2>2 DEF KindInv, ProcessInv, Alive, LockInv, HoldsLock, M!InTransaction, M!Processes, Working
    <3>2. BatchInv(r)' /\ ResolveInv(r)' /\ ExitInv(r)'
      BY <1>1, <2>2 DEF BatchInv, ResolveInv, Alive, ExitInv, Working
    <3> QED BY <3>1, <3>2 DEF RunInv
  <2>4. ~Sending(r)'
    BY <2>2 DEF Sending
  <2> QED BY <1>2, <2>1, <2>2, <2>3, <2>4, HistoryKept
<1> QED BY <1>3, <1>4 DEF M!Preflight

\* A report comes when nothing of the group is left (spawnSupervisedBoundedMigrationProcess).
LEMMA ReportKeeps == ASSUME MigrationInv, NEW r \in Runs, M!DeployReports(r) PROVE MigrationInv'
<1>1. PICK exit \in M!Outcomes(r) : M!Report(r, exit)
  BY DEF M!DeployReports
<1>2. UNCHANGED <<history, sound, lock, group, engine, session>>
  BY DEF M!DeployReports, M!database, M!child
<1>3. run[r].kind = "deploy" /\ group[r] = {} /\ RunInv(r)
  BY RunFacts DEF M!DeployReports, M!Stopped, RunInv, KindInv, ProcessInv, M!InTransaction, RunRecord
<1>4. exit \in {"deadline", "retry_block", "failed", "ok", "domain_preflight", "lock_timeout"}
      /\ (exit = "ok" => engine[r] = "finished") /\ (exit = "retry_block" => engine[r] = "blocked")
      /\ (exit \in {"lock_timeout", "domain_preflight"} => engine[r] \in {"refused", "locked_out"})
  BY <1>1 DEF M!Outcomes, M!Told
<1>5. (engine[r] = "blocked" => ~run[r].changed) /\ (engine[r] \in {"refused", "locked_out"} => Leftover)
  BY <1>3 DEF RunInv, ExitInv
<1> QED BY <1>1, <1>2, <1>3, <1>4, <1>5, RunReports DEF Exits

\* Processes that die take an idle session and the lock along, and nothing else.
LEMMA DeathKeeps ==
  ASSUME MigrationInv, NEW r \in Runs, NEW P \in SUBSET group[r], M!Dies(r, P)
  PROVE  MigrationInv'
<1>1. UNCHANGED <<history, sound, engine, run>> /\ group' = [group EXCEPT ![r] = @ \ P]
  BY DEF M!Dies
<1>2. /\ session' = IF "engine" \in P /\ session[r] = "idle" THEN [session EXCEPT ![r] = "none"] ELSE session
      /\ lock' = IF "engine" \in P /\ session[r] = "idle" /\ lock = r THEN NoRun ELSE lock
  BY DEF M!Dies, M!Release
<1>3. MigrationType' /\ Others(r)
  BY <1>1, <1>2 DEF MigrationInv, MigrationType, Others
<1>4. /\ Alive(r)' <=> Alive(r) /\ "engine" \notin P
      /\ session'[r] = IF "engine" \in P /\ session[r] = "idle" THEN "none" ELSE session[r]
      /\ group[r] = {} => group'[r] = {}
  BY <1>1, <1>2 DEF MigrationInv, MigrationType, Alive
<1>5. RunInv(r) /\ engine'[r] = engine[r] /\ run'[r] = run[r]
  BY <1>1, RunFacts
<1>6. KindInv(r)'
  BY <1>5 DEF RunInv, KindInv
<1>7. ProcessInv(r)'
  <2>1. "engine" \in P => Alive(r)
    BY DEF Alive
  <2> QED BY <1>4, <1>5, <2>1 DEF RunInv, ProcessInv
<1>8. LockInv(r)'
  <2>1. "engine" \in P /\ session[r] = "idle" => run[r].kind = "deploy" /\ run[r].pc \notin M!InTransaction
    BY <1>5 DEF RunInv, ProcessInv, KindInv
  <2> QED BY <1>2, <1>4, <1>5, <2>1 DEF RunInv, LockInv, HoldsLock
<1>9. BatchInv(r)' /\ ResolveInv(r)'
  BY <1>1, <1>4, <1>5 DEF RunInv, BatchInv, ResolveInv
<1>10. lock' = lock \/ lock \in {r, NoRun}
  BY <1>2
<1>11. Sending(r)' => Sending(r)
  BY <1>4, <1>5 DEF Sending
<1>12. ExitInv(r)'
  <2>1. Leftover => Leftover'
    BY <1>1, <1>3, <1>11, LeftoverKept
  <2> QED BY <1>1, <1>4, <1>5, <2>1 DEF RunInv, ExitInv, M!Finished, RolledBack
<1> QED BY <1>1, <1>3, <1>6, <1>7, <1>8, <1>9, <1>10, <1>11, <1>12, HistoryKept DEF RunInv

LEMMA KillKeeps == ASSUME MigrationInv, NEW r \in Runs, M!Kill(r) \/ M!CliEnds(r) PROVE MigrationInv'
<1>1. CASE M!Kill(r)
  <2>1. PICK P \in SUBSET group[r] : M!Dies(r, P)
    BY <1>1 DEF M!Kill
  <2> QED BY <2>1, DeathKeeps
<1>2. CASE M!CliEnds(r)
  <2>1. {"cli"} \in SUBSET group[r] /\ M!Dies(r, {"cli"})
    BY <1>2 DEF M!CliEnds
  <2> QED BY <2>1, DeathKeeps
<1> QED BY <1>1, <1>2

\* A transaction of a resolve goes on to its next step.
LEMMA ResolveGoes ==
  ASSUME MigrationInv, NEW r \in Runs, NEW pc \in M!InTransaction, M!Goto(r, pc),
         UNCHANGED <<history, sound, group, engine, session>>,
         run[r].pc \in M!InTransaction \cup {"advisory"},
         (run[r].pc = "advisory" /\ lock = NoRun /\ lock' = r) \/ (run[r].pc \in M!InTransaction /\ lock' = lock),
         pc \in {"mutate", "verify", "commit"} => run[r].pc \in {"mutate", "verify"} \/ M!Resolvable
  PROVE  MigrationInv'
<1>1. PICK k : k = [run[r] EXCEPT !.pc = pc]
  OBVIOUS
<1>2. k \in RunRecord /\ k.pc = pc /\ k.kind = run[r].kind /\ k.changed = run[r].changed
  <2>1. run[r] \in RunRecord /\ pc \in RunStates
    BY RunFacts DEF RunStates
  <2> QED BY <1>1, <2>1 DEF RunRecord
<1>3. run' = [run EXCEPT ![r] = k] /\ run'[r] = k
  BY <1>1 DEF M!Goto, MigrationInv, MigrationType
<1>4. RunInv(r) /\ run[r].kind = "resolve"
  BY RunFacts DEF RunInv, KindInv, RunRecord, M!InTransaction
<1>5. KindInv(r)' /\ ProcessInv(r)'
  BY <1>2, <1>3, <1>4 DEF RunInv, KindInv, ProcessInv, Alive, M!InTransaction
<1>6. LockInv(r)'
  BY <1>4 DEF RunInv, LockInv, HoldsLock
<1>7. BatchInv(r)'
  BY <1>3, <1>4 DEF RunInv, BatchInv, Alive
<1>8. ResolveInv(r)'
  <2>1. M!Resolvable => Len(history) = 1 /\ history[1].state = "unfinished" /\ (Guarded => ~history[1].done)
    BY DEF M!Resolvable, M!NoResidue, M!Applied
  <2> QED BY <1>2, <1>3, <1>4, <2>1 DEF RunInv, ResolveInv
<1>9. ExitInv(r)'
  BY <1>2, <1>3, <1>4 DEF RunInv, ExitInv, ProcessInv, M!InTransaction, M!Finished
<1>10. lock' = lock \/ (lock' = r /\ lock = NoRun)
  OBVIOUS
<1> QED BY <1>2, <1>3, <1>5, <1>6, <1>7, <1>8, <1>9, <1>10, WrapperStep DEF RunInv

\* A transaction that ends before its decision has changed nothing.
LEMMA RollBackKeeps ==
  ASSUME MigrationInv, NEW r \in Runs, NEW exit \in {"unsafe", "internal", "deadline"}, M!RollBack(r, exit),
         run[r].pc \in M!InTransaction \cup {"advisory"}
  PROVE  MigrationInv'
<1>1. run[r].kind = "resolve" /\ ~run[r].changed
  BY RunFacts DEF RunInv, KindInv, ExitInv, M!InTransaction, RunRecord
<1>2. UNCHANGED <<history, sound, group, engine, session>> /\ M!Report(r, exit)
      /\ (lock' = lock \/ (lock' = NoRun /\ lock = r))
  BY DEF M!RollBack, M!Release, M!child
<1> QED BY <1>1, <1>2, RunReports DEF Exits

LEMMA ResolveKeeps ==
  ASSUME MigrationInv, NEW r \in Runs,
         \/ M!TryAdvisoryLock(r) \/ M!LockTables(r) \/ M!CheckPreconditions(r) \/ M!MarkRolledBack(r)
         \/ M!VerifyPostcondition(r)
  PROVE  MigrationInv'
<1>1. run[r].pc \in M!InTransaction \cup {"advisory"}
  BY DEF M!TryAdvisoryLock, M!LockTables, M!CheckPreconditions, M!MarkRolledBack, M!VerifyPostcondition,
         M!InTransaction
<1>2. CASE \E exit \in {"unsafe", "internal", "deadline"} : M!RollBack(r, exit)
  BY <1>1, <1>2, RollBackKeeps
<1>3. CASE /\ run[r].pc = "advisory" /\ lock = NoRun /\ lock' = r /\ M!Goto(r, "tables")
           /\ UNCHANGED <<history, sound, group, engine, session>>
  <2>1. "tables" \in M!InTransaction
    BY DEF M!InTransaction
  <2> QED BY <1>1, <1>3, <2>1, ResolveGoes
<1>4. CASE /\ UNCHANGED <<history, sound, group, engine, session, lock>>
           /\ \/ run[r].pc = "tables" /\ M!Goto(r, "check")
              \/ run[r].pc = "check" /\ M!Resolvable /\ M!Goto(r, "mutate")
              \/ run[r].pc = "mutate" /\ M!Goto(r, "verify")
              \/ run[r].pc = "verify" /\ M!Goto(r, "commit")
  <2>1. PICK pc \in {"check", "mutate", "verify", "commit"} :
          /\ M!Goto(r, pc) /\ run[r].pc \in {"tables", "check", "mutate", "verify"}
          /\ pc \in {"mutate", "verify", "commit"} => run[r].pc \in {"mutate", "verify"} \/ M!Resolvable
    BY <1>4
  <2> QED BY <1>4, <2>1, ResolveGoes DEF M!InTransaction
<1> QED BY <1>2, <1>3, <1>4 DEF M!TryAdvisoryLock, M!LockTables, M!CheckPreconditions, M!MarkRolledBack,
                M!VerifyPostcondition, M!database, M!child

\* One row of the history is replaced.
LEMMA RowReplaced ==
  ASSUME history \in Seq(Row), NEW n \in 1 .. Len(history), NEW x \in Row, history' = [history EXCEPT ![n] = x]
  PROVE  /\ history' \in Seq(Row) /\ Len(history') = Len(history) /\ DOMAIN history' = DOMAIN history
         /\ history'[n] = x /\ \A i \in DOMAIN history : i # n => history'[i] = history[i]
  BY ExceptSeq

\* The commit of a resolve marks the one row it has seen, which nobody has touched since.
LEMMA CommitKeeps ==
  ASSUME MigrationInv, NEW r \in Runs, NEW k \in RunRecord, run[r].pc = "commit", M!Commits(r),
         run' = [run EXCEPT ![r] = k], k.kind = "resolve", k.pc \in {"reported", "dead"},
         k.pc = "reported" => k.exit \in {"ok", "internal", "deadline"}
  PROVE  MigrationInv'
<1>1. RunInv(r) /\ run[r].kind = "resolve" /\ lock = r
  BY RunFacts DEF RunInv, KindInv, LockInv, HoldsLock, M!InTransaction, RunRecord
<1>2. Len(history) = 1 /\ history[1].state = "unfinished" /\ (Guarded => ~history[1].done)
  BY <1>1 DEF RunInv, ResolveInv
<1>3. history \in Seq(Row) /\ history[1] \in Row /\ DOMAIN history = {1}
  <2>1. history \in Seq(Row)
    BY RunFacts
  <2>2. DOMAIN history = 1 .. Len(history) /\ \A i \in 1 .. Len(history) : history[i] \in Row
    BY <2>1, LenProperties, ElementOfSeq
  <2> QED BY <1>2, <2>1, <2>2
<1>4. PICK x : x = [history[1] EXCEPT !.state = "rolledback"]
  OBVIOUS
<1>5. x \in Row /\ x.state = "rolledback" /\ x.done = history[1].done
  BY <1>3, <1>4 DEF Row, M!States
<1>6. history' = [history EXCEPT ![1] = x] /\ lock' = NoRun /\ UNCHANGED <<sound, group, engine, session>>
  BY <1>1, <1>4 DEF M!Commits, M!Release, M!child
<1>7. history' \in Seq(Row) /\ DOMAIN history' = {1} /\ history'[1] = x
  BY <1>2, <1>3, <1>5, <1>6, RowReplaced
<1>8. MigrationType' /\ Others(r) /\ run'[r] = k
  BY <1>6, <1>7 DEF MigrationInv, MigrationType, Others
<1>9. Truth' /\ RolledBack' /\ ~M!Finished
  BY <1>2, <1>3, <1>5, <1>7 DEF Truth, RolledBack, M!Finished
<1>10. group[r] = {} /\ engine[r] = "none" /\ session[r] = "none"
  BY <1>1 DEF RunInv, ProcessInv
<1>12. Leftover => Leftover'
  BY <1>3, <1>5, <1>7 DEF Leftover
<1>11. RunInv(r)'
  <2>1. KindInv(r)' /\ ProcessInv(r)' /\ LockInv(r)'
    BY <1>6, <1>8, <1>10 DEF KindInv, ProcessInv, LockInv, HoldsLock, Alive, M!InTransaction
  <2>2. BatchInv(r)' /\ ResolveInv(r)'
    BY <1>6, <1>8, <1>10 DEF BatchInv, ResolveInv, Alive
  <2>3. ExitInv(r)'
    BY <1>6, <1>8, <1>9, <1>10 DEF ExitInv
  <2> QED BY <2>1, <2>2, <2>3 DEF RunInv
<1> QED BY <1>1, <1>6, <1>8, <1>9, <1>11, <1>12, OthersKept

LEMMA DecisionKeeps ==
  ASSUME MigrationInv, NEW r \in Runs, M!CommitAcknowledged(r) \/ M!CommitUnknown(r) \/ M!WrapperDies(r)
  PROVE  MigrationInv'
<1>. run \in [Runs -> RunRecord] /\ run[r] \in RunRecord /\ RunInv(r)
  BY RunFacts DEF MigrationInv, MigrationType
<1>1. CASE run[r].pc = "commit" /\ M!Commits(r)
           /\ \E exit \in {"ok", "internal", "deadline"} :
                run' = [run EXCEPT ![r].pc = "reported", ![r].exit = exit, ![r].changed = TRUE]
  <2>1. PICK exit \in {"ok", "internal", "deadline"} :
          run' = [run EXCEPT ![r].pc = "reported", ![r].exit = exit, ![r].changed = TRUE]
    BY <1>1
  <2>2. PICK k : k = [run[r] EXCEPT !.pc = "reported", !.exit = exit, !.changed = TRUE]
    OBVIOUS
  <2>3. run' = [run EXCEPT ![r] = k]
    BY <2>1, <2>2
  <2>4. k \in RunRecord /\ k.kind = run[r].kind /\ k.pc = "reported" /\ k.exit = exit
    BY <2>2 DEF RunRecord, RunStates, Exits
  <2>5. run[r].kind = "resolve"
    BY <1>1 DEF RunInv, KindInv, M!InTransaction, RunRecord
  <2> QED BY <1>1, <2>3, <2>4, <2>5, CommitKeeps
<1>2. CASE run[r].pc = "commit" /\ \E exit \in {"internal", "deadline"} : M!RollBack(r, exit)
  BY <1>2, RollBackKeeps DEF M!InTransaction
<1>3. CASE M!WrapperDies(r)
  <2>1. PICK k : k = [run[r] EXCEPT !.pc = "dead"]
    OBVIOUS
  <2>2. k \in RunRecord /\ k.kind = run[r].kind /\ k.pc = "dead" /\ k.changed = run[r].changed
    BY <2>1 DEF RunRecord, RunStates
  <2>3. run' = [run EXCEPT ![r] = k] /\ run'[r] = k /\ run[r].pc \notin {"idle", "reported", "dead"}
    BY <1>3, <2>1 DEF M!WrapperDies, M!Running
  <2>4. run[r].kind \in {"deploy", "resolve"}
    BY <2>3 DEF RunInv, KindInv, RunRecord
  <2>5. CASE run[r].kind = "deploy"
    <3>1. UNCHANGED <<history, sound, group, engine, session, lock>>
      BY <1>3, <2>5 DEF M!WrapperDies, M!database, M!child
    <3> QED BY <2>2, <2>3, <2>5, <3>1, RunStep
  <2>6. CASE run[r].kind = "resolve" /\ run[r].pc = "commit" /\ M!Commits(r)
    BY <2>2, <2>3, <2>6, CommitKeeps
  <2>7. CASE run[r].kind = "resolve" /\ M!Release(r) /\ UNCHANGED <<history, sound, group, engine, session>>
    <3>1. lock' = lock \/ (lock' = NoRun /\ lock = r)
      BY <2>7 DEF M!Release
    <3>2. group[r] = {} /\ engine[r] = "none" /\ session[r] = "none" /\ ~run[r].changed
      BY <2>3, <2>7 DEF RunInv, ProcessInv, ExitInv
    <3>3. KindInv(r)' /\ ProcessInv(r)' /\ LockInv(r)'
      BY <2>2, <2>3, <2>7, <3>2 DEF KindInv, ProcessInv, LockInv, HoldsLock, Alive, M!InTransaction
    <3>4. BatchInv(r)' /\ ResolveInv(r)' /\ ExitInv(r)'
      BY <2>2, <2>3, <2>7, <3>2 DEF BatchInv, ResolveInv, Alive, ExitInv
    <3> QED BY <2>2, <2>3, <2>7, <3>1, <3>3, <3>4, WrapperStep DEF RunInv
  <2> QED BY <1>3, <2>4, <2>5, <2>6, <2>7 DEF M!WrapperDies, M!child
<1>4. M!CommitAcknowledged(r) \/ M!CommitUnknown(r) =>
        \/ run[r].pc = "commit" /\ M!Commits(r)
           /\ \E exit \in {"ok", "internal", "deadline"} :
                run' = [run EXCEPT ![r].pc = "reported", ![r].exit = exit, ![r].changed = TRUE]
        \/ run[r].pc = "commit" /\ \E exit \in {"internal", "deadline"} : M!RollBack(r, exit)
  BY DEF M!CommitAcknowledged, M!CommitAnswer, M!CommitUnknown
<1> QED BY <1>1, <1>2, <1>3, <1>4

\* An engine that works belongs to a deploy under way, and its last row is unfinished.
LEMMA EngineFacts ==
  ASSUME MigrationInv, NEW r \in Runs, Alive(r)
  PROVE  /\ run[r] \in RunRecord /\ RunInv(r) /\ run[r].kind = "deploy" /\ run[r].pc \in {"deploy", "stopping", "dead"}
         /\ engine[r] \in Working => lock = r
<1>1. run[r] \in RunRecord /\ RunInv(r)
  BY RunFacts
<1>2. run[r].kind = "deploy" /\ run[r].pc # "preflight" /\ run[r].pc \notin {"classify", "reported"}
  BY <1>1 DEF RunInv, ProcessInv, Alive
<1>3. run[r].pc \in {"deploy", "stopping", "dead"}
  <2>1. run[r].pc \in RunStates /\ run[r].pc # "idle" /\ run[r].pc \notin M!InTransaction \cup {"advisory"}
    BY <1>1, <1>2 DEF RunInv, KindInv, RunRecord
  <2> QED BY <1>2, <2>1 DEF RunStates
<1>4. engine[r] \in Working => lock = r
  BY <1>1 DEF RunInv, LockInv, HoldsLock
<1> QED BY <1>1, <1>2, <1>3, <1>4

\* The row the engine wrote is the last one.
LEMMA LastRow ==
  ASSUME MigrationInv, NEW r \in Runs, session[r] = "batch" \/ (Alive(r) /\ engine[r] \in Working \ {"history"})
  PROVE  /\ history \in Seq(Row) /\ Len(history) \in 1 .. Len(history) /\ DOMAIN history = 1 .. Len(history)
         /\ history[Len(history)] \in Row /\ history[Len(history)].state = "unfinished"
         /\ session[r] = "batch" => ~history[Len(history)].done
<1>1. history \in Seq(Row) /\ Len(history) > 0 /\ history[Len(history)].state = "unfinished"
  BY RunFacts DEF RunInv, BatchInv
<1>2. DOMAIN history = 1 .. Len(history) /\ Len(history) \in 1 .. Len(history)
  BY <1>1, LenProperties
<1>3. history[Len(history)] \in Row
  BY <1>1, <1>2, ElementOfSeq
<1>4. session[r] = "batch" => ~history[Len(history)].done
  BY RunFacts DEF RunInv, BatchInv
<1> QED BY <1>1, <1>2, <1>3, <1>4

\* An engine that exits gives back the lock, and leaves a history in which what it says is true.
LEMMA EngineExit ==
  ASSUME MigrationInv, NEW r \in Runs, Alive(r), NEW result \in {"blocked", "timed_out", "finished", "refused", "locked_out", "failed"},
         M!EngineExits(r, result), UNCHANGED <<sound, run>>, history' \in Seq(Row), Truth',
         history' = history \/ lock = r, M!Finished => M!Finished', RolledBack => RolledBack', Leftover => Leftover',
         result \in {"refused", "locked_out"} => engine[r] = result,
         result \in {"blocked", "timed_out"} => engine[r] \in {"lock", "history"},
         result = "finished" => M!Finished'
  PROVE  MigrationInv'
<1>1. run[r] \in RunRecord /\ RunInv(r) /\ run[r].kind = "deploy" /\ run[r].pc \in {"deploy", "stopping", "dead"}
  BY EngineFacts
<1>2. MigrationType' /\ Others(r)
  BY DEF M!EngineExits, M!Release, MigrationInv, MigrationType, Others, EngineStates, Working
<1>3. engine'[r] = result /\ group'[r] = group[r] \ {"engine"} /\ session'[r] = "none" /\ run'[r] = run[r]
  BY DEF M!EngineExits, MigrationInv, MigrationType
<1>4. lock' = lock \/ lock \in {r, NoRun}
  BY DEF M!EngineExits, M!Release
<1>5. KindInv(r)' /\ ProcessInv(r)' /\ LockInv(r)'
  BY <1>1, <1>3 DEF RunInv, KindInv, ProcessInv, LockInv, HoldsLock, Alive, M!InTransaction
<1>6. BatchInv(r)' /\ ResolveInv(r)'
  BY <1>1, <1>3 DEF BatchInv, ResolveInv, Alive
<1>7. ExitInv(r)'
  BY <1>1, <1>3 DEF RunInv, ExitInv
<1> QED BY <1>2, <1>4, <1>5, <1>6, <1>7, OthersKept DEF RunInv

\* A step of the engine that keeps it at work, under the lock.
LEMMA EngineGoes ==
  ASSUME MigrationInv, NEW r \in Runs, Alive(r), NEW pc \in Working, NEW s \in {"idle", "batch"}, NEW k \in RunRecord,
         engine' = [engine EXCEPT ![r] = pc], session' = [session EXCEPT ![r] = s],
         run' = [run EXCEPT ![r] = k], UNCHANGED <<sound, group>>,
         s = "batch" <=> pc = "await", lock' = r, lock \in {r, NoRun},
         k.kind = run[r].kind, k.pc = run[r].pc, pc = "history" => engine[r] = "lock" /\ k.changed = run[r].changed,
         history' \in Seq(Row), Truth', history' = history \/ lock = r,
         M!Finished => M!Finished', RolledBack => RolledBack', Leftover => Leftover',
         pc \in {"refused", "locked_out"} => Leftover',
         pc \notin {"history", "committed"} => ~history'[Len(history')].done,
         pc # "history" => Len(history') > 0 /\ history'[Len(history')].state = "unfinished",
         pc = "committed" => history'[Len(history')].done
  PROVE  MigrationInv'
<1>1. RunInv(r) /\ run[r].kind = "deploy" /\ run[r].pc \in {"deploy", "stopping", "dead"}
  BY EngineFacts
<1>2. MigrationType' /\ Others(r)
  BY DEF MigrationInv, MigrationType, Others, EngineStates
<1>3. engine'[r] = pc /\ group'[r] = group[r] /\ session'[r] = s /\ run'[r] = k
  BY DEF MigrationInv, MigrationType
<1>4. KindInv(r)' /\ ProcessInv(r)' /\ LockInv(r)'
  BY <1>1, <1>3 DEF RunInv, KindInv, ProcessInv, LockInv, Alive, Working
<1>5. BatchInv(r)' /\ ResolveInv(r)'
  BY <1>1, <1>3 DEF BatchInv, ResolveInv, Alive, Working
<1>6. ExitInv(r)'
  BY <1>1, <1>3 DEF RunInv, ExitInv, Working
<1> QED BY <1>2, <1>4, <1>5, <1>6, OthersKept DEF RunInv

LEMMA EngineKeeps ==
  ASSUME MigrationInv, NEW r \in Runs, M!EngineLocks(r) \/ M!EngineSendsBatch(r)
  PROVE  MigrationInv'
<1>1. Alive(r) /\ RunInv(r)
  BY RunFacts DEF M!EngineLocks, M!EngineSendsBatch, M!EngineAt, Alive
<1>2. UNCHANGED <<history, sound, run>>
  BY DEF M!EngineLocks, M!EngineSendsBatch, M!database
<1>3. history' \in Seq(Row) /\ Truth' /\ (M!Finished => M!Finished') /\ (RolledBack => RolledBack')
  BY <1>2 DEF MigrationInv, MigrationType, Truth, M!Finished, RolledBack
<1>7. run' = [run EXCEPT ![r] = run[r]] /\ run[r] \in RunRecord
  BY <1>2 DEF MigrationInv, MigrationType
<1>8. Leftover => Leftover'
  <2>1. Others(r) /\ (Sending(r)' => Sending(r))
    BY <1>1, <1>2 DEF M!EngineLocks, M!EngineSendsBatch, M!EngineExits, M!EngineAt, Others, Sending, Alive,
                      MigrationInv, MigrationType
  <2> QED BY <1>2, <2>1, LeftoverKept
<1>4. CASE M!EngineLocks(r) /\ M!EngineExits(r, "timed_out")
  BY <1>1, <1>2, <1>3, <1>4, <1>8, EngineExit DEF M!EngineLocks, M!EngineAt
<1>5. CASE M!EngineLocks(r) /\ lock = NoRun /\ lock' = r /\ engine' = [engine EXCEPT ![r] = "history"]
           /\ UNCHANGED <<group, session>>
  <2>1. engine[r] = "lock" /\ session[r] = "idle"
    BY <1>1, <1>5 DEF M!EngineLocks, M!EngineAt, RunInv, ProcessInv
  <2>2. session' = [session EXCEPT ![r] = "idle"]
    BY <1>5, <2>1 DEF MigrationInv, MigrationType
  <2> QED BY <1>1, <1>2, <1>3, <1>5, <1>7, <1>8, <2>1, <2>2, EngineGoes DEF Working
<1>6. CASE M!EngineSendsBatch(r)
  <2>1. engine[r] = "send" /\ engine' = [engine EXCEPT ![r] = "await"] /\ session' = [session EXCEPT ![r] = "batch"]
        /\ UNCHANGED <<history, sound, run, group, lock>>
    BY <1>6 DEF M!EngineSendsBatch, M!EngineAt, M!database
  <2>2. lock = r
    BY <1>1, <2>1, EngineFacts DEF Working
  <2>3. Len(history) > 0 /\ history[Len(history)].state = "unfinished" /\ ~history[Len(history)].done
    BY <1>1, <2>1 DEF RunInv, BatchInv, Working
  <2> QED BY <1>1, <1>2, <1>3, <1>7, <1>8, <2>1, <2>2, <2>3, EngineGoes DEF Working
<1> QED BY <1>4, <1>5, <1>6 DEF M!EngineLocks

\* The engine reads the history, and writes its row when nothing stands against it.
LEMMA ReadKeeps == ASSUME MigrationInv, NEW r \in Runs, M!EngineReadsHistory(r) PROVE MigrationInv'
<1>1. Alive(r) /\ engine[r] = "history" /\ sound' = sound
  BY DEF M!EngineReadsHistory, M!EngineAt, Alive
<1>2. lock = r /\ session[r] = "idle" /\ run[r] \in RunRecord /\ history \in Seq(Row)
  BY <1>1, EngineFacts, RunFacts DEF RunInv, ProcessInv, Working
<1>3. CASE \E result \in {"blocked", "finished"} :
             M!EngineExits(r, result) /\ (result = "finished" => M!Finished) /\ UNCHANGED <<history, run>>
  <2>1. Truth' /\ (M!Finished => M!Finished') /\ (RolledBack => RolledBack')
    BY <1>3 DEF MigrationInv, Truth, M!Finished, RolledBack
  <2>2. Others(r) /\ ~Sending(r)'
    BY <1>3 DEF M!EngineExits, Others, Sending, Alive, MigrationInv, MigrationType
  <2>3. Leftover => Leftover'
    BY <1>3, <2>2, LeftoverKept
  <2> QED BY <1>1, <1>2, <1>3, <2>1, <2>3, EngineExit
<1>4. CASE /\ history' = Append(history, [state |-> "unfinished", done |-> FALSE])
           /\ ~M!Unresolved
           /\ run' = [run EXCEPT ![r].changed = TRUE]
           /\ engine' = [engine EXCEPT ![r] = "send"]
           /\ UNCHANGED <<lock, group, session>>
  <2>1. PICK x : x = [state |-> "unfinished", done |-> FALSE]
    OBVIOUS
  <2>2. x \in Row /\ x.state = "unfinished"
    BY <2>1 DEF Row, M!States
  <2>3. /\ history' \in Seq(Row) /\ Len(history') = Len(history) + 1 /\ history'[Len(history) + 1] = x
        /\ \A i \in 1 .. Len(history) : history'[i] = history[i]
    BY <1>2, <1>4, <2>1, <2>2, AppendProperties
  <2>4. DOMAIN history = 1 .. Len(history) /\ DOMAIN history' = 1 .. Len(history) + 1 /\ Len(history) \in Nat
    BY <1>2, <2>3, LenProperties
  <2>5. \A i \in DOMAIN history' : history'[i] = x \/ (i \in DOMAIN history /\ history'[i] = history[i])
    BY <2>3, <2>4
  <2>6. \A i \in DOMAIN history : i \in DOMAIN history' /\ history'[i] = history[i]
    BY <2>3, <2>4
  <2>7. Truth' /\ (M!Finished => M!Finished') /\ (RolledBack => RolledBack')
    BY <2>2, <2>5, <2>6 DEF MigrationInv, Truth, M!Finished, RolledBack
  <2>8. PICK k : k = [run[r] EXCEPT !.changed = TRUE]
    OBVIOUS
  <2>9. k \in RunRecord /\ k.kind = run[r].kind /\ k.pc = run[r].pc /\ run' = [run EXCEPT ![r] = k]
    BY <1>2, <1>4, <2>8 DEF RunRecord
  <2>10. session' = [session EXCEPT ![r] = "idle"]
    BY <1>2, <1>4 DEF MigrationInv, MigrationType
  <2>11. Len(history') > 0 /\ history'[Len(history')].state = "unfinished" /\ ~history'[Len(history')].done
    BY <2>1, <2>2, <2>3, <2>4
  <2>12. Leftover => Leftover'
    BY <1>4, <2>6 DEF Leftover, M!Unresolved
  <2> QED BY <1>1, <1>2, <1>4, <2>3, <2>7, <2>9, <2>10, <2>11, <2>12, EngineGoes DEF Working
<1> QED BY <1>3, <1>4 DEF M!EngineReadsHistory

\* The batch in PostgreSQL ends as a whole, whether or not somebody waits for it.
LEMMA BatchKeeps == ASSUME MigrationInv, NEW r \in Runs, M!BatchEnds(r) PROVE MigrationInv'
<1>1. PICK result \in {"committed", "refused", "locked_out", "failed"} :
        /\ history' = IF result = "committed" THEN [history EXCEPT ![Len(history)].done = TRUE] ELSE history
        /\ IF Alive(r)
           THEN session' = [session EXCEPT ![r] = "idle"] /\ engine' = [engine EXCEPT ![r] = result] /\ lock' = lock
           ELSE session' = [session EXCEPT ![r] = "none"] /\ M!Release(r) /\ engine' = engine
  BY DEF M!BatchEnds, Alive
<1>2. session[r] = "batch" /\ UNCHANGED <<sound, run, group>>
  BY DEF M!BatchEnds
<1>3. lock = r /\ RunInv(r) /\ run[r] \in RunRecord
  BY <1>2, RunFacts DEF RunInv, LockInv, HoldsLock
<1>4. PICK n : n = Len(history)
  OBVIOUS
<1>5. history \in Seq(Row) /\ n \in 1 .. Len(history) /\ DOMAIN history = 1 .. n
      /\ history[n] \in Row /\ history[n].state = "unfinished" /\ ~history[n].done
  BY <1>2, <1>4, LastRow
<1>6. PICK x : x = IF result = "committed" THEN [history[n] EXCEPT !.done = TRUE] ELSE history[n]
  OBVIOUS
<1>7. x \in Row /\ x.state = "unfinished" /\ (result = "committed" <=> x.done)
  BY <1>5, <1>6 DEF Row
<1>8. history' = [history EXCEPT ![n] = x]
  <2>1. history = [history EXCEPT ![n] = history[n]]
    BY <1>5
  <2>2. CASE result = "committed"
    BY <1>1, <1>4, <1>6, <2>2
  <2>3. CASE result # "committed"
    BY <1>1, <1>6, <2>1, <2>3
  <2> QED BY <2>2, <2>3
<1>9. /\ history' \in Seq(Row) /\ Len(history') = Len(history) /\ DOMAIN history' = DOMAIN history
      /\ history'[n] = x /\ \A i \in DOMAIN history : i # n => history'[i] = history[i]
  BY <1>5, <1>7, <1>8, RowReplaced
<1>10. Truth' /\ (M!Finished => M!Finished') /\ (RolledBack => RolledBack')
  BY <1>5, <1>7, <1>9 DEF MigrationInv, Truth, M!Finished, RolledBack
<1>11. Len(history') > 0 /\ history'[Len(history')].state = "unfinished"
       /\ (result = "committed" <=> history'[Len(history')].done)
  BY <1>4, <1>5, <1>7, <1>9
<1>14. Leftover => Leftover'
  BY <1>2, <1>5, <1>9 DEF Leftover, Sending
<1>15. result # "committed" /\ Alive(r) => Leftover'
  <2> SUFFICES ASSUME result # "committed", Alive(r) PROVE Leftover'
    OBVIOUS
  <2>1. ASSUME NEW q \in Runs PROVE ~Sending(q)'
    <3>1. CASE q = r
      BY <1>1, <1>2, <3>1 DEF Sending, MigrationInv, MigrationType
    <3>2. CASE q # r
      <4>1. ~HoldsLock(q)
        BY <1>3, <3>2 DEF MigrationInv, RunInv, LockInv
      <4>2. session'[q] = session[q] /\ engine'[q] = engine[q] /\ group'[q] = group[q]
        BY <1>1, <1>2, <3>2 DEF MigrationInv, MigrationType
      <4> QED BY <4>1, <4>2 DEF HoldsLock, Sending, Alive, Working
    <3> QED BY <3>1, <3>2
  <2>2. ~history'[n].done /\ history'[n].state = "unfinished" /\ n \in DOMAIN history'
    BY <1>5, <1>7, <1>9
  <2> QED BY <2>1, <2>2 DEF Leftover
<1>12. CASE Alive(r)
  <2>1. run' = [run EXCEPT ![r] = run[r]]
    BY <1>2 DEF MigrationInv, MigrationType
  <2>2. PICK pc \in Working : pc = result /\ pc \notin {"history", "await"}
    BY DEF Working
  <2>3. engine' = [engine EXCEPT ![r] = pc] /\ session' = [session EXCEPT ![r] = "idle"] /\ lock' = r
    BY <1>1, <1>2, <1>3, <1>12, <2>2
  <2>4. /\ pc = "committed" <=> history'[Len(history')].done
        /\ pc \in {"refused", "locked_out"} => Leftover'
    BY <1>11, <1>12, <1>15, <2>2
  <2> QED BY <1>1, <1>2, <1>3, <1>9, <1>10, <1>11, <1>12, <1>14, <2>1, <2>2, <2>3, <2>4, EngineGoes
<1>13. CASE ~Alive(r)
  <2>1. MigrationType' /\ Others(r)
    BY <1>1, <1>2, <1>9, <1>13 DEF M!Release, MigrationInv, MigrationType, Others
  <2>2. run[r].kind = "deploy" /\ run[r].pc \notin M!InTransaction
    BY <1>2, <1>3 DEF RunInv, ProcessInv, KindInv
  <2>3. session'[r] = "none" /\ engine'[r] = engine[r] /\ run'[r] = run[r] /\ group'[r] = group[r]
    BY <1>1, <1>2, <1>13 DEF MigrationInv, MigrationType
  <2>4. KindInv(r)' /\ ProcessInv(r)' /\ LockInv(r)'
    BY <1>3, <1>13, <2>2, <2>3 DEF RunInv, KindInv, ProcessInv, LockInv, HoldsLock, Alive
  <2>5. BatchInv(r)' /\ ResolveInv(r)'
    BY <1>13, <2>2, <2>3 DEF BatchInv, ResolveInv, Alive, M!InTransaction
  <2>6. ExitInv(r)'
    BY <1>3, <1>10, <1>14, <2>2, <2>3 DEF RunInv, ExitInv
  <2> QED BY <1>1, <1>3, <1>9, <1>10, <1>13, <1>14, <2>1, <2>4, <2>5, <2>6, OthersKept DEF RunInv, M!Release
<1> QED BY <1>12, <1>13

\* The engine finishes the row whose statements it knows to be committed, or leaves it.
LEMMA FinishKeeps == ASSUME MigrationInv, NEW r \in Runs, M!EngineFinishes(r) PROVE MigrationInv'
<1>1. Alive(r) /\ engine[r] \in {"committed", "refused", "locked_out", "failed"} /\ UNCHANGED <<sound, run>>
  BY DEF M!EngineFinishes, M!EngineAt, Alive
<1>2. lock = r
  BY <1>1, EngineFacts DEF Working
<1>5. ASSUME NEW result \in {"finished", "refused", "locked_out", "failed"}, M!EngineExits(r, result)
      PROVE  Others(r) /\ ~Sending(r)'
  BY <1>1, <1>5 DEF M!EngineExits, Others, Sending, Alive, MigrationInv, MigrationType
<1>3. CASE \E result \in {"refused", "locked_out", "failed"} :
             engine[r] = result /\ M!EngineExits(r, result) /\ history' = history
  <2>1. history' \in Seq(Row) /\ Truth' /\ (M!Finished => M!Finished') /\ (RolledBack => RolledBack')
    BY <1>3, RunFacts DEF MigrationInv, MigrationType, Truth, M!Finished, RolledBack
  <2>2. Leftover => Leftover'
    BY <1>3, <1>5, LeftoverKept
  <2> QED BY <1>1, <1>2, <1>3, <2>1, <2>2, EngineExit
<1>4. CASE engine[r] = "committed" /\ history' = [history EXCEPT ![Len(history)].state = "finished"]
           /\ M!EngineExits(r, "finished")
  <2>1. PICK n : n = Len(history)
    OBVIOUS
  <2>2. history \in Seq(Row) /\ n \in 1 .. Len(history) /\ DOMAIN history = 1 .. n
        /\ history[n] \in Row /\ history[n].state = "unfinished"
    BY <1>1, <2>1, LastRow DEF Working
  <2>3. history[n].done
    BY <1>1, <1>4, <2>1, EngineFacts DEF RunInv, BatchInv
  <2>4. PICK x : x = [history[n] EXCEPT !.state = "finished"]
    OBVIOUS
  <2>5. x \in Row /\ x.state = "finished" /\ x.done
    BY <2>2, <2>3, <2>4 DEF Row, M!States
  <2>6. history' = [history EXCEPT ![n] = x]
    BY <1>4, <2>1, <2>4
  <2>7. /\ history' \in Seq(Row) /\ DOMAIN history' = DOMAIN history
        /\ history'[n] = x /\ \A i \in DOMAIN history : i # n => history'[i] = history[i]
    BY <2>2, <2>5, <2>6, RowReplaced
  <2>8. Truth' /\ M!Finished' /\ (RolledBack => RolledBack')
    BY <2>2, <2>5, <2>7 DEF MigrationInv, Truth, M!Finished, RolledBack
  <2>9. Leftover => Leftover'
    <3>1. \A q \in Runs : Sending(q)' => Sending(q)
      BY <1>4, <1>5 DEF Others, Sending, Alive
    <3> QED BY <2>2, <2>3, <2>7, <3>1 DEF Leftover
  <2> QED BY <1>1, <1>2, <1>4, <2>7, <2>8, <2>9, EngineExit
<1> QED BY <1>3, <1>4 DEF M!EngineFinishes, M!EngineAt

LEMMA MigrationInvariance == M!Spec => []MigrationInv
<1>1. M!Init => MigrationInv
  <2> SUFFICES ASSUME M!Init PROVE MigrationInv
    OBVIOUS
  <2>1. MigrationType
    BY DEF M!Init, M!NotStarted, MigrationType, RunRecord, RunStates, Exits, EngineStates
  <2>2. Truth
    BY DEF M!Init, Truth
  <2>3. \A r \in Runs : run[r].kind = "none" /\ run[r].pc = "idle" /\ ~run[r].changed
                        /\ group[r] = {} /\ engine[r] = "none" /\ session[r] = "none"
    BY DEF M!Init, M!NotStarted
  <2>4. \A r \in Runs : KindInv(r) /\ ProcessInv(r) /\ LockInv(r) /\ BatchInv(r) /\ ResolveInv(r) /\ ExitInv(r)
    BY <2>3 DEF KindInv, ProcessInv, LockInv, HoldsLock, BatchInv, ResolveInv, ExitInv, Alive, M!InTransaction
  <2> QED BY <2>1, <2>2, <2>4 DEF MigrationInv, RunInv
<1>2. MigrationInv /\ [M!Next]_(M!vars) => MigrationInv'
  <2> SUFFICES ASSUME MigrationInv, [M!Next]_(M!vars) PROVE MigrationInv'
    OBVIOUS
  <2>1. CASE M!DataChanges \/ UNCHANGED M!vars
    <3>1. UNCHANGED <<history, lock, run, group, engine, session>> /\ sound' \in BOOLEAN
      BY <2>1 DEF M!DataChanges, M!child, M!vars, MigrationInv, MigrationType
    <3>2. MigrationType' /\ Truth'
      BY <3>1 DEF MigrationInv, MigrationType, Truth
    <3>3. ASSUME NEW r \in Runs PROVE RunInv(r)'
      BY <3>1 DEF MigrationInv, RunInv, KindInv, ProcessInv, LockInv, HoldsLock, BatchInv, ResolveInv, ExitInv,
                  Alive, M!Finished, RolledBack, Leftover, Sending
    <3> QED BY <3>2, <3>3 DEF MigrationInv
  <2> QED BY <2>1, StartKeeps, NoteKeeps, PreflightKeeps, ReportKeeps, KillKeeps, ResolveKeeps, DecisionKeeps,
             EngineKeeps, ReadKeeps, BatchKeeps, FinishKeeps DEF M!Next, M!Wrapper, M!Engine
<1> QED BY <1>1, <1>2, PTL DEF M!Spec

\* What the migration history says of the target's statements is true, whoever was killed
\* and whatever his session did afterwards, for the target whose residue is probed.
THEOREM HistoryTrue == ASSUME Guarded PROVE M!Spec => []HistoryIsTrue
<1>1. MigrationInv => HistoryIsTrue
  BY DEF MigrationInv, Truth, HistoryIsTrue, M!HistoryIsTrue
<1> QED BY <1>1, MigrationInvariance, PTL

\* A run that reports success, or a refusal, is right, whatever signal or deadline came
\* late: a row it wrote before PostgreSQL refused stands for a migration that is not applied.
THEOREM ExitsTrue == M!Spec => []ExitsAreTrue
<1>1. MigrationInv => ExitsAreTrue
  <2>1. Leftover => \E i \in DOMAIN history : history[i].state # "finished" /\ ~history[i].done
    BY DEF Leftover
  <2> QED BY <2>1 DEF MigrationInv, RunInv, ExitInv, RolledBack, ExitsAreTrue, M!ExitsAreTrue
<1> QED BY <1>1, MigrationInvariance, PTL

-----------------------------------------------------------------------------
(***************************************************************************)
(* The triggers of the curriculum, for any statements and any number of    *)
(* transactions that run them.                                             *)
(*                                                                         *)
(* The argument is two-phase locking: what a trigger has checked stays     *)
(* true until its transaction commits, because whoever could make it false *)
(* needs a lock that conflicts with one the transaction holds.             *)
(***************************************************************************)

AllStatements == Children \cup PlanRequests \cup Changes

\* What a statement of each table names.
LEMMA Shapes ==
  ASSUME NEW s \in AllStatements
  PROVE  /\ s.table = "UserGoal" => s \in Goals
         /\ s.table = "LearningPlan" => s \in Plans \cup PlanRequests
         /\ s.table = "PlacementAttempt" => s \in Placements
         /\ s.table = "Result" => s \in Results
         /\ s.table = "Level" => s \in [table : {"Level"}, level : Levels, range : SUBSET Bands]
         /\ s.table = "Test" => s \in [table : {"Test"}, test : Tests, level : Levels]
<1>1. s \in Goals => s.table = "UserGoal"
  BY DEF Goals
<1>2. s \in Plans \cup PlanRequests => s.table = "LearningPlan"
  BY DEF Plans, PlanRequests
<1>3. s \in Placements => s.table = "PlacementAttempt"
  BY DEF Placements
<1>4. s \in Results => s.table = "Result"
  BY DEF Results
<1>5. s \in Stories \cup Words \cup ProgressRows => s.table \in {"Story", "LessonWord", "Progress"}
  BY DEF Stories, Words, ProgressRows
<1>6. s \in TopicEvents \cup ExerciseEvents => s.table \in {"TopicEvent", "ExerciseEvent"}
  BY DEF TopicEvents, ExerciseEvents
<1>7. s \in Changes =>
        \/ s \in [table : {"Level"}, level : Levels, range : SUBSET Bands]
        \/ s \in [table : {"Test"}, test : Tests, level : Levels]
        \/ s.table \in {"ExamAttempt", "Lesson", "Topic", "LessonExercise"}
  BY DEF Changes
<1>8. s \in Goals \cup Plans \cup PlanRequests \cup Placements \cup Results \cup Stories \cup Words \cup ProgressRows
            \cup TopicEvents \cup ExerciseEvents \cup Changes
  BY DEF AllStatements, Children, Banded
<1> QED BY <1>1, <1>2, <1>3, <1>4, <1>5, <1>6, <1>7, <1>8

\* The programs of the statements that write a band, a level's range or a test's level,
\* step by step.
LEMMA AccountSteps ==
  ASSUME NEW a, NEW b, NEW c, NEW d, NEW e, NEW f, NEW g,
         NEW p, p = <<a>> \o <<b, c, d, e>> \o <<f, g>>
  PROVE  Len(p) = 7 /\ p[1] = a /\ p[2] = b /\ p[3] = c /\ p[4] = d /\ p[5] = e /\ p[6] = f /\ p[7] = g
<1> DEFINE T == {a, b, c, d, e, f, g}
<1>1. PICK s : s = <<a>> \o <<b, c, d, e>>
  OBVIOUS
<1>2. s \in Seq(T) /\ Len(s) = 5 /\ s[1] = a /\ s[2] = b /\ s[3] = c /\ s[4] = d /\ s[5] = e
  <2>1. <<a>> \in Seq(T) /\ <<b, c, d, e>> \in Seq(T)
    OBVIOUS
  <2> QED BY <1>1, <2>1
<1>3. PICK q : q = <<f, g>>
  OBVIOUS
<1>4. q \in Seq(T) /\ Len(q) = 2 /\ q[1] = f /\ q[2] = g
  BY <1>3
<1>5. p = s \o q
  BY <1>1, <1>3
<1> HIDE DEF T
<1>6. Len(p) = 7 /\ \A i \in 1 .. 7 : p[i] = IF i <= 5 THEN s[i] ELSE q[i - 5]
  BY <1>2, <1>4, <1>5, ConcatProperties
<1> QED BY <1>2, <1>4, <1>6

LEMMA GoalSteps ==
  ASSUME NEW s, s.table = "UserGoal", NEW p, p = Program(s)
  PROVE  /\ Len(p) = 7 /\ p[1] = Lock("User", s.user, "update") /\ p[2] = Check("offer")
         /\ p[3] = Check("same goal") /\ p[4] = Lock("UserGoal_userId_active", s.user, "update")
         /\ p[5] = Check("one goal") /\ p[6] = Lock("Level", s.level, "share") /\ p[7] = Check("band")
<1>1. PICK a, b, c, d, e, f, g :
        /\ a = Lock("User", s.user, "update") /\ b = Check("offer") /\ c = Check("same goal")
        /\ d = Lock("UserGoal_userId_active", s.user, "update") /\ e = Check("one goal")
        /\ f = Lock("Level", s.level, "share") /\ g = Check("band")
  OBVIOUS
<1>2. p = SetGoalProgram(s)
  BY DEF Program
<1>3. p = <<a>> \o <<b, c, d, e>> \o <<f, g>>
  BY <1>1, <1>2 DEF SetGoalProgram, UserProgram, BandProgram
<1>4. /\ Len(p) = 7 /\ p[1] = a /\ p[2] = b /\ p[3] = c
      /\ p[4] = d /\ p[5] = e /\ p[6] = f /\ p[7] = g
  BY <1>3, AccountSteps
<1> QED BY <1>1, <1>4

LEMMA PlanSteps ==
  ASSUME NEW s, s.table = "LearningPlan", NEW p, p = Program(s)
  PROVE  /\ Len(p) = 7 /\ p[1] = Lock("User", s.user, "update") /\ p[2] = Check("goal")
         /\ p[3] = Check("same plan") /\ p[4] = Lock("LearningPlan_userId_active", s.user, "update")
         /\ p[5] = Check("one plan") /\ p[6] = Lock("Level", s.level, "share") /\ p[7] = Check("band")
<1>1. PICK a, b, c, d, e, f, g :
        /\ a = Lock("User", s.user, "update") /\ b = Check("goal") /\ c = Check("same plan")
        /\ d = Lock("LearningPlan_userId_active", s.user, "update") /\ e = Check("one plan")
        /\ f = Lock("Level", s.level, "share") /\ g = Check("band")
  OBVIOUS
<1>2. p = GeneratePlanProgram(s)
  BY DEF Program
<1>3. p = <<a>> \o <<b, c, d, e>> \o <<f, g>>
  BY <1>1, <1>2 DEF GeneratePlanProgram, UserProgram, BandProgram
<1>4. /\ Len(p) = 7 /\ p[1] = a /\ p[2] = b /\ p[3] = c
      /\ p[4] = d /\ p[5] = e /\ p[6] = f /\ p[7] = g
  BY <1>3, AccountSteps
<1> QED BY <1>1, <1>4

LEMMA OtherSteps ==
  ASSUME NEW s
  PROVE  /\ s.table = "PlacementAttempt" => Program(s) = BandProgram(s.level)
         /\ s.table = "Result" => Program(s) = ResultProgram(s)
         /\ s.table = "Level" => Program(s) = LevelProgram(s)
         /\ s.table = "Test" => Program(s) = TestProgram(s)
  BY DEF Program

PlanRows == [row : Plans, lessons : SUBSET Lessons]
Outcomes == {"idle", "running", "done", "refused", "conflict", "committed", "aborted"}
TxnRecord == [state : Outcomes, statement : AllStatements \cup {None}, at : Nat \ {0},
              seen : Goals \cup PlanRows \cup {None}, lessons : SUBSET Lessons]

CurriculumTypes ==
  /\ range \in [Levels -> SUBSET Bands] /\ testLevel \in [Tests -> Levels]
  /\ rows \subseteq Children
  /\ goal \in [Users -> Goals \cup {None}] /\ plan \in [Users -> PlanRows \cup {None}]
  /\ txn \in [Transactions -> TxnRecord]
  /\ \A t \in Transactions : Running(t) => txn[t].statement \in AllStatements
  /\ \A t \in Transactions : txn[t].state = "idle" => txn[t].at = 1
  /\ \A l \in locks : l.holder \in Transactions

\* A granted lock conflicts with none of another transaction.
Compatible == \A l, m \in locks : l.row = m.row /\ l.holder # m.holder => ~Conflicts(l.mode, m.mode)

Has(t, table, id, mode) == [holder |-> t, row |-> <<table, id>>, mode |-> mode] \in locks

\* The lock of an UPDATE that leaves the unique keys alone.
Exclusive == "no key update"

\* What a running transaction has locked so far, and what its checks found and the locks
\* keep true.
KeepsPlacement(t, s, a) ==
  /\ a >= 2 => Has(t, "Level", s.level, "share")
  /\ a >= 3 => s.band \in range[s.level]
KeepsAccount(t, s, a) ==
  /\ a >= 2 => Has(t, "User", s.user, "update")
  /\ a >= 7 => Has(t, "Level", s.level, "share")
  /\ a >= 8 => s.band \in range[s.level]
KeepsGoal(t, s, a) ==
  a >= 3 => /\ s \in Plans
            /\ goal[s.user] # None /\ s.level = goal[s.user].level /\ s.band = goal[s.user].band
KeepsResult(t, s, a) ==
  /\ a >= 5 => Has(t, "Test", s.test, "share")
  /\ a >= 6 => Has(t, "Level", testLevel[s.test], "share")
  /\ a >= 7 => s.band \in range[testLevel[s.test]]
KeepsLevel(t, s, a) ==
  /\ a >= 2 => Has(t, "Level", s.level, Exclusive)
  /\ a >= 3 => \A r \in BandRows : LevelOf(r) = s.level => r.band \in s.range
KeepsTest(t, s, a) ==
  /\ a >= 2 => Has(t, "Test", s.test, Exclusive)
  /\ a >= 3 => Has(t, "Level", s.level, "share")
  /\ a >= 4 => \A r \in Of("Result") : r.test = s.test => r.band \in range[s.level]
KeepsWhat(t, s, a) ==
  /\ s.table = "PlacementAttempt" => KeepsPlacement(t, s, a)
  /\ s.table \in {"UserGoal", "LearningPlan"} => KeepsAccount(t, s, a)
  /\ s.table = "LearningPlan" => KeepsGoal(t, s, a)
  /\ s.table = "Result" => KeepsResult(t, s, a)
  /\ s.table = "Level" => KeepsLevel(t, s, a)
  /\ s.table = "Test" => KeepsTest(t, s, a)
Keeps(t) == KeepsWhat(t, txn[t].statement, txn[t].at)

CurriculumInv ==
  /\ CurriculumTypes /\ Compatible /\ BandsFit
  /\ \A t \in Transactions : Running(t) => Keeps(t)

\* A check of bands that is passed has held.
ChecksPass(t) ==
  Step(t).do \in {"band", "band children", "test results"} => Passes(txn[t].statement, Step(t).do)

\* One step of t's program, as far as the invariant is concerned: a lock is granted, or a
\* check has passed.
Moves(t) ==
  /\ Running(t) /\ ~Finished(t)
  /\ txn'[t].state = "running" /\ txn'[t].statement = txn[t].statement /\ txn'[t].at = txn[t].at + 1
  /\ UNCHANGED <<range, testLevel, rows, goal, plan>>
  /\ \A l \in locks : l \in locks'
  /\ Step(t).do = "lock" => [holder |-> t, row |-> Step(t).row, mode |-> Step(t).mode] \in locks'
  /\ ChecksPass(t)
  /\ Step(t).do # "goal"

LEMMA Instructions ==
  /\ \A what : Check(what).do = what
  /\ \A table, id, mode : /\ Lock(table, id, mode).do = "lock" /\ Lock(table, id, mode).row = <<table, id>>
                          /\ Lock(table, id, mode).mode = mode
  BY DEF Check, Lock

LEMMA MovesKeep ==
  ASSUME CurriculumInv, NEW t \in Transactions, Moves(t)
  PROVE  Keeps(t)'
<1>1. PICK s, a, b, p : s = txn[t].statement /\ a = txn[t].at /\ b = a + 1 /\ p = Program(s)
  OBVIOUS
<1>2. /\ s \in AllStatements /\ a \in Nat \ {0} /\ KeepsWhat(t, s, a) /\ ~(a > Len(p)) /\ Step(t) = p[a]
  <2>1. Running(t) /\ ~(a > Len(p)) /\ Step(t) = p[a]
    BY <1>1 DEF Moves, Finished, Current, Step
  <2>2. txn[t] \in TxnRecord
    BY DEF CurriculumInv, CurriculumTypes
  <2>3. a \in Nat \ {0}
    BY <2>2, <1>1 DEF TxnRecord
  <2>4. s \in AllStatements /\ Keeps(t)
    BY <2>1, <1>1 DEF CurriculumInv, CurriculumTypes
  <2> QED BY <2>1, <2>3, <2>4, <1>1 DEF Keeps
<1>3. /\ txn'[t].statement = s /\ txn'[t].at = b
      /\ range' = range /\ testLevel' = testLevel /\ rows' = rows /\ goal' = goal
      /\ \A l \in locks : l \in locks'
  BY <1>1 DEF Moves
<1>4. \A table, id, mode : Has(t, table, id, mode) => Has(t, table, id, mode)'
  BY <1>3 DEF Has
<1>5. \A table, id, mode : p[a] = Lock(table, id, mode) => Has(t, table, id, mode)'
  <2> SUFFICES ASSUME NEW table, NEW id, NEW mode, p[a] = Lock(table, id, mode)
               PROVE  Has(t, table, id, mode)'
    OBVIOUS
  <2>1. Step(t).do = "lock" /\ Step(t).row = <<table, id>> /\ Step(t).mode = mode
    BY <1>2, Instructions
  <2>2. [holder |-> t, row |-> Step(t).row, mode |-> Step(t).mode] \in locks'
    BY <2>1 DEF Moves
  <2> QED BY <2>1, <2>2 DEF Has
<1>6. \A what \in {"band", "band children", "test results"} : p[a] = Check(what) => Passes(s, what)
  <2> SUFFICES ASSUME NEW what \in {"band", "band children", "test results"}, p[a] = Check(what)
               PROVE  Passes(s, what)
    OBVIOUS
  <2>1. Step(t).do = what
    BY <1>2, Instructions
  <2> QED BY <1>1, <2>1 DEF Moves, ChecksPass
<1>7. p[a] # Check("goal")
  BY <1>2, Instructions DEF Moves
<1>8. /\ LevelOf(s) = IF s.table = "Result" THEN testLevel[s.test] ELSE s.level
      /\ BandRows' = BandRows /\ Of("Result")' = Of("Result") /\ \A r : LevelOf(r)' = LevelOf(r)
  BY <1>3 DEF LevelOf, BandRows, Of
<1>9. SUFFICES KeepsWhat(t, s, b)'
  BY <1>1, <1>3 DEF Keeps
<1>10. ASSUME s.table = "PlacementAttempt" PROVE KeepsPlacement(t, s, b)'
  <2>1. p = <<Lock("Level", s.level, "share"), Check("band")>>
    BY <1>1, <1>10, OtherSteps DEF BandProgram
  <2>2. a \in {1, 2} /\ p[1] = Lock("Level", s.level, "share") /\ p[2] = Check("band")
    BY <2>1, <1>2
  <2>3. a = 1 => Has(t, "Level", s.level, "share")'
    BY <2>2, <1>5
  <2>4. a = 2 => Passes(s, "band")
    BY <2>2, <1>6
  <2>5. KeepsPlacement(t, s, a)
    BY <1>2, <1>10 DEF KeepsWhat
  <2>6. a = 2 => s.band \in range[s.level]
    BY <2>4, <1>8, <1>10 DEF Passes
  <2>7. b >= 2 => Has(t, "Level", s.level, "share")'
    BY <1>1, <1>4, <2>2, <2>3, <2>5 DEF KeepsPlacement
  <2>8. b >= 3 => s.band \in range'[s.level]
    BY <1>1, <1>3, <2>2, <2>6, <2>5 DEF KeepsPlacement
  <2> QED BY <2>7, <2>8 DEF KeepsPlacement
<1>11. ASSUME s.table \in {"UserGoal", "LearningPlan"} PROVE KeepsAccount(t, s, b)'
  <2>1. /\ Len(p) = 7 /\ p[1] = Lock("User", s.user, "update")
        /\ p[6] = Lock("Level", s.level, "share") /\ p[7] = Check("band")
    <3>1. CASE s.table = "UserGoal"
      BY <1>1, <3>1, GoalSteps
    <3>2. CASE s.table = "LearningPlan"
      BY <1>1, <3>2, PlanSteps
    <3> QED BY <1>11, <3>1, <3>2
  <2>2. a \in 1 .. 7
    BY <1>2, <2>1
  <2>3. a = 1 => Has(t, "User", s.user, "update")'
    BY <2>1, <1>5
  <2>4. a = 6 => Has(t, "Level", s.level, "share")'
    BY <2>1, <1>5
  <2>5. a = 7 => s.band \in range[s.level]
    <3>1. a = 7 => Passes(s, "band")
      BY <2>1, <1>6
    <3> QED BY <3>1, <1>8, <1>11 DEF Passes
  <2>6. KeepsAccount(t, s, a)
    BY <1>2, <1>11 DEF KeepsWhat
  <2>7. b >= 2 => Has(t, "User", s.user, "update")'
    BY <1>1, <1>4, <2>2, <2>3, <2>6 DEF KeepsAccount
  <2>8. b >= 7 => Has(t, "Level", s.level, "share")'
    BY <1>1, <1>4, <2>2, <2>4, <2>6 DEF KeepsAccount
  <2>9. b >= 8 => s.band \in range'[s.level]
    BY <1>1, <2>2, <2>5, <1>3
  <2> QED BY <2>7, <2>8, <2>9 DEF KeepsAccount
<1>12. ASSUME s.table = "LearningPlan" PROVE KeepsGoal(t, s, b)'
  <2>1. p[2] = Check("goal")
    BY <1>1, <1>12, PlanSteps
  <2>2. a # 2
    BY <2>1, <1>7
  <2>3. KeepsGoal(t, s, a)
    BY <1>2, <1>12 DEF KeepsWhat
  <2> QED BY <1>1, <1>2, <1>3, <2>2, <2>3 DEF KeepsGoal
<1>13. ASSUME s.table = "Result" PROVE KeepsResult(t, s, b)'
  <2>1. p = <<Lock("Test", s.test, "key share"), Lock("ExamAttempt", s.attempt, "key share"),
              Check("final attempt"), Lock("Test", s.test, "share"),
              Lock("Level", testLevel[s.test], "share"), Check("band")>>
    BY <1>1, <1>13, OtherSteps DEF ResultProgram
  <2>2. /\ a \in 1 .. 6 /\ p[4] = Lock("Test", s.test, "share")
        /\ p[5] = Lock("Level", testLevel[s.test], "share") /\ p[6] = Check("band")
    <3>1. PICK u, v, w, x, y, z :
            /\ u = Lock("Test", s.test, "key share") /\ v = Lock("ExamAttempt", s.attempt, "key share")
            /\ w = Check("final attempt") /\ x = Lock("Test", s.test, "share")
            /\ y = Lock("Level", testLevel[s.test], "share") /\ z = Check("band")
      OBVIOUS
    <3>2. p = <<u, v, w, x, y, z>>
      BY <2>1, <3>1, Zenon
    <3>3. a \in 1 .. 6 /\ p[4] = x /\ p[5] = y /\ p[6] = z
      BY <3>2, <1>2
    <3> QED BY <3>1, <3>3
  <2>3. a = 4 => Has(t, "Test", s.test, "share")'
    BY <2>2, <1>5
  <2>4. a = 5 => Has(t, "Level", testLevel[s.test], "share")'
    <3>1. PICK l : l = testLevel[s.test]
      OBVIOUS
    <3>2. testLevel'[s.test] = l
      BY <3>1, <1>3
    <3>3. a = 5 => Has(t, "Level", l, "share")'
      BY <2>2, <1>5, <3>1
    <3> QED BY <3>2, <3>3
  <2>5. a = 6 => s.band \in range[testLevel[s.test]]
    <3>1. a = 6 => Passes(s, "band")
      BY <2>2, <1>6
    <3> QED BY <3>1, <1>8, <1>13 DEF Passes
  <2>6. KeepsResult(t, s, a)
    BY <1>2, <1>13 DEF KeepsWhat
  <2>7. b >= 5 => Has(t, "Test", s.test, "share")'
    BY <1>1, <1>4, <2>2, <2>3, <2>6 DEF KeepsResult
  <2>8. b >= 6 => Has(t, "Level", testLevel[s.test], "share")'
    <3>1. PICK l : l = testLevel[s.test]
      OBVIOUS
    <3>2. testLevel'[s.test] = l
      BY <3>1, <1>3
    <3>3. a >= 6 => Has(t, "Level", l, "share")'
      BY <2>6, <1>4, <3>1 DEF KeepsResult
    <3>4. a >= 6 => Has(t, "Level", testLevel[s.test], "share")'
      BY <3>2, <3>3
    <3> QED BY <1>1, <2>2, <2>4, <3>4
  <2>9. b >= 7 => s.band \in range'[testLevel'[s.test]]
    BY <1>1, <2>2, <2>5, <1>3
  <2> QED BY <2>7, <2>8, <2>9 DEF KeepsResult
<1>14. ASSUME s.table = "Level" PROVE KeepsLevel(t, s, b)'
  <2>1. p = <<Lock("Level", s.level, "no key update"), Check("band children")>>
    BY <1>1, <1>14, OtherSteps DEF LevelProgram
  <2> DEFINE final == Check("band children")
  <2>2. a \in {1, 2} /\ p[1] = Lock("Level", s.level, Exclusive) /\ p[2] = final
    <3>1. PICK u, v : u = Lock("Level", s.level, Exclusive) /\ v = final
      OBVIOUS
    <3>2. p = <<u, v>>
      BY <2>1, <3>1, Zenon DEF Exclusive
    <3>3. a \in {1, 2} /\ p[1] = u /\ p[2] = v
      BY <3>2, <1>2
    <3> QED BY <3>1, <3>3, Zenon
  <2> HIDE DEF final
  <2>3. a = 1 => Has(t, "Level", s.level, Exclusive)'
    BY <2>2, <1>5
  <2>4. a = 2 => \A r \in BandRows : LevelOf(r) = s.level => r.band \in s.range
    <3>1. a = 2 => Passes(s, "band children")
      BY <2>2, <1>6, Zenon DEF final
    <3> QED BY <3>1 DEF Passes
  <2>5. KeepsLevel(t, s, a)
    BY <1>2, <1>14 DEF KeepsWhat
  <2>6. b >= 2 => Has(t, "Level", s.level, Exclusive)'
    BY <1>1, <1>4, <2>2, <2>3, <2>5 DEF KeepsLevel
  <2>7. b >= 3 => \A r \in BandRows' : LevelOf(r)' = s.level => r.band \in s.range
    BY <1>1, <1>8, <2>2, <2>4
  <2> QED BY <2>6, <2>7 DEF KeepsLevel
<1>15. ASSUME s.table = "Test" PROVE KeepsTest(t, s, b)'
  <2>1. p = <<Lock("Test", s.test, "no key update"), Lock("Level", s.level, "share"),
              Check("test results")>>
    BY <1>1, <1>15, OtherSteps DEF TestProgram
  <2> DEFINE final == Check("test results")
  <2>2. /\ a \in 1 .. 3 /\ p[1] = Lock("Test", s.test, Exclusive)
        /\ p[2] = Lock("Level", s.level, "share") /\ p[3] = final
    <3>1. PICK u, v, w : u = Lock("Test", s.test, Exclusive) /\ v = Lock("Level", s.level, "share") /\ w = final
      OBVIOUS
    <3>2. p = <<u, v, w>>
      BY <2>1, <3>1, Zenon DEF Exclusive
    <3>3. a \in 1 .. 3 /\ p[1] = u /\ p[2] = v /\ p[3] = w
      BY <3>2, <1>2
    <3> QED BY <3>1, <3>3, Zenon
  <2> HIDE DEF final
  <2>3. a = 1 => Has(t, "Test", s.test, Exclusive)'
    BY <2>2, <1>5
  <2>4. a = 2 => Has(t, "Level", s.level, "share")'
    BY <2>2, <1>5
  <2>5. a = 3 => \A r \in Of("Result") : r.test = s.test => r.band \in range[s.level]
    <3>1. a = 3 => Passes(s, "test results")
      BY <2>2, <1>6, Zenon DEF final
    <3> QED BY <3>1 DEF Passes
  <2>6. KeepsTest(t, s, a)
    BY <1>2, <1>15 DEF KeepsWhat
  <2>7. b >= 2 => Has(t, "Test", s.test, Exclusive)'
    BY <1>1, <1>4, <2>2, <2>3, <2>6 DEF KeepsTest
  <2>8. b >= 3 => Has(t, "Level", s.level, "share")'
    BY <1>1, <1>4, <2>2, <2>4, <2>6 DEF KeepsTest
  <2>9. b >= 4 => \A r \in Of("Result")' : r.test = s.test => r.band \in range'[s.level]
    BY <1>1, <1>3, <1>8, <2>2, <2>5
  <2> QED BY <2>7, <2>8, <2>9 DEF KeepsTest
<1> QED BY <1>10, <1>11, <1>12, <1>13, <1>14, <1>15 DEF KeepsWhat

\* A transaction whose program is through holds every lock and has passed every check.
LEMMA FinishedKeeps ==
  ASSUME CurriculumInv, NEW t \in Transactions, Running(t), Finished(t)
  PROVE  KeepsWhat(t, txn[t].statement, 9)
<1>1. PICK s, a, p : s = txn[t].statement /\ a = txn[t].at /\ p = Program(s)
  OBVIOUS
<1>2. a \in Nat \ {0} /\ KeepsWhat(t, s, a) /\ a > Len(p)
  <2>1. txn[t] \in TxnRecord
    BY DEF CurriculumInv, CurriculumTypes
  <2>2. a \in Nat \ {0}
    BY <2>1, <1>1 DEF TxnRecord
  <2>3. Keeps(t)
    BY DEF CurriculumInv
  <2> QED BY <2>2, <2>3, <1>1 DEF Keeps, Finished, Current
<1>3. ASSUME s.table = "PlacementAttempt" PROVE KeepsPlacement(t, s, 9)
  <2>1. p = <<Lock("Level", s.level, "share"), Check("band")>>
    BY <1>1, <1>3, OtherSteps DEF BandProgram
  <2>2. a >= 3
    BY <2>1, <1>2
  <2>3. KeepsPlacement(t, s, a)
    BY <1>2, <1>3 DEF KeepsWhat
  <2> QED BY <2>2, <2>3, <1>2 DEF KeepsPlacement
<1>4. ASSUME s.table \in {"UserGoal", "LearningPlan"} PROVE KeepsAccount(t, s, 9)
  <2>1. Len(p) = 7
    BY <1>1, <1>4, GoalSteps, PlanSteps
  <2>2. KeepsAccount(t, s, a)
    BY <1>2, <1>4 DEF KeepsWhat
  <2> QED BY <2>1, <2>2, <1>2 DEF KeepsAccount
<1>5. ASSUME s.table = "LearningPlan" PROVE KeepsGoal(t, s, 9)
  <2>1. Len(p) = 7
    BY <1>1, <1>5, PlanSteps
  <2>2. KeepsGoal(t, s, a)
    BY <1>2, <1>5 DEF KeepsWhat
  <2> QED BY <2>1, <2>2, <1>2 DEF KeepsGoal
<1>6. ASSUME s.table = "Result" PROVE KeepsResult(t, s, 9)
  <2>1. PICK u, v, w, x, y, z :
            /\ u = Lock("Test", s.test, "key share") /\ v = Lock("ExamAttempt", s.attempt, "key share")
            /\ w = Check("final attempt") /\ x = Lock("Test", s.test, "share")
            /\ y = Lock("Level", testLevel[s.test], "share") /\ z = Check("band")
    OBVIOUS
  <2>2. p = <<u, v, w, x, y, z>>
    BY <1>1, <1>6, OtherSteps, <2>1, Zenon DEF ResultProgram
  <2>3. a >= 7
    BY <2>2, <1>2
  <2>4. KeepsResult(t, s, a)
    BY <1>2, <1>6 DEF KeepsWhat
  <2> QED BY <2>3, <2>4, <1>2 DEF KeepsResult
<1>7. ASSUME s.table = "Level" PROVE KeepsLevel(t, s, 9)
  <2>1. PICK u, v : u = Lock("Level", s.level, "no key update") /\ v = Check("band children")
    OBVIOUS
  <2>2. p = <<u, v>>
    BY <1>1, <1>7, OtherSteps, <2>1, Zenon DEF LevelProgram
  <2>3. a >= 3
    BY <2>2, <1>2
  <2>4. KeepsLevel(t, s, a)
    BY <1>2, <1>7 DEF KeepsWhat
  <2> QED BY <2>3, <2>4, <1>2 DEF KeepsLevel
<1>8. ASSUME s.table = "Test" PROVE KeepsTest(t, s, 9)
  <2>1. PICK u, v, w : /\ u = Lock("Test", s.test, "no key update") /\ v = Lock("Level", s.level, "share")
                       /\ w = Check("test results")
    OBVIOUS
  <2>2. p = <<u, v, w>>
    BY <1>1, <1>8, OtherSteps, <2>1, Zenon DEF TestProgram
  <2>3. a >= 4
    BY <2>2, <1>2
  <2>4. KeepsTest(t, s, a)
    BY <1>2, <1>8 DEF KeepsWhat
  <2> QED BY <2>3, <2>4, <1>2 DEF KeepsTest
<1> QED BY <1>1, <1>3, <1>4, <1>5, <1>6, <1>7, <1>8 DEF KeepsWhat

\* Two transactions do not hold conflicting locks on a row.
LEMMA Excludes ==
  ASSUME CurriculumInv, NEW t, NEW u, t # u, NEW table, NEW id
  PROVE  /\ ~(Has(t, table, id, "share") /\ Has(u, table, id, Exclusive))
         /\ ~(Has(t, table, id, Exclusive) /\ Has(u, table, id, "share"))
         /\ ~(Has(t, table, id, "update") /\ Has(u, table, id, "update"))
<1>1. \A m, n : Has(t, table, id, m) /\ Has(u, table, id, n) => ~Conflicts(m, n)
  <2> SUFFICES ASSUME NEW m, NEW n, Has(t, table, id, m), Has(u, table, id, n)
               PROVE  ~Conflicts(m, n)
    OBVIOUS
  <2>1. PICK k, l : /\ k = [holder |-> t, row |-> <<table, id>>, mode |-> m]
                    /\ l = [holder |-> u, row |-> <<table, id>>, mode |-> n]
    OBVIOUS
  <2>2. k \in locks /\ l \in locks
    BY <2>1 DEF Has
  <2>3. k.row = l.row /\ k.holder # l.holder /\ k.mode = m /\ l.mode = n
    BY <2>1
  <2> QED BY <2>2, <2>3 DEF CurriculumInv, Compatible
<1>2. Conflicts("share", Exclusive) /\ Conflicts(Exclusive, "share") /\ Conflicts("update", "update")
  <2>1. "share" # "no key update" /\ "share" # "key share"
    BY Zenon
  <2>2. "share" \notin {"no key update", "key share"}
    BY <2>1, Zenon
  <2>3. {"share", "no key update"} # {"no key update", "key share"}
    <3>1. "share" \in {"share", "no key update"}
      BY Zenon
    <3> QED BY <3>1, <2>2, Zenon
  <2>4. {"no key update", "share"} # {"no key update", "key share"}
    <3>1. "share" \in {"no key update", "share"}
      BY Zenon
    <3> QED BY <3>1, <2>2, Zenon
  <2>5. "no key update" \in {"share", "no key update"} /\ "no key update" \in {"no key update", "share"}
    BY Zenon
  <2>6. "update" \in {"update", "update"}
    OBVIOUS
  <2> QED BY <2>3, <2>4, <2>5, <2>6, Zenon DEF Conflicts, Exclusive
<1> QED BY <1>1, <1>2

\* What a commit changes of the rows, the ranges, the tests and the goals.
LEMMA CommitEffects ==
  ASSUME CurriculumInv, NEW t \in Transactions, Commit(t), NEW s, s = txn[t].statement
  PROVE  /\ s \in AllStatements /\ KeepsWhat(t, s, 9)
         /\ rows' = rows \/ (rows' = rows \cup {s} /\ s.table \notin {"Level", "Test"})
         /\ range' = range \/ (s.table = "Level" /\ range' = [range EXCEPT ![s.level] = s.range])
         /\ testLevel' = testLevel \/ (s.table = "Test" /\ testLevel' = [testLevel EXCEPT ![s.test] = s.level])
         /\ goal' = goal \/ (s.table = "UserGoal" /\ goal' = [goal EXCEPT ![s.user] = s])
         /\ plan' = plan \/ (/\ s.table = "LearningPlan"
                             /\ plan' = [plan EXCEPT ![s.user] = [row |-> s, lessons |-> txn[t].lessons]])
<1>1. Running(t) /\ Finished(t)
  BY DEF Commit
<1>2. s \in AllStatements /\ KeepsWhat(t, s, 9)
  BY <1>1, FinishedKeeps DEF CurriculumInv, CurriculumTypes
<1>3. ASSUME Insert(t)
      PROVE  /\ rows' = rows \cup {s} /\ s.table \notin {"Level", "Test"}
             /\ range' = range /\ testLevel' = testLevel
             /\ goal' = goal \/ (s.table = "UserGoal" /\ goal' = [goal EXCEPT ![s.user] = s])
             /\ plan' = plan \/ (/\ s.table = "LearningPlan"
                                 /\ plan' = [plan EXCEPT ![s.user] = [row |-> s, lessons |-> txn[t].lessons]])
  BY <1>3 DEF Insert, parents
<1>4. ASSUME Update(t)
      PROVE  /\ rows' = rows /\ goal' = goal /\ plan' = plan
             /\ \/ range' = range /\ testLevel' = testLevel
                \/ s.table = "Level" /\ range' = [range EXCEPT ![s.level] = s.range] /\ testLevel' = testLevel
                \/ s.table = "Test" /\ testLevel' = [testLevel EXCEPT ![s.test] = s.level] /\ range' = range
  BY <1>4 DEF Update
<1>5. Insert(t) \/ Update(t)
  BY DEF Commit
<1> QED BY <1>2, <1>3, <1>4, <1>5

LEMMA CommitStable ==
  ASSUME CurriculumInv, NEW t \in Transactions, NEW u \in Transactions, t # u, Commit(t)
  PROVE  /\ \A l \in Levels : Has(u, "Level", l, "share") => range'[l] = range[l]
         /\ \A x \in Tests : Has(u, "Test", x, "share") => testLevel'[x] = testLevel[x]
         /\ \A v \in Users : Has(u, "User", v, "update") => goal'[v] = goal[v]
         /\ \A l \in Levels : Has(u, "Level", l, Exclusive) =>
              \A r \in BandRows' : LevelOf(r)' = l => r \in BandRows /\ LevelOf(r) = l
         /\ \A x \in Tests : Has(u, "Test", x, Exclusive) =>
              \A r \in Of("Result")' : r.test = x => r \in Of("Result")
<1>1. PICK s : s = txn[t].statement
  OBVIOUS
<1>2. /\ s \in AllStatements /\ KeepsWhat(t, s, 9)
      /\ rows' = rows \/ (rows' = rows \cup {s} /\ s.table \notin {"Level", "Test"})
      /\ range' = range \/ (s.table = "Level" /\ range' = [range EXCEPT ![s.level] = s.range])
      /\ testLevel' = testLevel \/ (s.table = "Test" /\ testLevel' = [testLevel EXCEPT ![s.test] = s.level])
      /\ goal' = goal \/ (s.table = "UserGoal" /\ goal' = [goal EXCEPT ![s.user] = s])
  BY <1>1, CommitEffects
<1>3. range \in [Levels -> SUBSET Bands] /\ testLevel \in [Tests -> Levels] /\ goal \in [Users -> Goals \cup {None}]
  BY DEF CurriculumInv, CurriculumTypes
<1>4. ASSUME NEW l \in Levels, Has(u, "Level", l, "share") PROVE range'[l] = range[l]
  <2>1. s.table = "Level" => l # s.level
    <3>1. s.table = "Level" => Has(t, "Level", s.level, Exclusive)
      BY <1>2 DEF KeepsWhat, KeepsLevel
    <3> QED BY <3>1, <1>4, Excludes
  <2> QED BY <2>1, <1>2, <1>3
<1>5. ASSUME NEW x \in Tests, Has(u, "Test", x, "share") PROVE testLevel'[x] = testLevel[x]
  <2>1. s.table = "Test" => x # s.test
    <3>1. s.table = "Test" => Has(t, "Test", s.test, Exclusive)
      BY <1>2 DEF KeepsWhat, KeepsTest
    <3> QED BY <3>1, <1>5, Excludes
  <2> QED BY <2>1, <1>2, <1>3
<1>6. ASSUME NEW v \in Users, Has(u, "User", v, "update") PROVE goal'[v] = goal[v]
  <2>1. s.table = "UserGoal" => v # s.user
    <3>1. s.table = "UserGoal" => Has(t, "User", s.user, "update")
      BY <1>2 DEF KeepsWhat, KeepsAccount
    <3> QED BY <3>1, <1>6, Excludes
  <2> QED BY <2>1, <1>2, <1>3
<1>7. ASSUME NEW l \in Levels, Has(u, "Level", l, Exclusive), NEW r \in BandRows', LevelOf(r)' = l
      PROVE  r \in BandRows /\ LevelOf(r) = l
  <2>1. r \in rows' /\ r.table \in {"UserGoal", "LearningPlan", "PlacementAttempt", "Result"}
    BY <1>7 DEF BandRows
  <2>2. l = IF r.table = "Result" THEN testLevel'[r.test] ELSE r.level
    BY <1>7 DEF LevelOf
  <2>3. CASE s.table = "Test"
    <3>1. Has(t, "Level", s.level, "share") /\ rows' = rows /\ range' = range
      BY <2>3, <1>2 DEF KeepsWhat, KeepsTest
    <3>2. l # s.level
      BY <3>1, <1>7, Excludes
    <3>3. r \in BandRows
      BY <2>1, <3>1 DEF BandRows
    <3>4. r.table = "Result" => r.test \in Tests
      <4>1. r \in AllStatements
        BY <2>1, <3>1 DEF CurriculumInv, CurriculumTypes, AllStatements
      <4> QED BY <4>1, Shapes DEF Results
    <3>5. r.table = "Result" => testLevel'[r.test] = testLevel[r.test]
      BY <3>2, <3>4, <2>2, <1>2, <1>3
    <3> QED BY <3>3, <3>5, <2>2 DEF LevelOf
  <2>4. CASE s.table # "Test"
    <3>1. testLevel' = testLevel
      BY <2>4, <1>2
    <3>2. LevelOf(r) = l
      BY <2>2, <3>1 DEF LevelOf
    <3>3. r # s
      <4>1. SUFFICES ASSUME r = s PROVE FALSE
        OBVIOUS
      <4>2. Has(t, "Level", LevelOf(s), "share")
        BY <2>1, <4>1, <1>2 DEF KeepsWhat, KeepsPlacement, KeepsAccount, KeepsResult, LevelOf
      <4> QED BY <4>1, <4>2, <3>2, <1>7, Excludes
    <3>4. r \in rows
      BY <3>3, <2>1, <1>2
    <3> QED BY <3>2, <3>4, <2>1 DEF BandRows
  <2> QED BY <2>3, <2>4
<1>8. ASSUME NEW x \in Tests, Has(u, "Test", x, Exclusive), NEW r \in Of("Result")', r.test = x
      PROVE  r \in Of("Result")
  <2>1. r \in rows' /\ r.table = "Result"
    BY <1>8 DEF Of
  <2>2. r # s
    <3>1. SUFFICES ASSUME r = s PROVE FALSE
      OBVIOUS
    <3>2. Has(t, "Test", s.test, "share")
      BY <2>1, <3>1, <1>2 DEF KeepsWhat, KeepsResult
    <3> QED BY <3>1, <3>2, <1>8, Excludes
  <2> QED BY <2>1, <2>2, <1>2 DEF Of
<1> QED BY <1>4, <1>5, <1>6, <1>7, <1>8

LEMMA OthersKeep ==
  ASSUME CurriculumInv, NEW t \in Transactions, NEW u \in Transactions, t # u, Commit(t), Running(u)
  PROVE  Keeps(u)'
<1>1. PICK q, a : q = txn[u].statement /\ a = txn[u].at
  OBVIOUS
<1>2. q \in AllStatements /\ KeepsWhat(u, q, a) /\ a \in Nat
  <2>1. txn[u] \in TxnRecord /\ Keeps(u) /\ q \in AllStatements
    BY <1>1 DEF CurriculumInv, CurriculumTypes
  <2> QED BY <2>1, <1>1 DEF Keeps, TxnRecord
<1>3. txn'[u] = txn[u] /\ \A table, id, mode : Has(u, table, id, mode) => Has(u, table, id, mode)'
  <2>1. txn' = [txn EXCEPT ![t].state = "committed"] /\ locks' = {l \in locks : l.holder # t}
    BY DEF Commit, Release
  <2>2. \A table, id, mode : [holder |-> u, row |-> <<table, id>>, mode |-> mode].holder = u
    OBVIOUS
  <2>3. txn'[u] = txn[u]
    BY <2>1 DEF CurriculumInv, CurriculumTypes
  <2> QED BY <2>1, <2>2, <2>3 DEF Has
<1>4. SUFFICES KeepsWhat(u, q, a)'
  BY <1>1, <1>3 DEF Keeps
<1>5. /\ \A l \in Levels : Has(u, "Level", l, "share") => range'[l] = range[l]
      /\ \A x \in Tests : Has(u, "Test", x, "share") => testLevel'[x] = testLevel[x]
      /\ \A v \in Users : Has(u, "User", v, "update") => goal'[v] = goal[v]
      /\ \A l \in Levels : Has(u, "Level", l, Exclusive) =>
           \A r \in BandRows' : LevelOf(r)' = l => r \in BandRows /\ LevelOf(r) = l
      /\ \A x \in Tests : Has(u, "Test", x, Exclusive) =>
           \A r \in Of("Result")' : r.test = x => r \in Of("Result")
  BY CommitStable
<1>6. testLevel \in [Tests -> Levels]
  BY DEF CurriculumInv, CurriculumTypes
<1>7. ASSUME q.table = "PlacementAttempt" PROVE KeepsPlacement(u, q, a)'
  <2>1. q.level \in Levels
    BY <1>2, <1>7, Shapes DEF Placements
  <2>2. KeepsPlacement(u, q, a)
    BY <1>2, <1>7 DEF KeepsWhat
  <2>3. a >= 3 => a >= 2
    BY <1>2
  <2> QED BY <2>1, <2>2, <2>3, <1>3, <1>5 DEF KeepsPlacement
<1>8. ASSUME q.table = "LearningPlan" PROVE KeepsGoal(u, q, a)'
  <2>1. KeepsGoal(u, q, a) /\ KeepsAccount(u, q, a)
    BY <1>2, <1>8 DEF KeepsWhat
  <2>2. ASSUME a >= 3 PROVE goal'[q.user] = goal[q.user]
    <3>1. q.user \in Users
      BY <2>1, <2>2 DEF KeepsGoal, Plans
    <3>2. Has(u, "User", q.user, "update")
      BY <2>1, <2>2, <1>2 DEF KeepsAccount
    <3> QED BY <3>1, <3>2, <1>5
  <2> QED BY <2>1, <2>2 DEF KeepsGoal
<1>9. ASSUME q.table \in {"UserGoal", "LearningPlan"} PROVE KeepsAccount(u, q, a)'
  <2>1. KeepsAccount(u, q, a) /\ (q.table = "LearningPlan" => KeepsGoal(u, q, a))
    BY <1>2, <1>9 DEF KeepsWhat
  <2>2. a >= 8 => a >= 7 /\ a >= 3
    BY <1>2
  <2>3. a >= 8 => q.level \in Levels
    <3>1. q.table = "UserGoal" => q.level \in Levels
      BY <1>2, Shapes DEF Goals
    <3>2. q.table = "LearningPlan" /\ a >= 8 => q.level \in Levels
      BY <2>1, <2>2 DEF KeepsGoal, Plans
    <3> QED BY <1>9, <3>1, <3>2
  <2> QED BY <2>1, <2>2, <2>3, <1>3, <1>5 DEF KeepsAccount
<1>10. ASSUME q.table = "Result" PROVE KeepsResult(u, q, a)'
  <2>1. q.test \in Tests /\ KeepsResult(u, q, a)
    BY <1>2, <1>10, Shapes DEF Results, KeepsWhat
  <2>2. a >= 5 => testLevel'[q.test] = testLevel[q.test]
    BY <2>1, <1>5 DEF KeepsResult
  <2>3. PICK l : l = testLevel[q.test]
    OBVIOUS
  <2>4. l \in Levels
    BY <2>1, <2>3, <1>6
  <2>5. a >= 6 => Has(u, "Level", l, "share")
    BY <2>1, <2>3 DEF KeepsResult
  <2>6. a >= 5 => Has(u, "Test", q.test, "share")'
    BY <2>1, <1>3 DEF KeepsResult
  <2>7. a >= 6 => Has(u, "Level", testLevel[q.test], "share")'
    <3>1. a >= 6 => Has(u, "Level", l, "share")'
      BY <2>5, <1>3
    <3>2. a >= 6 => testLevel'[q.test] = l
      BY <2>2, <2>3, <1>2
    <3> QED BY <3>1, <3>2
  <2>8. a >= 7 => q.band \in range'[testLevel'[q.test]]
    <3>1. a >= 7 => q.band \in range[l] /\ a >= 6 /\ a >= 5
      BY <2>1, <2>3, <1>2 DEF KeepsResult
    <3>2. a >= 7 => range'[l] = range[l]
      BY <3>1, <2>4, <2>5, <1>5
    <3> QED BY <3>1, <3>2, <2>2, <2>3
  <2> QED BY <2>6, <2>7, <2>8 DEF KeepsResult
<1>11. ASSUME q.table = "Level" PROVE KeepsLevel(u, q, a)'
  <2>1. q.level \in Levels /\ KeepsLevel(u, q, a)
    BY <1>2, <1>11, Shapes DEF KeepsWhat
  <2>2. a >= 3 => a >= 2
    BY <1>2
  <2> QED BY <2>1, <2>2, <1>3, <1>5 DEF KeepsLevel
<1>12. ASSUME q.table = "Test" PROVE KeepsTest(u, q, a)'
  <2>1. q.level \in Levels /\ q.test \in Tests /\ KeepsTest(u, q, a)
    BY <1>2, <1>12, Shapes DEF KeepsWhat
  <2>2. (a >= 4 => a >= 3) /\ (a >= 3 => a >= 2)
    BY <1>2
  <2> QED BY <2>1, <2>2, <1>3, <1>5 DEF KeepsTest
<1> QED BY <1>7, <1>8, <1>9, <1>10, <1>11, <1>12 DEF KeepsWhat

LEMMA CommitFits ==
  ASSUME CurriculumInv, NEW t \in Transactions, Commit(t)
  PROVE  BandsFit'
<1>1. PICK s : s = txn[t].statement
  OBVIOUS
<1>2. /\ s \in AllStatements /\ KeepsWhat(t, s, 9)
      /\ rows' = rows \/ (rows' = rows \cup {s} /\ s.table \notin {"Level", "Test"})
      /\ range' = range \/ (s.table = "Level" /\ range' = [range EXCEPT ![s.level] = s.range])
      /\ testLevel' = testLevel \/ (s.table = "Test" /\ testLevel' = [testLevel EXCEPT ![s.test] = s.level])
  BY <1>1, CommitEffects
<1>3. range \in [Levels -> SUBSET Bands] /\ testLevel \in [Tests -> Levels]
  BY DEF CurriculumInv, CurriculumTypes
<1>4. SUFFICES ASSUME NEW r \in BandRows' PROVE r.band \in range'[LevelOf(r)']
  BY DEF BandsFit
<1>5. r \in rows' /\ r.table \in {"UserGoal", "LearningPlan", "PlacementAttempt", "Result"}
  BY DEF BandRows
<1>6. LevelOf(r)' = IF r.table = "Result" THEN testLevel'[r.test] ELSE r.level
  BY DEF LevelOf
<1>7. CASE r \notin rows
  <2>1. r = s /\ s.table \notin {"Level", "Test"}
    BY <1>2, <1>5, <1>7
  <2>2. range' = range /\ testLevel' = testLevel
    BY <2>1, <1>2
  <2>3. s.band \in range[LevelOf(s)]
    BY <2>1, <1>2, <1>5 DEF KeepsWhat, KeepsPlacement, KeepsAccount, KeepsResult, LevelOf
  <2> QED BY <2>1, <2>2, <2>3, <1>6 DEF LevelOf
<1>8. CASE r \in rows
  <2>1. r \in BandRows /\ r.band \in range[LevelOf(r)]
    BY <1>5, <1>8 DEF CurriculumInv, BandsFit, BandRows
  <2>2. LevelOf(r) \in Levels
    <3>1. r \in Children
      BY <1>8 DEF CurriculumInv, CurriculumTypes
    <3>2. r.table = "LearningPlan" => r \in Plans
      <4>1. r.table = "LearningPlan" =>
              r \notin Goals \cup Placements \cup Results \cup Stories \cup Words \cup ProgressRows
        BY DEF Goals, Placements, Results, Stories, Words, ProgressRows
      <4>2. r.table = "LearningPlan" => r \notin TopicEvents \cup ExerciseEvents
        BY DEF TopicEvents, ExerciseEvents
      <4> QED BY <3>1, <4>1, <4>2 DEF Children, Banded
    <3>3. r \in AllStatements
      BY <3>1 DEF AllStatements
    <3> QED BY <3>2, <3>3, <1>3, <1>5, Shapes DEF LevelOf, Goals, Plans, Placements, Results
  <2>3. CASE s.table = "Level"
    <3>1. testLevel' = testLevel /\ s.level \in Levels
      BY <2>3, <1>2, Shapes
    <3>2. LevelOf(r) = s.level => r.band \in s.range
      BY <2>1, <2>3, <1>2 DEF KeepsWhat, KeepsLevel
    <3>3. LevelOf(r)' = LevelOf(r)
      BY <3>1, <1>6 DEF LevelOf
    <3> QED BY <2>1, <2>2, <3>1, <3>2, <3>3, <1>2, <1>3
  <2>4. CASE s.table = "Test"
    <3>1. range' = range /\ s.test \in Tests
      BY <2>4, <1>2, Shapes
    <3>2. r.table = "Result" /\ r.test = s.test => r.band \in range[s.level]
      BY <2>4, <1>2, <1>8 DEF KeepsWhat, KeepsTest, Of
    <3>3. r.table = "Result" => r.test \in Tests
      <4>1. r \in AllStatements
        BY <1>8 DEF CurriculumInv, CurriculumTypes, AllStatements
      <4> QED BY <4>1, Shapes DEF Results
    <3> QED BY <2>1, <3>1, <3>2, <3>3, <1>2, <1>3, <1>6 DEF LevelOf
  <2>5. CASE s.table \notin {"Level", "Test"}
    BY <2>1, <2>5, <1>2, <1>6 DEF LevelOf
  <2> QED BY <2>3, <2>4, <2>5
<1> QED BY <1>7, <1>8

\* A step of t that writes nothing but its own record and its own locks.
LEMMA QuietSteps ==
  ASSUME CurriculumInv, NEW t \in Transactions,
         UNCHANGED <<parents, rows, goal, plan>>,
         txn' \in [Transactions -> TxnRecord], \A u \in Transactions \ {t} : txn'[u] = txn[u],
         Running(t)' => txn'[t].statement \in AllStatements /\ Keeps(t)',
         txn'[t].state # "idle",
         \A l \in locks : l.holder # t => l \in locks', \A l \in locks' : l.holder \in Transactions,
         Compatible'
  PROVE  CurriculumInv'
<1>1. /\ range' = range /\ testLevel' = testLevel /\ rows' = rows /\ goal' = goal /\ plan' = plan
  BY DEF parents
<1>2. CurriculumTypes'
  <2>1. \A u \in Transactions : Running(u)' => txn'[u].statement \in AllStatements
    BY DEF Running, CurriculumInv, CurriculumTypes
  <2>2. \A u \in Transactions : txn'[u].state = "idle" => txn'[u].at = 1
    BY DEF CurriculumInv, CurriculumTypes
  <2> QED BY <1>1, <2>1, <2>2 DEF CurriculumInv, CurriculumTypes
<1>3. BandRows' = BandRows /\ Of("Result")' = Of("Result") /\ \A r : LevelOf(r)' = LevelOf(r)
  BY <1>1 DEF BandRows, Of, LevelOf
<1>4. BandsFit'
  BY <1>1, <1>3 DEF CurriculumInv, BandsFit
<1>5. ASSUME NEW u \in Transactions, Running(u)' PROVE Keeps(u)'
  <2>1. CASE u = t
    BY <2>1, <1>5
  <2>2. CASE u # t
    <3>1. txn'[u] = txn[u] /\ Running(u) /\ Keeps(u)
      BY <2>2, <1>5 DEF CurriculumInv, Running
    <3>2. \A table, id, mode : Has(u, table, id, mode) => Has(u, table, id, mode)'
      <4>1. \A table, id, mode : [holder |-> u, row |-> <<table, id>>, mode |-> mode].holder = u
        OBVIOUS
      <4> QED BY <2>2, <4>1 DEF Has
    <3>3. PICK q, a : q = txn[u].statement /\ a = txn[u].at
      OBVIOUS
    <3>4. KeepsWhat(u, q, a)
      BY <3>1, <3>3 DEF Keeps
    <3>5. KeepsResult(u, q, a) => KeepsResult(u, q, a)'
      <4>1. PICK l : l = testLevel[q.test]
        OBVIOUS
      <4>2. testLevel'[q.test] = l
        BY <4>1, <1>1
      <4>3. KeepsResult(u, q, a) /\ a >= 6 => Has(u, "Level", l, "share")'
        BY <4>1, <3>2 DEF KeepsResult
      <4>4. KeepsResult(u, q, a) /\ a >= 6 => Has(u, "Level", testLevel[q.test], "share")'
        BY <4>2, <4>3
      <4> QED BY <4>4, <1>1, <3>2 DEF KeepsResult
    <3>6. /\ KeepsPlacement(u, q, a) => KeepsPlacement(u, q, a)'
          /\ KeepsAccount(u, q, a) => KeepsAccount(u, q, a)'
          /\ KeepsGoal(u, q, a) => KeepsGoal(u, q, a)'
      BY <1>1, <3>2 DEF KeepsPlacement, KeepsAccount, KeepsGoal
    <3>7. /\ KeepsLevel(u, q, a) => KeepsLevel(u, q, a)'
          /\ KeepsTest(u, q, a) => KeepsTest(u, q, a)'
      BY <1>1, <1>3, <3>2 DEF KeepsLevel, KeepsTest
    <3>8. KeepsWhat(u, q, a)'
      BY <3>4, <3>5, <3>6, <3>7 DEF KeepsWhat
    <3> QED BY <3>1, <3>3, <3>8 DEF Keeps
  <2> QED BY <2>1, <2>2
<1> QED BY <1>2, <1>4, <1>5 DEF CurriculumInv

\* A transaction that ends, refused or rolled back, lets go of its locks.
LEMMA Endings ==
  ASSUME CurriculumInv, NEW t \in Transactions, NEW state \in Outcomes \ {"idle", "running"}, Ends(t, state)
  PROVE  CurriculumInv'
<1>1. txn' = [txn EXCEPT ![t].state = state] /\ locks' = {l \in locks : l.holder # t}
  BY DEF Ends, Release
<1>2. txn \in [Transactions -> TxnRecord] /\ \A l \in locks : l.holder \in Transactions
  BY DEF CurriculumInv, CurriculumTypes
<1>3. txn'[t].state = state /\ \A u \in Transactions \ {t} : txn'[u] = txn[u]
  <2>1. txn[t] \in TxnRecord
    BY <1>2
  <2> QED BY <2>1, <1>1, <1>2 DEF TxnRecord
<1>4. txn' \in [Transactions -> TxnRecord]
  BY <1>1, <1>2 DEF TxnRecord
<1>5. Compatible'
  BY <1>1 DEF CurriculumInv, Compatible
<1>6. ~Running(t)'
  BY <1>3 DEF Running
<1>7. UNCHANGED <<parents, rows, goal, plan>>
  BY DEF Ends
<1> QED BY <1>1, <1>2, <1>3, <1>4, <1>5, <1>6, <1>7, QuietSteps

\* A check that has passed.
LEMMA Advancing ==
  ASSUME CurriculumInv, NEW t \in Transactions, Running(t), ~Finished(t),
         NEW seen \in Goals \cup PlanRows \cup {None}, NEW lessons \in SUBSET Lessons,
         Advances(t, seen, lessons), Step(t).do \notin {"lock", "goal"}, ChecksPass(t)
  PROVE  CurriculumInv'
<1>1. /\ txn' = [txn EXCEPT ![t].at = @ + 1, ![t].seen = seen, ![t].lessons = lessons]
      /\ UNCHANGED <<parents, rows, goal, plan>> /\ locks' = locks
  BY DEF Advances
<1>2. txn \in [Transactions -> TxnRecord] /\ \A l \in locks : l.holder \in Transactions
  BY DEF CurriculumInv, CurriculumTypes
<1>3. txn[t] \in TxnRecord
  BY <1>2
<1>4. /\ txn'[t].state = txn[t].state /\ txn'[t].statement = txn[t].statement /\ txn'[t].at = txn[t].at + 1
      /\ txn'[t] \in TxnRecord /\ \A u \in Transactions \ {t} : txn'[u] = txn[u]
  <2>1. PICK x, v : x = txn[t] /\ v = [x EXCEPT !.at = @ + 1, !.seen = seen, !.lessons = lessons]
    OBVIOUS
  <2>2. x \in TxnRecord
    BY <1>3, <2>1
  <2>3. v \in TxnRecord /\ v.state = x.state /\ v.statement = x.statement /\ v.at = x.at + 1
    <3>1. x.state \in Outcomes /\ x.statement \in AllStatements \cup {None}
      BY <2>2 DEF TxnRecord
    <3>2. PICK n : n = x.at
      OBVIOUS
    <3>3. n \in Nat \ {0}
      BY <2>2, <3>2 DEF TxnRecord
    <3>4. n + 1 \in Nat \ {0}
      BY <3>3
    <3>5. x = [state |-> x.state, statement |-> x.statement, at |-> x.at, seen |-> x.seen,
               lessons |-> x.lessons]
      BY <2>2 DEF TxnRecord
    <3>6. v = [state |-> x.state, statement |-> x.statement, at |-> n + 1, seen |-> seen,
               lessons |-> lessons]
      BY <2>1, <3>2, <3>5
    <3> QED BY <3>1, <3>2, <3>4, <3>6 DEF TxnRecord
  <2>4. txn' = [txn EXCEPT ![t] = v]
    BY <1>1, <2>1
  <2> QED BY <1>2, <2>1, <2>3, <2>4
<1>5. txn' \in [Transactions -> TxnRecord]
  BY <1>1, <1>2, <1>4
<1>6. Moves(t)
  BY <1>1, <1>4, Zenon DEF Moves, Running, parents
<1>7. Keeps(t)'
  BY <1>6, MovesKeep
<1>8. txn'[t].statement \in AllStatements /\ txn'[t].state # "idle"
  BY <1>4 DEF CurriculumInv, CurriculumTypes, Running
<1>9. Compatible'
  BY <1>1 DEF CurriculumInv, Compatible
<1> QED BY <1>1, <1>2, <1>4, <1>5, <1>7, <1>8, <1>9, QuietSteps

\* The steps that are not a trigger's: those of OnboardingService.
ServiceSteps == {"goal", "same goal", "same plan", "one goal", "one plan"}

LEMMA TriggerChecks ==
  /\ \A table, id, mode : Lock(table, id, mode).do \notin ServiceSteps
  /\ Check("band").do \notin ServiceSteps /\ Check("final attempt").do \notin ServiceSteps
  /\ Check("story level").do \notin ServiceSteps /\ Check("word lesson").do \notin ServiceSteps
  /\ Check("progress lesson").do \notin ServiceSteps /\ Check("event topic").do \notin ServiceSteps
  /\ Check("event exercise").do \notin ServiceSteps /\ Check("band children").do \notin ServiceSteps
  /\ Check("test results").do \notin ServiceSteps /\ Check("attempt results").do \notin ServiceSteps
  /\ Check("lesson stories").do \notin ServiceSteps /\ Check("topic events").do \notin ServiceSteps
  /\ Check("topic children").do \notin ServiceSteps /\ Check("exercise events").do \notin ServiceSteps
  /\ Check("exercise topic").do \notin ServiceSteps /\ Check("exercise progress").do \notin ServiceSteps
<1>1. \A table, id, mode : Lock(table, id, mode).do \notin ServiceSteps
  <2>1. "lock" \notin ServiceSteps
    BY Zenon DEF ServiceSteps
  <2> QED BY <2>1, Instructions
<1>2. /\ "band" \notin ServiceSteps /\ "final attempt" \notin ServiceSteps
      /\ "story level" \notin ServiceSteps /\ "word lesson" \notin ServiceSteps
      /\ "progress lesson" \notin ServiceSteps /\ "event topic" \notin ServiceSteps
      /\ "event exercise" \notin ServiceSteps /\ "band children" \notin ServiceSteps
      /\ "test results" \notin ServiceSteps /\ "attempt results" \notin ServiceSteps
      /\ "lesson stories" \notin ServiceSteps /\ "topic events" \notin ServiceSteps
      /\ "topic children" \notin ServiceSteps /\ "exercise events" \notin ServiceSteps
      /\ "exercise topic" \notin ServiceSteps /\ "exercise progress" \notin ServiceSteps
  BY Zenon DEF ServiceSteps
<1> QED BY <1>1, <1>2, Instructions, Zenon

\* A program none of whose steps is in a set.
LEMMA ProgramOfTwo ==
  ASSUME NEW p, NEW own, NEW u, NEW v, p = <<u, v>>,
         u.do \notin own, v.do \notin own
  PROVE  \A i \in Nat \ {0} : ~(i > Len(p)) => p[i].do \notin own
<1>1. SUFFICES ASSUME NEW i \in Nat \ {0}, ~(i > Len(p)) PROVE p[i].do \notin own
  OBVIOUS
<1>2. i \in {1, 2}
  BY <1>1
<1> QED BY <1>2

LEMMA ProgramOfThree ==
  ASSUME NEW p, NEW own, NEW u, NEW v, NEW w, p = <<u, v, w>>,
         u.do \notin own, v.do \notin own, w.do \notin own
  PROVE  \A i \in Nat \ {0} : ~(i > Len(p)) => p[i].do \notin own
<1>1. SUFFICES ASSUME NEW i \in Nat \ {0}, ~(i > Len(p)) PROVE p[i].do \notin own
  OBVIOUS
<1>2. i \in {1, 2, 3}
  BY <1>1
<1> QED BY <1>2

LEMMA ProgramOfFour ==
  ASSUME NEW p, NEW own, NEW u, NEW v, NEW w, NEW x, p = <<u, v, w, x>>,
         u.do \notin own, v.do \notin own, w.do \notin own, x.do \notin own
  PROVE  \A i \in Nat \ {0} : ~(i > Len(p)) => p[i].do \notin own
<1>1. SUFFICES ASSUME NEW i \in Nat \ {0}, ~(i > Len(p)) PROVE p[i].do \notin own
  OBVIOUS
<1>2. i \in {1, 2, 3, 4}
  BY <1>1
<1> QED BY <1>2

LEMMA ProgramOfSix ==
  ASSUME NEW p, NEW own, NEW u, NEW v, NEW w, NEW x, NEW y, NEW z, p = <<u, v, w, x, y, z>>,
         u.do \notin own, v.do \notin own, w.do \notin own, x.do \notin own, y.do \notin own, z.do \notin own
  PROVE  \A i \in Nat \ {0} : ~(i > Len(p)) => p[i].do \notin own
<1>1. SUFFICES ASSUME NEW i \in Nat \ {0}, ~(i > Len(p)) PROVE p[i].do \notin own
  OBVIOUS
<1>2. i \in {1, 2, 3, 4, 5, 6}
  BY <1>1
<1> QED BY <1>2

LEMMA OnlyOnboarding ==
  ASSUME NEW s \in AllStatements, s.table \notin {"UserGoal", "LearningPlan"},
         NEW i \in Nat \ {0}, NEW p, p = Program(s), ~(i > Len(p))
  PROVE  p[i].do \notin ServiceSteps
<1>1. s.table \in {"PlacementAttempt", "Result", "Story", "LessonWord", "Progress", "TopicEvent",
                   "ExerciseEvent", "Level", "Test", "ExamAttempt", "Lesson", "Topic", "LessonExercise"}
  <2>1. /\ s \in Goals => s.table = "UserGoal"
        /\ s \in Plans \cup PlanRequests => s.table = "LearningPlan"
        /\ s \in Placements => s.table = "PlacementAttempt"
        /\ s \in Results => s.table = "Result"
    BY DEF Goals, Plans, PlanRequests, Placements, Results
  <2>2. /\ s \in Stories => s.table = "Story"
        /\ s \in Words => s.table = "LessonWord"
        /\ s \in ProgressRows => s.table = "Progress"
        /\ s \in TopicEvents => s.table = "TopicEvent"
        /\ s \in ExerciseEvents => s.table = "ExerciseEvent"
    BY DEF Stories, Words, ProgressRows, TopicEvents, ExerciseEvents
  <2>3. s \in Changes => s.table \in {"Level", "Test", "ExamAttempt", "Lesson", "Topic", "LessonExercise"}
    BY DEF Changes
  <2> QED BY <2>1, <2>2, <2>3 DEF AllStatements, Children, Banded
<1>2. PICK own : own = ServiceSteps
  OBVIOUS
<1>3. CASE s.table = "PlacementAttempt"
  <2>1. PICK u, v :
          /\ u = Lock("Level", s.level, "share")
          /\ v = Check("band")
    OBVIOUS
  <2>2. p = <<u, v>>
    BY <1>3, <2>1, Zenon DEF Program, BandProgram
  <2>3. u.do \notin own /\ v.do \notin own
    BY <2>1, <1>2, TriggerChecks, Zenon
  <2> QED BY <2>2, <2>3, <1>2, ProgramOfTwo
<1>4. CASE s.table = "Result"
  <2>1. PICK u, v, w, x, y, z :
          /\ u = Lock("Test", s.test, "key share")
          /\ v = Lock("ExamAttempt", s.attempt, "key share")
          /\ w = Check("final attempt")
          /\ x = Lock("Test", s.test, "share")
          /\ y = Lock("Level", testLevel[s.test], "share")
          /\ z = Check("band")
    OBVIOUS
  <2>2. p = <<u, v, w, x, y, z>>
    BY <1>4, <2>1, Zenon DEF Program, ResultProgram
  <2>3. u.do \notin own /\ v.do \notin own /\ w.do \notin own /\ x.do \notin own /\ y.do \notin own /\ z.do \notin own
    BY <2>1, <1>2, TriggerChecks, Zenon
  <2> QED BY <2>2, <2>3, <1>2, ProgramOfSix
<1>5. CASE s.table = "Story"
  <2>1. PICK u, v :
          /\ u = Lock("Lesson", s.lesson, "key share")
          /\ v = Check("story level")
    OBVIOUS
  <2>2. p = <<u, v>>
    BY <1>5, <2>1, Zenon DEF Program, StoryProgram
  <2>3. u.do \notin own /\ v.do \notin own
    BY <2>1, <1>2, TriggerChecks, Zenon
  <2> QED BY <2>2, <2>3, <1>2, ProgramOfTwo
<1>6. CASE s.table = "LessonWord"
  <2>1. PICK u, v :
          /\ u = Check("word lesson")
          /\ v = Lock("Topic", s.topic, "key share")
    OBVIOUS
  <2>2. p = <<u, v>>
    BY <1>6, <2>1, Zenon DEF Program, WordProgram
  <2>3. u.do \notin own /\ v.do \notin own
    BY <2>1, <1>2, TriggerChecks, Zenon
  <2> QED BY <2>2, <2>3, <1>2, ProgramOfTwo
<1>7. CASE s.table = "Progress"
  <2>1. PICK u, v, w :
          /\ u = Check("progress lesson")
          /\ v = Lock("Topic", s.topic, "key share")
          /\ w = Lock("LessonExercise", s.exercise, "key share")
    OBVIOUS
  <2>2. p = <<u, v, w>>
    BY <1>7, <2>1, Zenon DEF Program, ProgressProgram
  <2>3. u.do \notin own /\ v.do \notin own /\ w.do \notin own
    BY <2>1, <1>2, TriggerChecks, Zenon
  <2> QED BY <2>2, <2>3, <1>2, ProgramOfThree
<1>8. CASE s.table = "TopicEvent"
  <2>1. PICK u, v :
          /\ u = Lock("Topic", s.topic, "key share")
          /\ v = Check("event topic")
    OBVIOUS
  <2>2. p = <<u, v>>
    BY <1>8, <2>1, Zenon DEF Program, TopicEventProgram
  <2>3. u.do \notin own /\ v.do \notin own
    BY <2>1, <1>2, TriggerChecks, Zenon
  <2> QED BY <2>2, <2>3, <1>2, ProgramOfTwo
<1>9. CASE s.table = "ExerciseEvent"
  <2>1. PICK u, v, w, x :
          /\ u = Lock("LessonExercise", s.exercise, "key share")
          /\ v = Check("event exercise")
          /\ w = Lock("Topic", s.topic, "key share")
          /\ x = Check("event topic")
    OBVIOUS
  <2>2. p = IF s.topic = None THEN <<u, v>> ELSE <<u, v, w, x>>
    BY <1>9, <2>1, Zenon DEF Program, ExerciseEventProgram
  <2>3. u.do \notin own /\ v.do \notin own /\ w.do \notin own /\ x.do \notin own
    BY <2>1, <1>2, TriggerChecks, Zenon
  <2>4. CASE s.topic = None
    <3>1. p = <<u, v>>
      BY <2>2, <2>4
    <3> QED BY <3>1, <2>3, <1>2, ProgramOfTwo
  <2>5. CASE s.topic # None
    <3>1. p = <<u, v, w, x>>
      BY <2>2, <2>5
    <3> QED BY <3>1, <2>3, <1>2, ProgramOfFour
  <2> QED BY <2>4, <2>5
<1>10. CASE s.table = "Level"
  <2>1. PICK u, v :
          /\ u = Lock("Level", s.level, "no key update")
          /\ v = Check("band children")
    OBVIOUS
  <2>2. p = <<u, v>>
    BY <1>10, <2>1, Zenon DEF Program, LevelProgram
  <2>3. u.do \notin own /\ v.do \notin own
    BY <2>1, <1>2, TriggerChecks, Zenon
  <2> QED BY <2>2, <2>3, <1>2, ProgramOfTwo
<1>11. CASE s.table = "Test"
  <2>1. PICK u, v, w :
          /\ u = Lock("Test", s.test, "no key update")
          /\ v = Lock("Level", s.level, "share")
          /\ w = Check("test results")
    OBVIOUS
  <2>2. p = <<u, v, w>>
    BY <1>11, <2>1, Zenon DEF Program, TestProgram
  <2>3. u.do \notin own /\ v.do \notin own /\ w.do \notin own
    BY <2>1, <1>2, TriggerChecks, Zenon
  <2> QED BY <2>2, <2>3, <1>2, ProgramOfThree
<1>12. CASE s.table = "ExamAttempt"
  <2>1. PICK u, v :
          /\ u = Lock("ExamAttempt", s.attempt, "no key update")
          /\ v = Check("attempt results")
    OBVIOUS
  <2>2. p = <<u, v>>
    BY <1>12, <2>1, Zenon DEF Program, AttemptProgram
  <2>3. u.do \notin own /\ v.do \notin own
    BY <2>1, <1>2, TriggerChecks, Zenon
  <2> QED BY <2>2, <2>3, <1>2, ProgramOfTwo
<1>13. CASE s.table = "Lesson"
  <2>1. PICK u, v :
          /\ u = Lock("Lesson", s.lesson, "update")
          /\ v = Check("lesson stories")
    OBVIOUS
  <2>2. p = <<u, v>>
    BY <1>13, <2>1, Zenon DEF Program, LessonProgram
  <2>3. u.do \notin own /\ v.do \notin own
    BY <2>1, <1>2, TriggerChecks, Zenon
  <2> QED BY <2>2, <2>3, <1>2, ProgramOfTwo
<1>14. CASE s.table = "Topic"
  <2>1. PICK u, v, w :
          /\ u = Lock("Topic", s.topic, "update")
          /\ v = Check("topic events")
          /\ w = Check("topic children")
    OBVIOUS
  <2>2. p = <<u, v, w>>
    BY <1>14, <2>1, Zenon DEF Program, TopicProgram
  <2>3. u.do \notin own /\ v.do \notin own /\ w.do \notin own
    BY <2>1, <1>2, TriggerChecks, Zenon
  <2> QED BY <2>2, <2>3, <1>2, ProgramOfThree
<1>15. CASE s.table = "LessonExercise"
  <2>1. PICK u, v, w, x, y, z :
          /\ u = Lock("LessonExercise", s.exercise, "no key update")
          /\ v = Check("exercise events")
          /\ w = Lock("Lesson", s.place.lesson, "key share")
          /\ x = Lock("Topic", s.place.topic, "key share")
          /\ y = Check("exercise topic")
          /\ z = Check("exercise progress")
    OBVIOUS
  <2>2. p = <<u, v, w, x, y, z>>
    BY <1>15, <2>1, Zenon DEF Program, ExerciseProgram
  <2>3. u.do \notin own /\ v.do \notin own /\ w.do \notin own /\ x.do \notin own /\ y.do \notin own /\ z.do \notin own
    BY <2>1, <1>2, TriggerChecks, Zenon
  <2> QED BY <2>2, <2>3, <1>2, ProgramOfSix
<1> QED BY <1>1, <1>3, <1>4, <1>5, <1>6, <1>7, <1>8, <1>9, <1>10, <1>11, <1>12, <1>13, <1>14, <1>15

\* A step of OnboardingService is made for an account.
LEMMA AccountOf ==
  ASSUME CurriculumInv, NEW t \in Transactions, Running(t), ~Finished(t), Step(t).do \in ServiceSteps
  PROVE  /\ txn[t].statement.table \in {"UserGoal", "LearningPlan"} /\ User(t) \in Users
         /\ Step(t).do = "goal" => txn[t].statement.table = "LearningPlan" /\ txn[t].at = 2
<1>1. PICK s, i, p : s = txn[t].statement /\ i = txn[t].at /\ p = Program(s)
  OBVIOUS
<1>2. txn[t] \in TxnRecord /\ s \in AllStatements
  BY <1>1 DEF CurriculumInv, CurriculumTypes
<1>3. i \in Nat \ {0}
  BY <1>1, <1>2 DEF TxnRecord
<1>4. ~(i > Len(p)) /\ Step(t) = p[i]
  BY <1>1 DEF Finished, Current, Step
<1>5. s.table \in {"UserGoal", "LearningPlan"}
  BY <1>1, <1>2, <1>3, <1>4, OnlyOnboarding
<1>6. s.user \in Users
  BY <1>2, <1>5, Shapes DEF Goals, Plans, PlanRequests
<1>7. CASE s.table = "UserGoal"
  <2>1. /\ Len(p) = 7 /\ p[1] = Lock("User", s.user, "update") /\ p[2] = Check("offer")
        /\ p[3] = Check("same goal") /\ p[4] = Lock("UserGoal_userId_active", s.user, "update")
        /\ p[5] = Check("one goal") /\ p[6] = Lock("Level", s.level, "share") /\ p[7] = Check("band")
    BY <1>1, <1>7, GoalSteps
  <2>2. /\ p[1].do = "lock" /\ p[2].do = "offer" /\ p[3].do = "same goal" /\ p[4].do = "lock"
        /\ p[5].do = "one goal" /\ p[6].do = "lock" /\ p[7].do = "band"
    <3>1. p[1].do = "lock"
      <4>1. p[1] = Lock("User", s.user, "update")
        BY <2>1, Zenon
      <4> QED BY <4>1, Instructions
    <3>2. p[2].do = "offer"
      BY <2>1, Instructions, Zenon
    <3>3. p[3].do = "same goal"
      BY <2>1, Instructions, Zenon
    <3>4. p[4].do = "lock"
      <4>1. p[4] = Lock("UserGoal_userId_active", s.user, "update")
        BY <2>1, Zenon
      <4> QED BY <4>1, Instructions
    <3>5. p[5].do = "one goal"
      BY <2>1, Instructions, Zenon
    <3>6. p[6].do = "lock"
      <4>1. p[6] = Lock("Level", s.level, "share")
        BY <2>1, Zenon
      <4> QED BY <4>1, Instructions
    <3>7. p[7].do = "band"
      BY <2>1, Instructions, Zenon
    <3> QED BY <3>1, <3>2, <3>3, <3>4, <3>5, <3>6, <3>7, Zenon
  <2>3. /\ p[1].do # "goal" /\ p[2].do # "goal" /\ p[3].do # "goal" /\ p[4].do # "goal"
        /\ p[5].do # "goal" /\ p[6].do # "goal" /\ p[7].do # "goal"
    BY <2>2, Zenon
  <2>4. Len(p) = 7
    BY <2>1, Zenon
  <2>5. i \in 1 .. 7
    BY <2>4, <1>3, <1>4
  <2>6. p[i].do # "goal"
    BY <2>3, <2>5
  <2> QED BY <1>1, <1>4, <1>5, <1>6, <2>6 DEF User
<1>8. CASE s.table = "LearningPlan"
  <2>1. /\ Len(p) = 7 /\ p[1] = Lock("User", s.user, "update") /\ p[2] = Check("goal")
        /\ p[3] = Check("same plan") /\ p[4] = Lock("LearningPlan_userId_active", s.user, "update")
        /\ p[5] = Check("one plan") /\ p[6] = Lock("Level", s.level, "share") /\ p[7] = Check("band")
    BY <1>1, <1>8, PlanSteps
  <2>2. /\ p[1].do = "lock" /\ p[3].do = "same plan" /\ p[4].do = "lock"
        /\ p[5].do = "one plan" /\ p[6].do = "lock" /\ p[7].do = "band"
    <3>1. p[1].do = "lock"
      <4>1. p[1] = Lock("User", s.user, "update")
        BY <2>1, Zenon
      <4> QED BY <4>1, Instructions
    <3>2. p[3].do = "same plan"
      BY <2>1, Instructions, Zenon
    <3>3. p[4].do = "lock"
      <4>1. p[4] = Lock("LearningPlan_userId_active", s.user, "update")
        BY <2>1, Zenon
      <4> QED BY <4>1, Instructions
    <3>4. p[5].do = "one plan"
      BY <2>1, Instructions, Zenon
    <3>5. p[6].do = "lock"
      <4>1. p[6] = Lock("Level", s.level, "share")
        BY <2>1, Zenon
      <4> QED BY <4>1, Instructions
    <3>6. p[7].do = "band"
      BY <2>1, Instructions, Zenon
    <3> QED BY <3>1, <3>2, <3>3, <3>4, <3>5, <3>6, Zenon
  <2>3. /\ p[1].do # "goal" /\ p[3].do # "goal" /\ p[4].do # "goal"
        /\ p[5].do # "goal" /\ p[6].do # "goal" /\ p[7].do # "goal"
    BY <2>2, Zenon
  <2>4. Len(p) = 7
    BY <2>1, Zenon
  <2>5. i \in 1 .. 7
    BY <2>4, <1>3, <1>4
  <2>6. p[i].do = "goal" => i = 2
    BY <2>3, <2>5
  <2> QED BY <1>1, <1>4, <1>5, <1>6, <1>8, <2>6 DEF User
<1> QED BY <1>5, <1>7, <1>8

LEMMA CheckKeeps ==
  ASSUME CurriculumInv, NEW t \in Transactions, CheckIntegrity(t)
  PROVE  CurriculumInv'
<1>1. Running(t) /\ ~Finished(t) /\ Step(t).do \notin {"lock", "goal"}
  BY Zenon DEF CheckIntegrity
<1>2. txn[t] \in TxnRecord
  BY DEF CurriculumInv, CurriculumTypes
<1>3. txn[t].seen \in Goals \cup PlanRows \cup {None} /\ txn[t].lessons \in SUBSET Lessons
  BY <1>2 DEF TxnRecord
<1>4. CASE Passes(txn[t].statement, Step(t).do)
  <2>1. Advances(t, txn[t].seen, txn[t].lessons)
    BY <1>4, Zenon DEF CheckIntegrity
  <2>2. ChecksPass(t)
    BY <1>4, Zenon DEF ChecksPass
  <2> QED BY <1>1, <1>3, <2>1, <2>2, Advancing
<1>5. CASE ~Passes(txn[t].statement, Step(t).do)
  <2>1. Ends(t, "refused")
    BY <1>5, Zenon DEF CheckIntegrity
  <2> QED BY <2>1, Endings DEF Outcomes
<1> QED BY <1>4, <1>5

LEMMA CompareKeeps ==
  ASSUME CurriculumInv, NEW t \in Transactions,
         CompareGoal(t) \/ ComparePlan(t) \/ CheckUnique(t)
  PROVE  CurriculumInv'
<1>1. Running(t) /\ ~Finished(t) /\ Step(t).do \in ServiceSteps \ {"goal"}
  <2>1. AtCheck(t, "same goal") \/ AtCheck(t, "same plan") \/ AtCheck(t, "one goal") \/ AtCheck(t, "one plan")
    BY Zenon DEF CompareGoal, ComparePlan, CheckUnique
  <2>2. /\ "same goal" \in ServiceSteps \ {"goal"} /\ "same plan" \in ServiceSteps \ {"goal"}
        /\ "one goal" \in ServiceSteps \ {"goal"} /\ "one plan" \in ServiceSteps \ {"goal"}
    BY Zenon DEF ServiceSteps
  <2> QED BY <2>1, <2>2, Zenon DEF AtCheck
<1>2. User(t) \in Users
  BY <1>1, AccountOf
<1>3. Step(t).do \notin {"lock", "goal"} /\ ChecksPass(t)
  <2>1. "lock" \notin ServiceSteps /\ "band" \notin ServiceSteps /\ "band children" \notin ServiceSteps
        /\ "test results" \notin ServiceSteps
    BY Zenon DEF ServiceSteps
  <2> QED BY <1>1, <2>1, Zenon DEF ChecksPass
<1>4. txn[t] \in TxnRecord /\ goal[User(t)] \in Goals \cup {None} /\ plan[User(t)] \in PlanRows \cup {None}
  BY <1>2 DEF CurriculumInv, CurriculumTypes
<1>5. txn[t].seen \in Goals \cup PlanRows \cup {None} /\ txn[t].lessons \in SUBSET Lessons
  BY <1>4 DEF TxnRecord
<1>6. \/ Ends(t, "done") \/ Ends(t, "refused") \/ Ends(t, "conflict")
      \/ Advances(t, goal[User(t)], {})
      \/ Advances(t, plan[User(t)], ReadyLessons(txn[t].statement.level))
      \/ Advances(t, txn[t].seen, txn[t].lessons)
  BY Zenon DEF CompareGoal, ComparePlan, CheckUnique
<1>7. ReadyLessons(txn[t].statement.level) \in SUBSET Lessons /\ {} \in SUBSET Lessons
  BY DEF ReadyLessons
<1>8. /\ goal[User(t)] \in Goals \cup PlanRows \cup {None}
      /\ plan[User(t)] \in Goals \cup PlanRows \cup {None}
  BY <1>4
<1> HIDE DEF PlanRows
<1> QED BY <1>1, <1>3, <1>5, <1>6, <1>7, <1>8, Advancing, Endings DEF Outcomes

LEMMA BeginKeeps ==
  ASSUME CurriculumInv, NEW t \in Transactions, Begin(t)
  PROVE  CurriculumInv'
<1>1. PICK s \in Statements : txn' = [txn EXCEPT ![t].state = "running", ![t].statement = s]
  BY DEF Begin
<1>2. txn \in [Transactions -> TxnRecord] /\ txn[t].at = 1 /\ locks' = locks
      /\ \A l \in locks : l.holder \in Transactions
  BY DEF Begin, CurriculumInv, CurriculumTypes
<1>3. s \in AllStatements
  BY StatementsAssumption DEF AllStatements
<1>4. PICK x, v : x = txn[t] /\ v = [x EXCEPT !.state = "running", !.statement = s]
  OBVIOUS
<1>5. x \in TxnRecord
  BY <1>2, <1>4
<1>6. v \in TxnRecord /\ v.state = "running" /\ v.statement = s /\ v.at = x.at
  <2>1. x = [state |-> x.state, statement |-> x.statement, at |-> x.at, seen |-> x.seen, lessons |-> x.lessons]
    BY <1>5 DEF TxnRecord
  <2>2. v = [state |-> "running", statement |-> s, at |-> x.at, seen |-> x.seen, lessons |-> x.lessons]
    BY <1>4, <2>1
  <2>3. x.at \in Nat \ {0} /\ x.seen \in Goals \cup PlanRows \cup {None} /\ x.lessons \in SUBSET Lessons
    BY <1>5 DEF TxnRecord
  <2> QED BY <1>3, <2>2, <2>3 DEF TxnRecord, Outcomes
<1>7. txn' = [txn EXCEPT ![t] = v]
  BY <1>1, <1>4
<1>8. txn' \in [Transactions -> TxnRecord] /\ txn'[t] = v /\ \A u \in Transactions \ {t} : txn'[u] = txn[u]
  BY <1>2, <1>6, <1>7
<1>9. Keeps(t)'
  <2>1. txn'[t].statement = s /\ txn'[t].at = 1
    BY <1>2, <1>4, <1>6, <1>8
  <2>2. KeepsWhat(t, s, 1)'
    BY DEF KeepsWhat, KeepsPlacement, KeepsAccount, KeepsGoal, KeepsResult, KeepsLevel, KeepsTest
  <2> QED BY <2>1, <2>2 DEF Keeps
<1>10. Compatible'
  BY <1>2 DEF CurriculumInv, Compatible
<1>11. UNCHANGED <<parents, rows, goal, plan>>
  BY DEF Begin
<1> QED BY <1>2, <1>3, <1>6, <1>8, <1>9, <1>10, <1>11, QuietSteps

\* A lock is granted when no other transaction holds a conflicting one.
LEMMA AcquireKeeps ==
  ASSUME CurriculumInv, NEW t \in Transactions, Acquire(t)
  PROVE  CurriculumInv'
<1>1. PICK k : k = [holder |-> t, row |-> Step(t).row, mode |-> Step(t).mode]
  OBVIOUS
<1>2. /\ Running(t) /\ ~Finished(t) /\ Step(t).do = "lock"
      /\ locks' = locks \cup {k}
      /\ txn' = [txn EXCEPT ![t].at = @ + 1]
      /\ UNCHANGED <<parents, rows, goal, plan>>
  BY <1>1 DEF Acquire, AtLock, AtCheck
<1>3. txn \in [Transactions -> TxnRecord] /\ \A l \in locks : l.holder \in Transactions
  BY DEF CurriculumInv, CurriculumTypes
<1>4. PICK x, v : x = txn[t] /\ v = [x EXCEPT !.at = @ + 1]
  OBVIOUS
<1>5. x \in TxnRecord
  BY <1>3, <1>4
<1>6. v \in TxnRecord /\ v.state = x.state /\ v.statement = x.statement /\ v.at = x.at + 1
  BY <1>4, <1>5 DEF TxnRecord
<1>7. txn' = [txn EXCEPT ![t] = v]
  BY <1>2, <1>4
<1>8. txn' \in [Transactions -> TxnRecord] /\ txn'[t] = v /\ \A u \in Transactions \ {t} : txn'[u] = txn[u]
  BY <1>3, <1>6, <1>7
<1>9. Moves(t)
  <2>1. ChecksPass(t)
    <3>1. "lock" \notin {"band", "band children", "test results"}
      BY Zenon
    <3> QED BY <1>2, <3>1, Zenon DEF ChecksPass
  <2>2. UNCHANGED <<range, testLevel, rows, goal, plan>>
    BY <1>2 DEF parents
  <2>3. /\ txn'[t].state = "running" /\ txn'[t].statement = txn[t].statement
        /\ txn'[t].at = txn[t].at + 1
    BY <1>2, <1>4, <1>6, <1>8 DEF Running
  <2> QED BY <1>1, <1>2, <2>1, <2>2, <2>3 DEF Moves
<1>10. Keeps(t)'
  BY <1>9, MovesKeep
<1>11. Compatible'
  <2>1. \A l \in locks : l.row = k.row /\ l.holder # t => ~Conflicts(l.mode, k.mode)
    <3>1. \A u \in Transactions : ~Blocks(u, t)
      BY DEF Acquire
    <3>2. k.row = Step(t).row /\ k.mode = Step(t).mode
      BY <1>1
    <3> QED BY <1>3, <3>1, <3>2 DEF Blocks
  <2>2. \A m, n : Conflicts(m, n) <=> Conflicts(n, m)
    <3>1. \A m, n : {m, n} = {n, m}
      OBVIOUS
    <3> QED BY <3>1, Zenon DEF Conflicts
  <2>3. k.holder = t
    BY <1>1
  <2> QED BY <1>2, <2>1, <2>2, <2>3 DEF CurriculumInv, Compatible
<1>12. txn'[t].statement \in AllStatements /\ txn'[t].state # "idle"
  BY <1>2, <1>4, <1>6, <1>8 DEF CurriculumInv, CurriculumTypes, Running
<1>13. \A l \in locks' : l.holder \in Transactions
  BY <1>1, <1>2, <1>3
<1> QED BY <1>2, <1>8, <1>10, <1>11, <1>12, <1>13, QuietSteps

\* The account is locked before the goal is read, so the goal stays until the plan commits.
LEMMA ReadGoalKeeps ==
  ASSUME CurriculumInv, NEW t \in Transactions, ReadGoal(t)
  PROVE  CurriculumInv'
<1>1. Running(t) /\ ~Finished(t) /\ Step(t).do = "goal"
  BY DEF ReadGoal, AtCheck
<1>2. /\ txn[t].statement.table = "LearningPlan" /\ txn[t].at = 2 /\ User(t) \in Users
  <2>1. "goal" \in ServiceSteps
    BY Zenon DEF ServiceSteps
  <2> QED BY <1>1, <2>1, AccountOf
<1>3. CASE goal[User(t)] = None
  <2>1. Ends(t, "refused")
    BY <1>3 DEF ReadGoal
  <2> QED BY <2>1, Endings DEF Outcomes
<1>4. CASE goal[User(t)] # None
  <2>1. PICK s, g : s = txn[t].statement /\ g = goal[User(t)]
    OBVIOUS
  <2>2. /\ txn' = [txn EXCEPT ![t].at = @ + 1, ![t].statement.level = g.level, ![t].statement.band = g.band]
        /\ UNCHANGED <<parents, rows, goal, plan>> /\ locks' = locks
    BY <1>4, <2>1 DEF ReadGoal
  <2>3. txn \in [Transactions -> TxnRecord] /\ (\A l \in locks : l.holder \in Transactions) /\ g \in Goals
    BY <1>2, <1>4, <2>1 DEF CurriculumInv, CurriculumTypes
  <2>4. s \in Plans \cup PlanRequests
    BY <1>1, <1>2, <2>1, Shapes DEF CurriculumInv, CurriculumTypes
  <2>5. PICK q : q = [s EXCEPT !.level = g.level, !.band = g.band]
    OBVIOUS
  <2>6. q \in Plans /\ q.user = s.user /\ q.level = g.level /\ q.band = g.band /\ q.table = "LearningPlan"
    <3>1. s.table = "LearningPlan" /\ s.user \in Users
          /\ s = [table |-> s.table, user |-> s.user, level |-> s.level, band |-> s.band]
      BY <2>4 DEF Plans, PlanRequests
    <3>2. q = [table |-> "LearningPlan", user |-> s.user, level |-> g.level, band |-> g.band]
      BY <2>5, <3>1
    <3>3. g.level \in Levels /\ g.band \in Bands
      BY <2>3 DEF Goals
    <3> QED BY <3>1, <3>2, <3>3 DEF Plans
  <2>7. PICK x, v : x = txn[t] /\ v = [x EXCEPT !.at = 3, !.statement = q]
    OBVIOUS
  <2>8. x \in TxnRecord /\ x.at = 2 /\ x.statement = s /\ x.state = "running"
    BY <1>1, <1>2, <2>1, <2>3, <2>7 DEF Running
  <2>9. q \in AllStatements
    BY <2>6 DEF AllStatements, Children, Banded
  <2>10. v \in TxnRecord /\ v.state = "running" /\ v.statement = q /\ v.at = 3
    <3>1. x = [state |-> x.state, statement |-> x.statement, at |-> x.at, seen |-> x.seen, lessons |-> x.lessons]
      BY <2>8 DEF TxnRecord
    <3>2. v = [state |-> "running", statement |-> q, at |-> 3, seen |-> x.seen, lessons |-> x.lessons]
      BY <2>7, <2>8, <3>1
    <3>3. x.seen \in Goals \cup PlanRows \cup {None} /\ x.lessons \in SUBSET Lessons
      BY <2>8 DEF TxnRecord
    <3> QED BY <2>9, <3>2, <3>3 DEF TxnRecord, Outcomes
  <2>11. txn' = [txn EXCEPT ![t] = v]
    <3>1. PICK w : w = [x EXCEPT !.at = @ + 1, !.statement = q]
      OBVIOUS
    <3>2. txn' = [txn EXCEPT ![t] = w]
      BY <2>1, <2>2, <2>5, <2>7, <3>1
    <3>3. w = v
      BY <2>7, <2>8, <3>1
    <3> QED BY <3>2, <3>3
  <2>12. txn' \in [Transactions -> TxnRecord] /\ txn'[t] = v /\ \A u \in Transactions \ {t} : txn'[u] = txn[u]
    BY <2>3, <2>10, <2>11
  <2>13. Keeps(t)'
    <3>1. goal' = goal /\ User(t) = s.user
      BY <2>1, <2>2 DEF User
    <3>2. Has(t, "User", s.user, "update")
      <4>1. KeepsWhat(t, s, 2)
        BY <1>1, <1>2, <2>1 DEF CurriculumInv, Keeps
      <4> QED BY <4>1, <1>2, <2>1 DEF KeepsWhat, KeepsAccount
    <3>3. Has(t, "User", q.user, "update")'
      BY <2>2, <2>6, <3>2 DEF Has
    <3>4. KeepsAccount(t, q, 3)'
      BY <3>3 DEF KeepsAccount
    <3>5. KeepsGoal(t, q, 3)'
      BY <1>4, <2>1, <2>6, <3>1 DEF KeepsGoal
    <3>6. KeepsWhat(t, q, 3)'
      BY <2>6, <3>4, <3>5 DEF KeepsWhat
    <3> QED BY <2>10, <2>12, <3>6 DEF Keeps
  <2>14. Compatible'
    BY <2>2 DEF CurriculumInv, Compatible
  <2> QED BY <2>2, <2>3, <2>9, <2>10, <2>12, <2>13, <2>14, QuietSteps
<1> QED BY <1>3, <1>4

LEMMA CommitInv ==
  ASSUME CurriculumInv, NEW t \in Transactions, Commit(t)
  PROVE  CurriculumInv'
<1>1. PICK s : s = txn[t].statement
  OBVIOUS
<1>2. /\ s \in AllStatements /\ KeepsWhat(t, s, 9)
      /\ rows' = rows \/ (rows' = rows \cup {s} /\ s.table \notin {"Level", "Test"})
      /\ range' = range \/ (s.table = "Level" /\ range' = [range EXCEPT ![s.level] = s.range])
      /\ testLevel' = testLevel \/ (s.table = "Test" /\ testLevel' = [testLevel EXCEPT ![s.test] = s.level])
      /\ goal' = goal \/ (s.table = "UserGoal" /\ goal' = [goal EXCEPT ![s.user] = s])
      /\ plan' = plan \/ (/\ s.table = "LearningPlan"
                          /\ plan' = [plan EXCEPT ![s.user] = [row |-> s, lessons |-> txn[t].lessons]])
  BY <1>1, CommitEffects
<1>3. /\ txn' = [txn EXCEPT ![t].state = "committed"] /\ locks' = {l \in locks : l.holder # t}
  BY DEF Commit, Release
<1>4. CurriculumTypes
  BY DEF CurriculumInv
<1>5. txn'[t].state = "committed" /\ \A u \in Transactions \ {t} : txn'[u] = txn[u]
  <2>1. txn[t] \in TxnRecord
    BY <1>4 DEF CurriculumTypes
  <2> QED BY <2>1, <1>3, <1>4 DEF CurriculumTypes, TxnRecord
<1>6. txn' \in [Transactions -> TxnRecord]
  BY <1>3, <1>4 DEF CurriculumTypes, TxnRecord, Outcomes
<1>7. s.table = "LearningPlan" => s \in Plans
  BY <1>2 DEF KeepsWhat, KeepsGoal
<1>8. rows' \subseteq Children
  <2>1. ASSUME rows' # rows PROVE s \in Children
    <3>1. s \notin PlanRequests \/ s \in Plans
      <4>1. s \in PlanRequests => s.table = "LearningPlan"
        BY DEF PlanRequests
      <4> QED BY <4>1, <1>7
    <3>2. s \notin Changes
      <4>1. Insert(t)
        BY <2>1 DEF Commit, Update
      <4>2. s.table \notin {"Level", "Test", "ExamAttempt", "Lesson", "Topic", "LessonExercise"}
        BY <4>1, <1>1 DEF Insert
      <4> QED BY <4>2 DEF Changes
    <3>3. Plans \subseteq Children
      BY DEF Children, Banded
    <3> QED BY <3>1, <3>2, <3>3, <1>2 DEF AllStatements
  <2> QED BY <2>1, <1>2, <1>4 DEF CurriculumTypes
<1>9. range' \in [Levels -> SUBSET Bands] /\ testLevel' \in [Tests -> Levels]
  BY <1>2, <1>4, Shapes DEF CurriculumTypes
<1>10. goal' \in [Users -> Goals \cup {None}]
  BY <1>2, <1>4, Shapes DEF CurriculumTypes, Goals
<1>11. plan' \in [Users -> PlanRows \cup {None}]
  <2>1. txn[t].lessons \in SUBSET Lessons
    BY <1>4 DEF CurriculumTypes, TxnRecord
  <2>2. s.table = "LearningPlan" => s.user \in Users /\ [row |-> s, lessons |-> txn[t].lessons] \in PlanRows
    BY <1>7, <2>1 DEF Plans, PlanRows
  <2> QED BY <2>2, <1>2, <1>4 DEF CurriculumTypes
<1>12. CurriculumTypes'
  <2>1. \A u \in Transactions : Running(u)' => txn'[u].statement \in AllStatements
    BY <1>4, <1>5 DEF Running, CurriculumTypes
  <2>2. \A u \in Transactions : txn'[u].state = "idle" => txn'[u].at = 1
    BY <1>4, <1>5 DEF CurriculumTypes
  <2>3. \A l \in locks' : l.holder \in Transactions
    BY <1>3, <1>4 DEF CurriculumTypes
  <2> QED BY <1>6, <1>8, <1>9, <1>10, <1>11, <2>1, <2>2, <2>3 DEF CurriculumTypes
<1>13. Compatible'
  BY <1>3 DEF CurriculumInv, Compatible
<1>14. ASSUME NEW u \in Transactions, Running(u)' PROVE Keeps(u)'
  <2>1. u # t
    BY <1>5, <1>14 DEF Running
  <2>2. Running(u)
    BY <2>1, <1>5, <1>14 DEF Running
  <2> QED BY <2>1, <2>2, OthersKeep
<1>15. BandsFit'
  BY CommitFits
<1> QED BY <1>12, <1>13, <1>14, <1>15 DEF CurriculumInv

LEMMA CurriculumInvariance == Spec => []CurriculumInv
<1>1. Init => CurriculumInv
  <2> SUFFICES ASSUME Init PROVE CurriculumInv
    OBVIOUS
  <2> USE DEF Init
  <2>1. range \in [Levels -> SUBSET Bands] /\ testLevel \in [Tests -> Levels]
    BY SeedAssumption
  <2>2. goal \in [Users -> Goals \cup {None}] /\ plan \in [Users -> PlanRows \cup {None}]
    OBVIOUS
  <2>3. txn \in [Transactions -> TxnRecord] /\ \A t \in Transactions : txn[t].at = 1 /\ ~Running(t)
    BY DEF Idle, TxnRecord, Outcomes, Running
  <2>4. CurriculumTypes
    BY <2>1, <2>2, <2>3 DEF CurriculumTypes
  <2> QED BY <2>3, <2>4 DEF CurriculumInv, Compatible, BandsFit, BandRows
<1>2. CurriculumInv /\ [Next]_vars => CurriculumInv'
  <2> SUFFICES ASSUME CurriculumInv, [Next]_vars PROVE CurriculumInv'
    OBVIOUS
  <2>1. CASE Next
    <3>1. PICK t \in Transactions :
            \/ Begin(t) \/ Acquire(t) \/ CheckIntegrity(t) \/ CompareGoal(t) \/ ReadGoal(t)
            \/ ComparePlan(t) \/ CheckUnique(t) \/ Commit(t) \/ Abort(t)
      BY <2>1 DEF Next
    <3>2. Abort(t) => CurriculumInv'
      BY Endings DEF Abort, Outcomes
    <3> QED BY <3>1, <3>2, BeginKeeps, AcquireKeeps, CheckKeeps, CompareKeeps, ReadGoalKeeps, CommitInv
  <2>2. CASE UNCHANGED vars
    <3>1. /\ UNCHANGED <<range, testLevel, rows, goal, plan>> /\ txn' = txn /\ locks' = locks
      BY <2>2 DEF vars
    <3>2. CurriculumTypes'
      BY <3>1 DEF CurriculumInv, CurriculumTypes, Running
    <3>3. Compatible' /\ BandsFit'
      BY <3>1 DEF CurriculumInv, Compatible, BandsFit, BandRows, LevelOf, Of
    <3>4. ASSUME NEW t \in Transactions, Running(t)' PROVE Keeps(t)'
      <4>1. Keeps(t)
        BY <3>1, <3>4 DEF CurriculumInv, Running
      <4>2. PICK s, a : s = txn[t].statement /\ a = txn[t].at /\ KeepsWhat(t, s, a)
        BY <4>1 DEF Keeps
      <4>3. KeepsWhat(t, s, a)'
        BY <3>1, <4>2 DEF KeepsWhat, KeepsPlacement, KeepsAccount, KeepsGoal, KeepsResult, KeepsLevel,
                          KeepsTest, Has, LevelOf, Of, BandRows
      <4> QED BY <3>1, <4>2, <4>3 DEF Keeps
    <3> QED BY <3>2, <3>3, <3>4 DEF CurriculumInv
  <2> QED BY <2>1, <2>2
<1> QED BY <1>1, <1>2, PTL DEF Spec

\* Every band lies in the range of its Level, whoever changes the Level, moves the Test or
\* writes the row at the same time.
THEOREM BandsAlwaysFit == Spec => []BandsFit
<1>1. CurriculumInv => BandsFit
  BY DEF CurriculumInv
<1> QED BY <1>1, CurriculumInvariance, PTL

\* A plan is made for the goal that is active when it is committed.
THEOREM PlansFollow == Spec => PlanFollowsTheGoal
<1>1. CurriculumInv /\ [Next]_vars =>
        [\A u \in Users : plan'[u] # plan[u] =>
           goal[u] # None /\ plan'[u].row.level = goal[u].level /\ plan'[u].row.band = goal[u].band]_vars
  <2> SUFFICES ASSUME CurriculumInv, Next, NEW u \in Users, plan'[u] # plan[u]
               PROVE  goal[u] # None /\ plan'[u].row.level = goal[u].level /\ plan'[u].row.band = goal[u].band
    OBVIOUS
  <2>1. PICK t \in Transactions : Commit(t)
    <3>1. PICK t \in Transactions :
            \/ Begin(t) \/ Acquire(t) \/ CheckIntegrity(t) \/ CompareGoal(t) \/ ReadGoal(t)
            \/ ComparePlan(t) \/ CheckUnique(t) \/ Commit(t) \/ Abort(t)
      BY DEF Next
    <3>2. \/ Commit(t) \/ plan' = plan
      BY <3>1, Zenon DEF Begin, Acquire, CheckIntegrity, CompareGoal, ReadGoal, ComparePlan, CheckUnique, Abort,
                  Advances, Ends
    <3> QED BY <3>2
  <2>2. PICK s : s = txn[t].statement
    OBVIOUS
  <2>3. /\ KeepsWhat(t, s, 9)
        /\ s.table = "LearningPlan"
        /\ plan' = [plan EXCEPT ![s.user] = [row |-> s, lessons |-> txn[t].lessons]]
    BY <2>1, <2>2, CommitEffects
  <2>4. u = s.user /\ plan'[u].row = s
    BY <2>3 DEF CurriculumInv, CurriculumTypes
  <2>5. goal[s.user] # None /\ s.level = goal[s.user].level /\ s.band = goal[s.user].band
    BY <2>3 DEF KeepsWhat, KeepsGoal
  <2> QED BY <2>4, <2>5
<1> QED BY <1>1, CurriculumInvariance, PTL DEF Spec, PlanFollowsTheGoal

-----------------------------------------------------------------------------
(***************************************************************************)
(* Where stories, exercises and topic events sit.  The argument is the     *)
(* same: who is about to commit holds KEY SHARE on the lesson or the topic *)
(* its check has read, and who moves one holds it for UPDATE.              *)
(***************************************************************************)

KeyShare == "key share"
StoryLevel == "story level"
EventTopic == "event topic"
LessonStories == "lesson stories"
MovedEvents == "topic events"
MovedChildren == "topic children"
ExerciseTopic == "exercise topic"
PlaceChecks == {StoryLevel, EventTopic, LessonStories, MovedEvents, MovedChildren, ExerciseTopic}

\* What a running transaction has locked and found so far.
SitsStory(t, s, a) ==
  /\ a >= 2 => Has(t, "Lesson", s.lesson, KeyShare)
  /\ a >= 3 => lessonLevel[s.lesson] = s.level
SitsEvent(t, s, a) ==
  /\ a >= 2 => Has(t, "Topic", s.topic, KeyShare)
  /\ a >= 3 => topicLesson[s.topic] = s.lesson
SitsLesson(t, s, a) ==
  /\ a >= 2 => Has(t, "Lesson", s.lesson, "update")
  /\ a >= 3 => \A r \in Of("Story") : r.lesson = s.lesson => r.level = s.level
SitsTopic(t, s, a) ==
  /\ a >= 2 => Has(t, "Topic", s.topic, "update")
  /\ a >= 3 => \A r \in Of("TopicEvent") : r.topic = s.topic => topicLesson[s.topic] = s.lesson
  /\ a >= 4 => \A e \in Exercises : place[e].topic = s.topic => place[e].lesson = s.lesson
SitsExercise(t, s, a) ==
  /\ a >= 5 => Has(t, "Topic", s.place.topic, KeyShare)
  /\ a >= 6 => (s.place.topic # None => topicLesson[s.place.topic] = s.place.lesson)
SitsWhat(t, s, a) ==
  /\ s.table = "Story" => SitsStory(t, s, a)
  /\ s.table = "TopicEvent" => SitsEvent(t, s, a)
  /\ s.table = "Lesson" => SitsLesson(t, s, a)
  /\ s.table = "Topic" => SitsTopic(t, s, a)
  /\ s.table = "LessonExercise" => SitsExercise(t, s, a)
Sits(t) == SitsWhat(t, txn[t].statement, txn[t].at)

PlaceTypes ==
  /\ lessonLevel \in [Lessons -> Levels] /\ topicLesson \in [Topics -> Lessons]
  /\ place \in [Exercises -> Places]

PlacesInv ==
  /\ PlaceTypes /\ PlacesAgree
  /\ \A t \in Transactions : Running(t) => Sits(t)

\* What the statements about places name.
LEMMA PlaceShapes ==
  ASSUME NEW s \in AllStatements
  PROVE  /\ s.table = "Story" => s.lesson \in Lessons /\ s.level \in Levels
         /\ s.table = "TopicEvent" => s.lesson \in Lessons /\ s.topic \in Topics
         /\ s.table = "Lesson" => s.lesson \in Lessons /\ s.level \in Levels
         /\ s.table = "Topic" => s.topic \in Topics /\ s.lesson \in Lessons
         /\ s.table = "LessonExercise" => s.exercise \in Exercises /\ s.place \in Places
<1>1. s \in Goals \cup Plans \cup PlanRequests => s.table \in {"UserGoal", "LearningPlan"}
  BY DEF Goals, Plans, PlanRequests
<1>2. s \in Placements \cup Results => s.table \in {"PlacementAttempt", "Result"}
  BY DEF Placements, Results
<1>3. s \in Stories => s.table = "Story" /\ s.lesson \in Lessons /\ s.level \in Levels
  BY DEF Stories
<1>4. s \in Words \cup ProgressRows => s.table \in {"LessonWord", "Progress"}
  BY DEF Words, ProgressRows
<1>5. s \in TopicEvents => s.table = "TopicEvent" /\ s.lesson \in Lessons /\ s.topic \in Topics
  BY DEF TopicEvents
<1>6. s \in ExerciseEvents => s.table = "ExerciseEvent"
  BY DEF ExerciseEvents
<1>7. s \in Changes =>
        \/ s.table \in {"Level", "Test", "ExamAttempt"}
        \/ s.table = "Lesson" /\ s.lesson \in Lessons /\ s.level \in Levels
        \/ s.table = "Topic" /\ s.topic \in Topics /\ s.lesson \in Lessons
        \/ s.table = "LessonExercise" /\ s.exercise \in Exercises /\ s.place \in Places
  BY DEF Changes
<1>8. s \in Goals \cup Plans \cup PlanRequests \cup Placements \cup Results \cup Stories \cup Words \cup ProgressRows
            \cup TopicEvents \cup ExerciseEvents \cup Changes
  BY DEF AllStatements, Children, Banded
<1> QED BY <1>1, <1>2, <1>3, <1>4, <1>5, <1>6, <1>7, <1>8

\* The programs of those statements.
LEMMA PlaceSteps ==
  ASSUME NEW s, NEW p, p = Program(s)
  PROVE  /\ s.table = "Story" =>
              Len(p) = 2 /\ p[1] = Lock("Lesson", s.lesson, KeyShare) /\ p[2] = Check(StoryLevel)
         /\ s.table = "TopicEvent" =>
              Len(p) = 2 /\ p[1] = Lock("Topic", s.topic, KeyShare) /\ p[2] = Check(EventTopic)
         /\ s.table = "Lesson" =>
              Len(p) = 2 /\ p[1] = Lock("Lesson", s.lesson, "update") /\ p[2] = Check(LessonStories)
         /\ s.table = "Topic" =>
              /\ Len(p) = 3 /\ p[1] = Lock("Topic", s.topic, "update")
              /\ p[2] = Check(MovedEvents) /\ p[3] = Check(MovedChildren)
         /\ s.table = "LessonExercise" =>
              /\ Len(p) = 6 /\ p[4] = Lock("Topic", s.place.topic, KeyShare)
              /\ p[5] = Check(ExerciseTopic)
<1>1. CASE s.table = "Story"
  <2>1. PICK u, v : u = Lock("Lesson", s.lesson, KeyShare) /\ v = Check(StoryLevel)
    OBVIOUS
  <2>2. p = <<u, v>>
    BY <1>1, <2>1, Zenon DEF Program, StoryProgram, KeyShare, StoryLevel
  <2>3. Len(p) = 2 /\ p[1] = u /\ p[2] = v
    BY <2>2
  <2> QED BY <1>1, <2>1, <2>3
<1>2. CASE s.table = "TopicEvent"
  <2>1. PICK u, v : u = Lock("Topic", s.topic, KeyShare) /\ v = Check(EventTopic)
    OBVIOUS
  <2>2. p = <<u, v>>
    BY <1>2, <2>1, Zenon DEF Program, TopicEventProgram, KeyShare, EventTopic
  <2>3. Len(p) = 2 /\ p[1] = u /\ p[2] = v
    BY <2>2
  <2> QED BY <1>2, <2>1, <2>3
<1>3. CASE s.table = "Lesson"
  <2>1. PICK u, v : u = Lock("Lesson", s.lesson, "update") /\ v = Check(LessonStories)
    OBVIOUS
  <2>2. p = <<u, v>>
    BY <1>3, <2>1, Zenon DEF Program, LessonProgram, LessonStories
  <2>3. Len(p) = 2 /\ p[1] = u /\ p[2] = v
    BY <2>2
  <2> QED BY <1>3, <2>1, <2>3
<1>4. CASE s.table = "Topic"
  <2>1. PICK u, v, w : u = Lock("Topic", s.topic, "update") /\ v = Check(MovedEvents) /\ w = Check(MovedChildren)
    OBVIOUS
  <2>2. p = <<u, v, w>>
    BY <1>4, <2>1, Zenon DEF Program, TopicProgram, MovedEvents, MovedChildren
  <2>3. Len(p) = 3 /\ p[1] = u /\ p[2] = v /\ p[3] = w
    BY <2>2
  <2> QED BY <1>4, <2>1, <2>3
<1>5. CASE s.table = "LessonExercise"
  <2>1. PICK u, v, w, x, y, z :
          /\ u = Lock("LessonExercise", s.exercise, "no key update") /\ v = Check("exercise events")
          /\ w = Lock("Lesson", s.place.lesson, "key share") /\ x = Lock("Topic", s.place.topic, KeyShare)
          /\ y = Check(ExerciseTopic) /\ z = Check("exercise progress")
    OBVIOUS
  <2>2. p = <<u, v, w, x, y, z>>
    BY <1>5, <2>1, Zenon DEF Program, ExerciseProgram, KeyShare, ExerciseTopic
  <2>3. Len(p) = 6 /\ p[4] = x /\ p[5] = y
    BY <2>2
  <2> QED BY <1>5, <2>1, <2>3
<1> QED BY <1>1, <1>2, <1>3, <1>4, <1>5

\* What their checks have found when they pass.
LEMMA PlacePasses ==
  ASSUME NEW s
  PROVE  /\ Passes(s, StoryLevel) => lessonLevel[s.lesson] = s.level
         /\ Passes(s, EventTopic) => topicLesson[s.topic] = s.lesson
         /\ Passes(s, LessonStories) => \A r \in Of("Story") : r.lesson = s.lesson => r.level = s.level
         /\ Passes(s, MovedEvents) =>
              \A r \in Of("TopicEvent") : r.topic = s.topic => topicLesson[s.topic] = s.lesson
         /\ Passes(s, MovedChildren) =>
              \A e \in Exercises : place[e].topic = s.topic => place[e].lesson = s.lesson
         /\ Passes(s, ExerciseTopic) =>
              (s.place.topic # None => topicLesson[s.place.topic] = s.place.lesson)
<1>1. Passes(s, StoryLevel) => lessonLevel[s.lesson] = s.level
  BY DEF Passes, StoryLevel
<1>2. Passes(s, EventTopic) => topicLesson[s.topic] = s.lesson
  BY DEF Passes, EventTopic
<1>3. Passes(s, LessonStories) => \A r \in Of("Story") : r.lesson = s.lesson => r.level = s.level
  BY DEF Passes, LessonStories
<1>4. Passes(s, MovedEvents) =>
        \A r \in Of("TopicEvent") : r.topic = s.topic => topicLesson[s.topic] = s.lesson
  BY DEF Passes, MovedEvents
<1>5. Passes(s, MovedChildren) =>
        \A e \in Exercises : place[e].topic = s.topic => place[e].lesson = s.lesson
  BY DEF Passes, MovedChildren
<1>6. Passes(s, ExerciseTopic) => (s.place.topic # None => topicLesson[s.place.topic] = s.place.lesson)
  BY DEF Passes, ExerciseTopic
<1> QED BY <1>1, <1>2, <1>3, <1>4, <1>5, <1>6

\* One step of t's program: a lock is granted, or a check has passed.
PlaceMoves(t) ==
  /\ Running(t) /\ ~Finished(t)
  /\ txn'[t].statement = txn[t].statement /\ txn'[t].at = txn[t].at + 1
  /\ UNCHANGED <<lessonLevel, topicLesson, place, rows>>
  /\ \A l \in locks : l \in locks'
  /\ Step(t).do = "lock" => [holder |-> t, row |-> Step(t).row, mode |-> Step(t).mode] \in locks'
  /\ Step(t).do \in PlaceChecks => Passes(txn[t].statement, Step(t).do)

LEMMA PlaceMovesKeep ==
  ASSUME CurriculumInv, PlacesInv, NEW t \in Transactions, PlaceMoves(t)
  PROVE  Sits(t)'
<1>1. PICK s, a, b, p : s = txn[t].statement /\ a = txn[t].at /\ b = a + 1 /\ p = Program(s)
  OBVIOUS
<1>2. /\ a \in Nat \ {0} /\ SitsWhat(t, s, a) /\ ~(a > Len(p)) /\ Step(t) = p[a]
  <2>1. Running(t) /\ ~(a > Len(p)) /\ Step(t) = p[a]
    BY <1>1 DEF PlaceMoves, Finished, Current, Step
  <2>2. txn[t] \in TxnRecord
    BY DEF CurriculumInv, CurriculumTypes
  <2>3. a \in Nat \ {0}
    BY <2>2, <1>1 DEF TxnRecord
  <2>4. Sits(t)
    BY <2>1 DEF PlacesInv
  <2> QED BY <2>1, <2>3, <2>4, <1>1 DEF Sits
<1>3. /\ txn'[t].statement = s /\ txn'[t].at = b
      /\ lessonLevel' = lessonLevel /\ topicLesson' = topicLesson /\ place' = place
      /\ \A table : Of(table)' = Of(table)
      /\ \A l \in locks : l \in locks'
  BY <1>1 DEF PlaceMoves, Of
<1>4. \A table, id, mode : Has(t, table, id, mode) => Has(t, table, id, mode)'
  BY <1>3 DEF Has
<1>5. \A table, id, mode : p[a] = Lock(table, id, mode) => Has(t, table, id, mode)'
  <2> SUFFICES ASSUME NEW table, NEW id, NEW mode, p[a] = Lock(table, id, mode)
               PROVE  Has(t, table, id, mode)'
    OBVIOUS
  <2>1. Step(t).do = "lock" /\ Step(t).row = <<table, id>> /\ Step(t).mode = mode
    BY <1>2, Instructions
  <2>2. [holder |-> t, row |-> Step(t).row, mode |-> Step(t).mode] \in locks'
    BY <2>1 DEF PlaceMoves
  <2> QED BY <2>1, <2>2 DEF Has
<1>6. \A what \in PlaceChecks : p[a] = Check(what) => Passes(s, what)
  <2> SUFFICES ASSUME NEW what \in PlaceChecks, p[a] = Check(what)
               PROVE  Passes(s, what)
    OBVIOUS
  <2>1. Step(t).do = what
    BY <1>2, Instructions
  <2> QED BY <1>1, <2>1 DEF PlaceMoves
<1>7. /\ StoryLevel \in PlaceChecks /\ EventTopic \in PlaceChecks /\ LessonStories \in PlaceChecks
      /\ MovedEvents \in PlaceChecks /\ MovedChildren \in PlaceChecks /\ ExerciseTopic \in PlaceChecks
  BY DEF PlaceChecks
<1>8. SUFFICES SitsWhat(t, s, b)'
  BY <1>1, <1>3 DEF Sits
<1>9. ASSUME s.table = "Story" PROVE SitsStory(t, s, b)'
  <2>1. Len(p) = 2 /\ p[1] = Lock("Lesson", s.lesson, KeyShare) /\ p[2] = Check(StoryLevel)
    BY <1>1, <1>9, PlaceSteps
  <2>2. a \in {1, 2} /\ SitsStory(t, s, a)
    BY <2>1, <1>2, <1>9 DEF SitsWhat
  <2>3. Has(t, "Lesson", s.lesson, KeyShare)'
    BY <2>1, <2>2, <1>4, <1>5 DEF SitsStory
  <2>4. a = 2 => lessonLevel[s.lesson] = s.level
    BY <2>1, <1>6, <1>7, PlacePasses
  <2>5. b >= 3 => lessonLevel'[s.lesson] = s.level
    BY <2>2, <2>4, <1>1, <1>3
  <2> QED BY <2>3, <2>5 DEF SitsStory
<1>10. ASSUME s.table = "TopicEvent" PROVE SitsEvent(t, s, b)'
  <2>1. Len(p) = 2 /\ p[1] = Lock("Topic", s.topic, KeyShare) /\ p[2] = Check(EventTopic)
    BY <1>1, <1>10, PlaceSteps
  <2>2. a \in {1, 2} /\ SitsEvent(t, s, a)
    BY <2>1, <1>2, <1>10 DEF SitsWhat
  <2>3. Has(t, "Topic", s.topic, KeyShare)'
    BY <2>1, <2>2, <1>4, <1>5 DEF SitsEvent
  <2>4. a = 2 => topicLesson[s.topic] = s.lesson
    BY <2>1, <1>6, <1>7, PlacePasses
  <2>5. b >= 3 => topicLesson'[s.topic] = s.lesson
    BY <2>2, <2>4, <1>1, <1>3
  <2> QED BY <2>3, <2>5 DEF SitsEvent
<1>11. ASSUME s.table = "Lesson" PROVE SitsLesson(t, s, b)'
  <2>1. Len(p) = 2 /\ p[1] = Lock("Lesson", s.lesson, "update") /\ p[2] = Check(LessonStories)
    BY <1>1, <1>11, PlaceSteps
  <2>2. a \in {1, 2} /\ SitsLesson(t, s, a)
    BY <2>1, <1>2, <1>11 DEF SitsWhat
  <2>3. Has(t, "Lesson", s.lesson, "update")'
    BY <2>1, <2>2, <1>4, <1>5 DEF SitsLesson
  <2>4. a = 2 => \A r \in Of("Story") : r.lesson = s.lesson => r.level = s.level
    BY <2>1, <1>6, <1>7, PlacePasses
  <2>5. b >= 3 => \A r \in Of("Story")' : r.lesson = s.lesson => r.level = s.level
    BY <2>2, <2>4, <1>1, <1>3
  <2> QED BY <2>3, <2>5 DEF SitsLesson
<1>12. ASSUME s.table = "Topic" PROVE SitsTopic(t, s, b)'
  <2>1. /\ Len(p) = 3 /\ p[1] = Lock("Topic", s.topic, "update")
        /\ p[2] = Check(MovedEvents) /\ p[3] = Check(MovedChildren)
    BY <1>1, <1>12, PlaceSteps
  <2>2. a \in 1 .. 3 /\ SitsTopic(t, s, a)
    BY <2>1, <1>2, <1>12 DEF SitsWhat
  <2>3. Has(t, "Topic", s.topic, "update")'
    <3>1. a = 1 => Has(t, "Topic", s.topic, "update")'
      BY <2>1, <1>5
    <3>2. a >= 2 => Has(t, "Topic", s.topic, "update")'
      BY <2>2, <1>4 DEF SitsTopic
    <3> QED BY <3>1, <3>2, <2>2
  <2>4. a = 2 => \A r \in Of("TopicEvent") : r.topic = s.topic => topicLesson[s.topic] = s.lesson
    BY <2>1, <1>6, <1>7, PlacePasses
  <2>5. a = 3 => \A e \in Exercises : place[e].topic = s.topic => place[e].lesson = s.lesson
    BY <2>1, <1>6, <1>7, PlacePasses
  <2>6. a = 3 => \A r \in Of("TopicEvent") : r.topic = s.topic => topicLesson[s.topic] = s.lesson
    BY <2>2 DEF SitsTopic
  <2>7. b >= 3 => \A r \in Of("TopicEvent")' : r.topic = s.topic => topicLesson'[s.topic] = s.lesson
    BY <2>2, <2>4, <2>6, <1>1, <1>3
  <2>8. b >= 4 => \A e \in Exercises : place'[e].topic = s.topic => place'[e].lesson = s.lesson
    BY <2>2, <2>5, <1>1, <1>3
  <2> QED BY <2>3, <2>7, <2>8 DEF SitsTopic
<1>13. ASSUME s.table = "LessonExercise" PROVE SitsExercise(t, s, b)'
  <2>1. Len(p) = 6 /\ p[4] = Lock("Topic", s.place.topic, KeyShare) /\ p[5] = Check(ExerciseTopic)
    BY <1>1, <1>13, PlaceSteps
  <2>2. a \in 1 .. 6 /\ SitsExercise(t, s, a)
    BY <2>1, <1>2, <1>13 DEF SitsWhat
  <2>3. b >= 5 => Has(t, "Topic", s.place.topic, KeyShare)'
    <3>1. a = 4 => Has(t, "Topic", s.place.topic, KeyShare)'
      BY <2>1, <1>5
    <3>2. a >= 5 => Has(t, "Topic", s.place.topic, KeyShare)'
      BY <2>2, <1>4 DEF SitsExercise
    <3> QED BY <3>1, <3>2, <2>2, <1>1
  <2>4. a = 5 => (s.place.topic # None => topicLesson[s.place.topic] = s.place.lesson)
    BY <2>1, <1>6, <1>7, PlacePasses
  <2>5. a = 6 => (s.place.topic # None => topicLesson[s.place.topic] = s.place.lesson)
    BY <2>2 DEF SitsExercise
  <2>6. b >= 6 => (s.place.topic # None => topicLesson'[s.place.topic] = s.place.lesson)
    BY <2>2, <2>4, <2>5, <1>1, <1>3
  <2> QED BY <2>3, <2>6 DEF SitsExercise
<1> QED BY <1>9, <1>10, <1>11, <1>12, <1>13 DEF SitsWhat

\* A transaction whose program is through has passed every check.
LEMMA FinishedSits ==
  ASSUME CurriculumInv, PlacesInv, NEW t \in Transactions, Running(t), Finished(t)
  PROVE  SitsWhat(t, txn[t].statement, 7)
<1>1. PICK s, a, p : s = txn[t].statement /\ a = txn[t].at /\ p = Program(s)
  OBVIOUS
<1>2. a \in Nat \ {0} /\ SitsWhat(t, s, a) /\ a > Len(p)
  <2>1. txn[t] \in TxnRecord
    BY DEF CurriculumInv, CurriculumTypes
  <2>2. a \in Nat \ {0}
    BY <2>1, <1>1 DEF TxnRecord
  <2>3. Sits(t)
    BY DEF PlacesInv
  <2> QED BY <2>2, <2>3, <1>1 DEF Sits, Finished, Current
<1>3. /\ s.table = "Story" => a >= 3
      /\ s.table = "TopicEvent" => a >= 3
      /\ s.table = "Lesson" => a >= 3
      /\ s.table = "Topic" => a >= 4
      /\ s.table = "LessonExercise" => a >= 7
  <2>1. /\ s.table \in {"Story", "TopicEvent", "Lesson"} => Len(p) = 2
        /\ s.table = "Topic" => Len(p) = 3
        /\ s.table = "LessonExercise" => Len(p) = 6
    BY <1>1, PlaceSteps
  <2>2. ASSUME NEW n \in Nat, Len(p) = n PROVE a >= n + 1
    BY <1>2, <2>2
  <2>3. (Len(p) = 2 => a >= 3) /\ (Len(p) = 3 => a >= 4) /\ (Len(p) = 6 => a >= 7)
    <3>1. Len(p) = 2 => a >= 2 + 1
      BY <2>2
    <3>2. Len(p) = 3 => a >= 3 + 1
      BY <2>2
    <3>3. Len(p) = 6 => a >= 6 + 1
      BY <2>2
    <3> QED BY <3>1, <3>2, <3>3, <1>2
  <2> QED BY <2>1, <2>3
<1>4. /\ s.table = "Story" => SitsStory(t, s, 7)
      /\ s.table = "TopicEvent" => SitsEvent(t, s, 7)
      /\ s.table = "Lesson" => SitsLesson(t, s, 7)
  BY <1>2, <1>3 DEF SitsWhat, SitsStory, SitsEvent, SitsLesson
<1>5. /\ s.table = "Topic" => SitsTopic(t, s, 7)
      /\ s.table = "LessonExercise" => SitsExercise(t, s, 7)
  BY <1>2, <1>3 DEF SitsWhat, SitsTopic, SitsExercise
<1> QED BY <1>1, <1>4, <1>5 DEF SitsWhat

\* Nobody moves a row that another transaction refers to.
LEMMA MoveExcludes ==
  ASSUME CurriculumInv, NEW t, NEW u, t # u, NEW table, NEW id
  PROVE  /\ ~(Has(t, table, id, "update") /\ Has(u, table, id, KeyShare))
         /\ ~(Has(t, table, id, KeyShare) /\ Has(u, table, id, "update"))
         /\ ~(Has(t, table, id, "update") /\ Has(u, table, id, "update"))
<1>1. \A m, n : Has(t, table, id, m) /\ Has(u, table, id, n) => ~Conflicts(m, n)
  <2> SUFFICES ASSUME NEW m, NEW n, Has(t, table, id, m), Has(u, table, id, n)
               PROVE  ~Conflicts(m, n)
    OBVIOUS
  <2>1. PICK k, l : /\ k = [holder |-> t, row |-> <<table, id>>, mode |-> m]
                    /\ l = [holder |-> u, row |-> <<table, id>>, mode |-> n]
    OBVIOUS
  <2>2. k \in locks /\ l \in locks
    BY <2>1 DEF Has
  <2>3. k.row = l.row /\ k.holder # l.holder /\ k.mode = m /\ l.mode = n
    BY <2>1
  <2> QED BY <2>2, <2>3 DEF CurriculumInv, Compatible
<1>2. \A m : Conflicts("update", m) /\ Conflicts(m, "update")
  <2>1. \A m : "update" \in {"update", m} /\ "update" \in {m, "update"}
    OBVIOUS
  <2> QED BY <2>1, Zenon DEF Conflicts
<1> QED BY <1>1, <1>2

\* What a commit changes of the rows and of the places.
LEMMA PlaceEffects ==
  ASSUME CurriculumInv, PlacesInv, NEW t \in Transactions, Commit(t), NEW s, s = txn[t].statement
  PROVE  /\ s \in AllStatements /\ SitsWhat(t, s, 7)
         /\ rows' = rows \/ (rows' = rows \cup {s} /\ s.table \notin {"Lesson", "Topic", "LessonExercise"})
         /\ \/ lessonLevel' = lessonLevel
            \/ s.table = "Lesson" /\ lessonLevel' = [lessonLevel EXCEPT ![s.lesson] = s.level]
         /\ \/ topicLesson' = topicLesson
            \/ s.table = "Topic" /\ topicLesson' = [topicLesson EXCEPT ![s.topic] = s.lesson]
         /\ \/ place' = place
            \/ s.table = "LessonExercise" /\ place' = [place EXCEPT ![s.exercise] = s.place]
<1>1. Running(t) /\ Finished(t)
  BY DEF Commit
<1>2. s \in AllStatements /\ SitsWhat(t, s, 7)
  BY <1>1, FinishedSits DEF CurriculumInv, CurriculumTypes
<1>3. ASSUME Insert(t)
      PROVE  /\ rows' = rows \cup {s} /\ s.table \notin {"Lesson", "Topic", "LessonExercise"}
             /\ lessonLevel' = lessonLevel /\ topicLesson' = topicLesson /\ place' = place
  BY <1>3 DEF Insert, parents
<1>4. ASSUME Update(t)
      PROVE  /\ rows' = rows
             /\ \/ lessonLevel' = lessonLevel
                \/ s.table = "Lesson" /\ lessonLevel' = [lessonLevel EXCEPT ![s.lesson] = s.level]
             /\ \/ topicLesson' = topicLesson
                \/ s.table = "Topic" /\ topicLesson' = [topicLesson EXCEPT ![s.topic] = s.lesson]
             /\ \/ place' = place
                \/ s.table = "LessonExercise" /\ place' = [place EXCEPT ![s.exercise] = s.place]
  BY <1>4 DEF Update
<1>5. Insert(t) \/ Update(t)
  BY DEF Commit
<1> QED BY <1>2, <1>3, <1>4, <1>5

\* What the locks of u keep from a commit of t.
LEMMA PlaceStable ==
  ASSUME CurriculumInv, PlacesInv, NEW t \in Transactions, NEW u \in Transactions, t # u, Commit(t)
  PROVE  /\ \A l \in Lessons : Has(u, "Lesson", l, KeyShare) => lessonLevel'[l] = lessonLevel[l]
         /\ \A c \in Topics : Has(u, "Topic", c, KeyShare) \/ Has(u, "Topic", c, "update") =>
              topicLesson'[c] = topicLesson[c]
         /\ \A l \in Lessons : Has(u, "Lesson", l, "update") =>
              \A r \in Of("Story")' : r.lesson = l => r \in Of("Story")
         /\ \A c \in Topics : Has(u, "Topic", c, "update") =>
              /\ \A r \in Of("TopicEvent")' : r.topic = c => r \in Of("TopicEvent")
              /\ \A e \in Exercises : place'[e].topic = c => place'[e] = place[e]
<1>1. PICK s : s = txn[t].statement
  OBVIOUS
<1>2. /\ s \in AllStatements /\ SitsWhat(t, s, 7)
      /\ rows' = rows \/ (rows' = rows \cup {s} /\ s.table \notin {"Lesson", "Topic", "LessonExercise"})
      /\ \/ lessonLevel' = lessonLevel
         \/ s.table = "Lesson" /\ lessonLevel' = [lessonLevel EXCEPT ![s.lesson] = s.level]
      /\ \/ topicLesson' = topicLesson
         \/ s.table = "Topic" /\ topicLesson' = [topicLesson EXCEPT ![s.topic] = s.lesson]
      /\ \/ place' = place
         \/ s.table = "LessonExercise" /\ place' = [place EXCEPT ![s.exercise] = s.place]
  BY <1>1, PlaceEffects
<1>3. PlaceTypes
  BY DEF PlacesInv
<1>4. /\ s.table = "Story" => Has(t, "Lesson", s.lesson, KeyShare)
      /\ s.table = "TopicEvent" => Has(t, "Topic", s.topic, KeyShare)
      /\ s.table = "Lesson" => Has(t, "Lesson", s.lesson, "update")
      /\ s.table = "Topic" => Has(t, "Topic", s.topic, "update")
      /\ s.table = "LessonExercise" => Has(t, "Topic", s.place.topic, KeyShare)
  BY <1>2 DEF SitsWhat, SitsStory, SitsEvent, SitsLesson, SitsTopic, SitsExercise
<1>5. ASSUME NEW l \in Lessons, Has(u, "Lesson", l, KeyShare) PROVE lessonLevel'[l] = lessonLevel[l]
  <2>1. s.table = "Lesson" => l # s.lesson
    BY <1>4, <1>5, MoveExcludes
  <2> QED BY <2>1, <1>2, <1>3 DEF PlaceTypes
<1>6. ASSUME NEW c \in Topics, Has(u, "Topic", c, KeyShare) \/ Has(u, "Topic", c, "update")
      PROVE  topicLesson'[c] = topicLesson[c]
  <2>1. s.table = "Topic" => c # s.topic
    BY <1>4, <1>6, MoveExcludes
  <2> QED BY <2>1, <1>2, <1>3 DEF PlaceTypes
<1>7. ASSUME NEW l \in Lessons, Has(u, "Lesson", l, "update"), NEW r \in Of("Story")', r.lesson = l
      PROVE  r \in Of("Story")
  <2>1. r \in rows' /\ r.table = "Story"
    BY <1>7 DEF Of
  <2>2. r # s
    BY <2>1, <1>4, <1>7, MoveExcludes
  <2> QED BY <2>1, <2>2, <1>2 DEF Of
<1>8. ASSUME NEW c \in Topics, Has(u, "Topic", c, "update"), NEW r \in Of("TopicEvent")', r.topic = c
      PROVE  r \in Of("TopicEvent")
  <2>1. r \in rows' /\ r.table = "TopicEvent"
    BY <1>8 DEF Of
  <2>2. r # s
    BY <2>1, <1>4, <1>8, MoveExcludes
  <2> QED BY <2>1, <2>2, <1>2 DEF Of
<1>9. ASSUME NEW c \in Topics, Has(u, "Topic", c, "update"), NEW e \in Exercises, place'[e].topic = c
      PROVE  place'[e] = place[e]
  <2>1. s.table = "LessonExercise" => s.place.topic # c
    BY <1>4, <1>9, MoveExcludes
  <2> QED BY <2>1, <1>2, <1>3, <1>9 DEF PlaceTypes
<1> QED BY <1>5, <1>6, <1>7, <1>8, <1>9

LEMMA OthersSit ==
  ASSUME CurriculumInv, PlacesInv, NEW t \in Transactions, NEW u \in Transactions, t # u, Commit(t), Running(u)
  PROVE  Sits(u)'
<1>1. PICK q, a : q = txn[u].statement /\ a = txn[u].at
  OBVIOUS
<1>2. q \in AllStatements /\ SitsWhat(u, q, a) /\ a \in Nat
  <2>1. txn[u] \in TxnRecord /\ Sits(u) /\ q \in AllStatements
    BY <1>1 DEF CurriculumInv, CurriculumTypes, PlacesInv
  <2> QED BY <2>1, <1>1 DEF Sits, TxnRecord
<1>3. txn'[u] = txn[u] /\ \A table, id, mode : Has(u, table, id, mode) => Has(u, table, id, mode)'
  <2>1. txn' = [txn EXCEPT ![t].state = "committed"] /\ locks' = {l \in locks : l.holder # t}
    BY DEF Commit, Release
  <2>2. \A table, id, mode : [holder |-> u, row |-> <<table, id>>, mode |-> mode].holder = u
    OBVIOUS
  <2>3. txn'[u] = txn[u]
    BY <2>1 DEF CurriculumInv, CurriculumTypes
  <2> QED BY <2>1, <2>2, <2>3 DEF Has
<1>4. SUFFICES SitsWhat(u, q, a)'
  BY <1>1, <1>3 DEF Sits
<1>5. /\ \A l \in Lessons : Has(u, "Lesson", l, KeyShare) => lessonLevel'[l] = lessonLevel[l]
      /\ \A c \in Topics : Has(u, "Topic", c, KeyShare) \/ Has(u, "Topic", c, "update") =>
           topicLesson'[c] = topicLesson[c]
      /\ \A l \in Lessons : Has(u, "Lesson", l, "update") =>
           \A r \in Of("Story")' : r.lesson = l => r \in Of("Story")
      /\ \A c \in Topics : Has(u, "Topic", c, "update") =>
           /\ \A r \in Of("TopicEvent")' : r.topic = c => r \in Of("TopicEvent")
           /\ \A e \in Exercises : place'[e].topic = c => place'[e] = place[e]
  BY PlaceStable
<1>6. (a >= 4 => a >= 3) /\ (a >= 3 => a >= 2) /\ (a >= 6 => a >= 5)
  BY <1>2
<1>7. ASSUME q.table = "Story" PROVE SitsStory(u, q, a)'
  <2>1. q.lesson \in Lessons /\ SitsStory(u, q, a)
    BY <1>2, <1>7, PlaceShapes DEF SitsWhat
  <2> QED BY <2>1, <1>3, <1>5, <1>6 DEF SitsStory
<1>8. ASSUME q.table = "TopicEvent" PROVE SitsEvent(u, q, a)'
  <2>1. q.topic \in Topics /\ SitsEvent(u, q, a)
    BY <1>2, <1>8, PlaceShapes DEF SitsWhat
  <2> QED BY <2>1, <1>3, <1>5, <1>6 DEF SitsEvent
<1>9. ASSUME q.table = "Lesson" PROVE SitsLesson(u, q, a)'
  <2>1. q.lesson \in Lessons /\ SitsLesson(u, q, a)
    BY <1>2, <1>9, PlaceShapes DEF SitsWhat
  <2> QED BY <2>1, <1>3, <1>5, <1>6 DEF SitsLesson
<1>10. ASSUME q.table = "Topic" PROVE SitsTopic(u, q, a)'
  <2>1. q.topic \in Topics /\ SitsTopic(u, q, a)
    BY <1>2, <1>10, PlaceShapes DEF SitsWhat
  <2>2. a >= 2 => Has(u, "Topic", q.topic, "update") /\ Has(u, "Topic", q.topic, "update")'
    BY <2>1, <1>3 DEF SitsTopic
  <2>3. a >= 3 => \A r \in Of("TopicEvent")' : r.topic = q.topic => topicLesson'[q.topic] = q.lesson
    BY <2>1, <2>2, <1>5, <1>6 DEF SitsTopic
  <2>4. a >= 4 => \A e \in Exercises : place'[e].topic = q.topic => place'[e].lesson = q.lesson
    <3>1. a >= 4 => \A e \in Exercises : place[e].topic = q.topic => place[e].lesson = q.lesson
      BY <2>1 DEF SitsTopic
    <3>2. a >= 4 => \A e \in Exercises : place'[e].topic = q.topic => place'[e] = place[e]
      BY <2>1, <2>2, <1>5, <1>6
    <3> QED BY <3>1, <3>2
  <2> QED BY <2>2, <2>3, <2>4 DEF SitsTopic
<1>11. ASSUME q.table = "LessonExercise" PROVE SitsExercise(u, q, a)'
  <2>1. q.place.topic \in Topics \cup {None} /\ SitsExercise(u, q, a)
    BY <1>2, <1>11, PlaceShapes DEF SitsWhat, Places
  <2> QED BY <2>1, <1>3, <1>5, <1>6 DEF SitsExercise
<1> QED BY <1>7, <1>8, <1>9, <1>10, <1>11 DEF SitsWhat

LEMMA CommitPlaces ==
  ASSUME CurriculumInv, PlacesInv, NEW t \in Transactions, Commit(t)
  PROVE  PlacesInv'
<1>1. PICK s : s = txn[t].statement
  OBVIOUS
<1>2. /\ s \in AllStatements /\ SitsWhat(t, s, 7)
      /\ rows' = rows \/ (rows' = rows \cup {s} /\ s.table \notin {"Lesson", "Topic", "LessonExercise"})
      /\ \/ lessonLevel' = lessonLevel
         \/ s.table = "Lesson" /\ lessonLevel' = [lessonLevel EXCEPT ![s.lesson] = s.level]
      /\ \/ topicLesson' = topicLesson
         \/ s.table = "Topic" /\ topicLesson' = [topicLesson EXCEPT ![s.topic] = s.lesson]
      /\ \/ place' = place
         \/ s.table = "LessonExercise" /\ place' = [place EXCEPT ![s.exercise] = s.place]
  BY <1>1, PlaceEffects
<1>3. PlaceTypes /\ PlacesAgree /\ rows \subseteq AllStatements
  BY DEF PlacesInv, CurriculumInv, CurriculumTypes, AllStatements
<1>4. PlaceTypes'
  BY <1>2, <1>3, PlaceShapes DEF PlaceTypes
<1>5. /\ s.table = "Story" => lessonLevel[s.lesson] = s.level
      /\ s.table = "TopicEvent" => topicLesson[s.topic] = s.lesson
      /\ s.table = "Lesson" => \A r \in Of("Story") : r.lesson = s.lesson => r.level = s.level
      /\ s.table = "Topic" =>
           /\ \A r \in Of("TopicEvent") : r.topic = s.topic => topicLesson[s.topic] = s.lesson
           /\ \A e \in Exercises : place[e].topic = s.topic => place[e].lesson = s.lesson
      /\ s.table = "LessonExercise" =>
           (s.place.topic # None => topicLesson[s.place.topic] = s.place.lesson)
  BY <1>2 DEF SitsWhat, SitsStory, SitsEvent, SitsLesson, SitsTopic, SitsExercise
<1>6. ASSUME NEW r \in Of("Story")' PROVE r.level = lessonLevel'[r.lesson]
  <2>1. r \in rows' /\ r.table = "Story"
    BY <1>6 DEF Of
  <2>2. CASE r \in rows
    <3>1. r \in Of("Story") /\ r.lesson \in Lessons /\ r.level = lessonLevel[r.lesson]
      BY <2>1, <2>2, <1>3, PlaceShapes DEF Of, PlacesAgree
    <3> QED BY <3>1, <1>2, <1>3, <1>5 DEF PlaceTypes
  <2>3. CASE r \notin rows
    <3>1. r = s /\ s.table = "Story" /\ lessonLevel' = lessonLevel
      BY <2>1, <2>3, <1>2
    <3> QED BY <3>1, <1>5
  <2> QED BY <2>2, <2>3
<1>7. ASSUME NEW r \in Of("TopicEvent")' PROVE topicLesson'[r.topic] = r.lesson
  <2>1. r \in rows' /\ r.table = "TopicEvent"
    BY <1>7 DEF Of
  <2>2. CASE r \in rows
    <3>1. r \in Of("TopicEvent") /\ r.topic \in Topics /\ topicLesson[r.topic] = r.lesson
      BY <2>1, <2>2, <1>3, PlaceShapes DEF Of, PlacesAgree
    <3> QED BY <3>1, <1>2, <1>3, <1>5 DEF PlaceTypes
  <2>3. CASE r \notin rows
    <3>1. r = s /\ s.table = "TopicEvent" /\ topicLesson' = topicLesson
      BY <2>1, <2>3, <1>2
    <3> QED BY <3>1, <1>5
  <2> QED BY <2>2, <2>3
<1>8. ASSUME NEW e \in Exercises, place'[e].topic # None
      PROVE  topicLesson'[place'[e].topic] = place'[e].lesson
  <2>1. CASE s.table = "Topic"
    <3>1. place' = place /\ place[e] \in Places
      BY <2>1, <1>2, <1>3 DEF PlaceTypes
    <3>2. place[e].topic \in Topics /\ topicLesson[place[e].topic] = place[e].lesson
      BY <3>1, <1>3, <1>8 DEF PlacesAgree, Places
    <3> QED BY <2>1, <3>1, <3>2, <1>2, <1>3, <1>5 DEF PlaceTypes
  <2>2. CASE s.table # "Topic"
    <3>1. topicLesson' = topicLesson
      BY <2>2, <1>2
    <3>2. place'[e] = place[e] \/ (s.table = "LessonExercise" /\ place'[e] = s.place)
      BY <1>2, <1>3 DEF PlaceTypes
    <3> QED BY <3>1, <3>2, <1>3, <1>5, <1>8 DEF PlacesAgree
  <2> QED BY <2>1, <2>2
<1>9. ASSUME NEW u \in Transactions, Running(u)' PROVE Sits(u)'
  <2>1. txn' = [txn EXCEPT ![t].state = "committed"] /\ txn \in [Transactions -> TxnRecord]
    BY DEF Commit, CurriculumInv, CurriculumTypes
  <2>2. txn'[t].state = "committed" /\ \A v \in Transactions \ {t} : txn'[v] = txn[v]
    BY <2>1 DEF TxnRecord
  <2>3. u # t /\ Running(u)
    BY <2>2, <1>9 DEF Running
  <2> QED BY <2>3, OthersSit
<1> QED BY <1>4, <1>6, <1>7, <1>8, <1>9 DEF PlacesInv, PlacesAgree

\* A step of t that writes nothing but its own record and its own locks.
LEMMA QuietPlaces ==
  ASSUME PlacesInv, NEW t \in Transactions, UNCHANGED <<parents, rows>>,
         \A u \in Transactions \ {t} : txn'[u] = txn[u],
         Running(t)' => Sits(t)',
         \A l \in locks : l.holder # t => l \in locks'
  PROVE  PlacesInv'
<1>1. /\ lessonLevel' = lessonLevel /\ topicLesson' = topicLesson /\ place' = place
      /\ \A table : Of(table)' = Of(table)
  BY DEF parents, Of
<1>2. PlaceTypes' /\ PlacesAgree'
  BY <1>1 DEF PlacesInv, PlaceTypes, PlacesAgree
<1>3. ASSUME NEW u \in Transactions, Running(u)', u # t PROVE Sits(u)'
  <2>1. txn'[u] = txn[u] /\ Running(u) /\ Sits(u)
    BY <1>3 DEF PlacesInv, Running
  <2>2. \A table, id, mode : Has(u, table, id, mode) => Has(u, table, id, mode)'
    <3>1. \A table, id, mode : [holder |-> u, row |-> <<table, id>>, mode |-> mode].holder = u
      OBVIOUS
    <3> QED BY <1>3, <3>1 DEF Has
  <2>3. PICK q, a : q = txn[u].statement /\ a = txn[u].at /\ SitsWhat(u, q, a)
    BY <2>1 DEF Sits
  <2>4. /\ SitsStory(u, q, a) => SitsStory(u, q, a)'
        /\ SitsEvent(u, q, a) => SitsEvent(u, q, a)'
        /\ SitsLesson(u, q, a) => SitsLesson(u, q, a)'
        /\ SitsTopic(u, q, a) => SitsTopic(u, q, a)'
        /\ SitsExercise(u, q, a) => SitsExercise(u, q, a)'
    BY <1>1, <2>2 DEF SitsStory, SitsEvent, SitsLesson, SitsTopic, SitsExercise
  <2>5. SitsWhat(u, q, a)'
    BY <2>3, <2>4 DEF SitsWhat
  <2> QED BY <2>1, <2>3, <2>5 DEF Sits
<1> QED BY <1>2, <1>3 DEF PlacesInv

LEMMA EndingPlaces ==
  ASSUME CurriculumInv, PlacesInv, NEW t \in Transactions,
         NEW state \in Outcomes \ {"idle", "running"}, Ends(t, state)
  PROVE  PlacesInv'
<1>1. txn' = [txn EXCEPT ![t].state = state] /\ locks' = {l \in locks : l.holder # t}
  BY DEF Ends, Release
<1>2. txn \in [Transactions -> TxnRecord]
  BY DEF CurriculumInv, CurriculumTypes
<1>3. txn'[t].state = state /\ \A u \in Transactions \ {t} : txn'[u] = txn[u]
  BY <1>1, <1>2 DEF TxnRecord
<1>4. ~Running(t)'
  BY <1>3 DEF Running
<1>5. UNCHANGED <<parents, rows>>
  BY DEF Ends
<1> QED BY <1>1, <1>3, <1>4, <1>5, QuietPlaces

LEMMA AdvancingPlaces ==
  ASSUME CurriculumInv, PlacesInv, NEW t \in Transactions, Running(t), ~Finished(t),
         NEW seen, NEW lessons, Advances(t, seen, lessons), Step(t).do # "lock",
         Step(t).do \in PlaceChecks => Passes(txn[t].statement, Step(t).do)
  PROVE  PlacesInv'
<1>1. /\ txn' = [txn EXCEPT ![t].at = @ + 1, ![t].seen = seen, ![t].lessons = lessons]
      /\ UNCHANGED <<parents, rows>> /\ locks' = locks
  BY DEF Advances
<1>2. txn \in [Transactions -> TxnRecord] /\ txn[t] \in TxnRecord
  BY DEF CurriculumInv, CurriculumTypes
<1>3. PICK x, v : x = txn[t] /\ v = [x EXCEPT !.at = @ + 1, !.seen = seen, !.lessons = lessons]
  OBVIOUS
<1>4. v.statement = x.statement /\ v.at = x.at + 1
  <2>1. x = [state |-> x.state, statement |-> x.statement, at |-> x.at, seen |-> x.seen,
             lessons |-> x.lessons]
    BY <1>2, <1>3 DEF TxnRecord
  <2>2. v = [state |-> x.state, statement |-> x.statement, at |-> x.at + 1, seen |-> seen,
             lessons |-> lessons]
    BY <1>3, <2>1
  <2> QED BY <2>2
<1>5. txn' = [txn EXCEPT ![t] = v]
  BY <1>1, <1>3
<1>6. /\ txn'[t].statement = txn[t].statement /\ txn'[t].at = txn[t].at + 1
      /\ \A u \in Transactions \ {t} : txn'[u] = txn[u]
  BY <1>2, <1>3, <1>4, <1>5
<1>7. PlaceMoves(t)
  BY <1>1, <1>6, Zenon DEF PlaceMoves, parents
<1>8. Sits(t)'
  BY <1>7, PlaceMovesKeep
<1> QED BY <1>1, <1>6, <1>8, QuietPlaces

LEMMA BeginPlaces ==
  ASSUME CurriculumInv, PlacesInv, NEW t \in Transactions, Begin(t)
  PROVE  PlacesInv'
<1>1. PICK s \in Statements : txn' = [txn EXCEPT ![t].state = "running", ![t].statement = s]
  BY DEF Begin
<1>2. txn \in [Transactions -> TxnRecord] /\ txn[t] \in TxnRecord /\ txn[t].at = 1
  BY DEF Begin, CurriculumInv, CurriculumTypes
<1>3. PICK x, v : x = txn[t] /\ v = [x EXCEPT !.state = "running", !.statement = s]
  OBVIOUS
<1>4. v.at = 1
  BY <1>2, <1>3 DEF TxnRecord
<1>5. txn' = [txn EXCEPT ![t] = v]
  BY <1>1, <1>3
<1>6. txn'[t].at = 1 /\ \A u \in Transactions \ {t} : txn'[u] = txn[u]
  BY <1>2, <1>4, <1>5
<1>7. Sits(t)'
  <2>1. PICK q : q = txn'[t].statement
    OBVIOUS
  <2>2. SitsWhat(t, q, 1)'
    BY DEF SitsWhat, SitsStory, SitsEvent, SitsLesson, SitsTopic, SitsExercise
  <2> QED BY <2>1, <2>2, <1>6 DEF Sits
<1>8. UNCHANGED <<parents, rows>> /\ locks' = locks
  BY DEF Begin
<1> QED BY <1>6, <1>7, <1>8, QuietPlaces

LEMMA AcquirePlaces ==
  ASSUME CurriculumInv, PlacesInv, NEW t \in Transactions, Acquire(t)
  PROVE  PlacesInv'
<1>1. PICK k : k = [holder |-> t, row |-> Step(t).row, mode |-> Step(t).mode]
  OBVIOUS
<1>2. /\ Running(t) /\ ~Finished(t) /\ Step(t).do = "lock"
      /\ locks' = locks \cup {k}
      /\ txn' = [txn EXCEPT ![t].at = @ + 1]
      /\ UNCHANGED <<parents, rows>>
  BY <1>1 DEF Acquire, AtLock, AtCheck
<1>3. txn \in [Transactions -> TxnRecord] /\ txn[t] \in TxnRecord
  BY DEF CurriculumInv, CurriculumTypes
<1>4. PICK x, v : x = txn[t] /\ v = [x EXCEPT !.at = @ + 1]
  OBVIOUS
<1>5. v.statement = x.statement /\ v.at = x.at + 1
  BY <1>3, <1>4 DEF TxnRecord
<1>6. txn' = [txn EXCEPT ![t] = v]
  BY <1>2, <1>4
<1>7. /\ txn'[t].statement = txn[t].statement /\ txn'[t].at = txn[t].at + 1
      /\ \A u \in Transactions \ {t} : txn'[u] = txn[u]
  BY <1>3, <1>4, <1>5, <1>6
<1>8. PlaceMoves(t)
  <2>1. "lock" \notin PlaceChecks
    BY Zenon DEF PlaceChecks, StoryLevel, EventTopic, LessonStories, MovedEvents, MovedChildren, ExerciseTopic
  <2>2. Step(t).do \notin PlaceChecks
    BY <1>2, <2>1
  <2>3. UNCHANGED <<lessonLevel, topicLesson, place, rows>>
    BY <1>2 DEF parents
  <2> QED BY <1>1, <1>2, <1>7, <2>2, <2>3 DEF PlaceMoves
<1>9. Sits(t)'
  BY <1>8, PlaceMovesKeep
<1> QED BY <1>2, <1>7, <1>9, QuietPlaces

LEMMA CheckPlaces ==
  ASSUME CurriculumInv, PlacesInv, NEW t \in Transactions, CheckIntegrity(t)
  PROVE  PlacesInv'
<1>1. Running(t) /\ ~Finished(t) /\ Step(t).do # "lock"
  BY Zenon DEF CheckIntegrity
<1>2. CASE Passes(txn[t].statement, Step(t).do)
  <2>1. Advances(t, txn[t].seen, txn[t].lessons)
    BY <1>2, Zenon DEF CheckIntegrity
  <2> QED BY <1>1, <1>2, <2>1, AdvancingPlaces
<1>3. CASE ~Passes(txn[t].statement, Step(t).do)
  <2>1. Ends(t, "refused")
    BY <1>3, Zenon DEF CheckIntegrity
  <2> QED BY <2>1, EndingPlaces DEF Outcomes
<1> QED BY <1>2, <1>3

\* The steps of OnboardingService are not about places.
LEMMA ServicePlaces ==
  ASSUME CurriculumInv, PlacesInv, NEW t \in Transactions,
         CompareGoal(t) \/ ReadGoal(t) \/ ComparePlan(t) \/ CheckUnique(t)
  PROVE  PlacesInv'
<1>1. Running(t) /\ ~Finished(t) /\ Step(t).do \in ServiceSteps
  <2>1. \/ AtCheck(t, "same goal") \/ AtCheck(t, "goal") \/ AtCheck(t, "same plan")
        \/ AtCheck(t, "one goal") \/ AtCheck(t, "one plan")
    BY Zenon DEF CompareGoal, ReadGoal, ComparePlan, CheckUnique
  <2>2. /\ "same goal" \in ServiceSteps /\ "goal" \in ServiceSteps /\ "same plan" \in ServiceSteps
        /\ "one goal" \in ServiceSteps /\ "one plan" \in ServiceSteps
    BY Zenon DEF ServiceSteps
  <2> QED BY <2>1, <2>2, Zenon DEF AtCheck
<1>2. Step(t).do # "lock" /\ Step(t).do \notin PlaceChecks
  <2>1. \A what \in ServiceSteps : what # "lock" /\ what \notin PlaceChecks
    BY Zenon DEF ServiceSteps, PlaceChecks, StoryLevel, EventTopic, LessonStories, MovedEvents,
                 MovedChildren, ExerciseTopic
  <2> QED BY <1>1, <2>1
<1>3. CASE CompareGoal(t) \/ ComparePlan(t) \/ CheckUnique(t)
  <2>1. \/ Ends(t, "done") \/ Ends(t, "refused") \/ Ends(t, "conflict")
        \/ Advances(t, goal[User(t)], {})
        \/ Advances(t, plan[User(t)], ReadyLessons(txn[t].statement.level))
        \/ Advances(t, txn[t].seen, txn[t].lessons)
    BY <1>3, Zenon DEF CompareGoal, ComparePlan, CheckUnique
  <2> QED BY <1>1, <1>2, <2>1, AdvancingPlaces, EndingPlaces DEF Outcomes
<1>4. CASE ReadGoal(t)
  <2>1. CASE goal[User(t)] = None
    <3>1. Ends(t, "refused")
      BY <1>4, <2>1 DEF ReadGoal
    <3> QED BY <3>1, EndingPlaces DEF Outcomes
  <2>2. CASE goal[User(t)] # None
    <3>1. PICK s, g : s = txn[t].statement /\ g = goal[User(t)]
      OBVIOUS
    <3>2. /\ txn' = [txn EXCEPT ![t].at = @ + 1, ![t].statement.level = g.level, ![t].statement.band = g.band]
          /\ UNCHANGED <<parents, rows>> /\ locks' = locks
      BY <1>4, <2>2, <3>1 DEF ReadGoal
    <3>3. s.table = "LearningPlan" /\ s \in Plans \cup PlanRequests
      <4>1. Step(t).do = "goal"
        BY <1>4 DEF ReadGoal, AtCheck
      <4>2. s.table = "LearningPlan"
        BY <1>1, <3>1, <4>1, AccountOf
      <4> QED BY <1>1, <3>1, <4>2, Shapes DEF CurriculumInv, CurriculumTypes
    <3>4. PICK q : q = [s EXCEPT !.level = g.level, !.band = g.band]
      OBVIOUS
    <3>5. q.table = "LearningPlan"
      <4>1. s = [table |-> s.table, user |-> s.user, level |-> s.level, band |-> s.band]
        BY <3>3 DEF Plans, PlanRequests
      <4>2. q = [table |-> s.table, user |-> s.user, level |-> g.level, band |-> g.band]
        BY <3>4, <4>1
      <4> QED BY <3>3, <4>2
    <3>6. txn \in [Transactions -> TxnRecord] /\ txn[t] \in TxnRecord
      BY DEF CurriculumInv, CurriculumTypes
    <3>7. PICK x, v : x = txn[t] /\ v = [x EXCEPT !.at = @ + 1, !.statement = q]
      OBVIOUS
    <3>8. txn' = [txn EXCEPT ![t] = v]
      BY <3>1, <3>2, <3>4, <3>7
    <3>9. v.statement = q
      BY <3>6, <3>7 DEF TxnRecord
    <3>10. txn'[t].statement = q /\ \A u \in Transactions \ {t} : txn'[u] = txn[u]
      BY <3>6, <3>8, <3>9
    <3>11. Sits(t)'
      BY <3>5, <3>10 DEF Sits, SitsWhat
    <3> QED BY <3>2, <3>10, <3>11, QuietPlaces
  <2> QED BY <2>1, <2>2
<1> QED BY <1>3, <1>4

\* Stories, exercises and topic events stay where their lesson and topic are, also when
\* those move.
THEOREM PlacesAlwaysAgree == Spec => []PlacesAgree
<1>1. Init => PlacesInv
  <2> SUFFICES ASSUME Init PROVE PlacesInv
    OBVIOUS
  <2>1. PlaceTypes
    BY SeedAssumption DEF Init, PlaceTypes
  <2>2. PlacesAgree
    BY SeedAssumption DEF Init, PlacesAgree, Of
  <2>3. \A t \in Transactions : ~Running(t)
    BY DEF Init, Idle, Running
  <2> QED BY <2>1, <2>2, <2>3 DEF PlacesInv
<1>2. CurriculumInv /\ PlacesInv /\ [Next]_vars => PlacesInv'
  <2> SUFFICES ASSUME CurriculumInv, PlacesInv, [Next]_vars PROVE PlacesInv'
    OBVIOUS
  <2>1. CASE Next
    <3>1. PICK t \in Transactions :
            \/ Begin(t) \/ Acquire(t) \/ CheckIntegrity(t) \/ CompareGoal(t) \/ ReadGoal(t)
            \/ ComparePlan(t) \/ CheckUnique(t) \/ Commit(t) \/ Abort(t)
      BY <2>1 DEF Next
    <3>2. Abort(t) => PlacesInv'
      BY EndingPlaces DEF Abort, Outcomes
    <3> QED BY <3>1, <3>2, BeginPlaces, AcquirePlaces, CheckPlaces, ServicePlaces, CommitPlaces
  <2>2. CASE UNCHANGED vars
    <3>1. UNCHANGED <<lessonLevel, topicLesson, place, rows>> /\ txn' = txn /\ locks' = locks
      BY <2>2 DEF vars
    <3>2. PlaceTypes' /\ PlacesAgree'
      BY <3>1 DEF PlacesInv, PlaceTypes, PlacesAgree, Of
    <3>3. ASSUME NEW t \in Transactions, Running(t)' PROVE Sits(t)'
      <4>1. Sits(t)
        BY <3>1, <3>3 DEF PlacesInv, Running
      <4>2. PICK s, a : s = txn[t].statement /\ a = txn[t].at /\ SitsWhat(t, s, a)
        BY <4>1 DEF Sits
      <4>3. SitsWhat(t, s, a)'
        BY <3>1, <4>2 DEF SitsWhat, SitsStory, SitsEvent, SitsLesson, SitsTopic, SitsExercise, Has, Of
      <4> QED BY <3>1, <4>2, <4>3 DEF Sits
    <3> QED BY <3>2, <3>3 DEF PlacesInv
  <2> QED BY <2>1, <2>2
<1>3. PlacesInv => PlacesAgree
  BY DEF PlacesInv
<1> QED BY <1>1, <1>2, <1>3, CurriculumInvariance, PTL DEF Spec

-----------------------------------------------------------------------------
(***************************************************************************)
(* The copy of an export, for any history of the learner and any size of    *)
(* the pages.                                                              *)
(*                                                                         *)
(* A page holds the least ids that are left, so the pages read so far are  *)
(* the rows of the snapshot up to an id, in order; and every snapshot hangs *)
(* together because transactions commit whole.                             *)
(***************************************************************************)

LEMMA SameCardinality == (\A x : S!Cardinality(x) = Cardinality(x))
  BY DEF S!Cardinality, Cardinality

\* The rows of a table that has ids: positive, and no two the same.
Identified(rs) ==
  /\ IsFiniteSet(rs)
  /\ \A e \in rs : e[1] \in Nat \ {0}
  /\ \A e, f \in rs : e[1] = f[1] => e = f

Before(rs, row) == {x \in rs : x[1] < row[1]}

\* The number of rows before a row numbers the rows in the order of their ids.
LEMMA Ranks ==
  ASSUME NEW rs, Identified(rs)
  PROVE  /\ Cardinality(rs) \in Nat
         /\ \A x \in rs : Cardinality(Before(rs, x)) \in 0 .. Cardinality(rs) - 1
         /\ \A x, y \in rs : x[1] < y[1] => Cardinality(Before(rs, x)) < Cardinality(Before(rs, y))
         /\ \A i \in 0 .. Cardinality(rs) - 1 : \E x \in rs : Cardinality(Before(rs, x)) = i
<1>1. IsFiniteSet(rs) /\ Cardinality(rs) \in Nat
  BY FS_CardinalityType DEF Identified
<1>2. \A x \in rs : x[1] \in Nat \ {0}
  BY DEF Identified
<1>3. ASSUME NEW x \in rs
      PROVE  /\ IsFiniteSet(Before(rs, x)) /\ Cardinality(Before(rs, x)) \in Nat /\ x \notin Before(rs, x)
             /\ Before(rs, x) \cup {x} \subseteq rs
             /\ Cardinality(Before(rs, x) \cup {x}) = Cardinality(Before(rs, x)) + 1
  <2>1. Before(rs, x) \in SUBSET rs /\ x \notin Before(rs, x)
    BY <1>2 DEF Before
  <2>2. IsFiniteSet(Before(rs, x))
    BY <1>1, <2>1, FS_Subset
  <2>3. Cardinality(Before(rs, x) \cup {x}) = Cardinality(Before(rs, x)) + 1
    BY <2>1, <2>2, FS_AddElement
  <2> QED BY <2>1, <2>2, <2>3, FS_CardinalityType
<1>4. ASSUME NEW x \in rs PROVE Cardinality(Before(rs, x)) \in 0 .. Cardinality(rs) - 1
  <2>1. Before(rs, x) \cup {x} \in SUBSET rs
    BY <1>3
  <2>2. Cardinality(Before(rs, x) \cup {x}) <= Cardinality(rs)
    BY <1>1, <2>1, FS_Subset
  <2> QED BY <1>1, <1>3, <2>2
<1>5. ASSUME NEW x \in rs, NEW y \in rs, x[1] < y[1]
      PROVE  Cardinality(Before(rs, x)) < Cardinality(Before(rs, y))
  <2>1. Before(rs, x) \cup {x} \in SUBSET Before(rs, y)
    BY <1>2, <1>5 DEF Before
  <2>2. Cardinality(Before(rs, x) \cup {x}) <= Cardinality(Before(rs, y))
    BY <1>3, <2>1, FS_Subset
  <2>3. PICK m, n, k : /\ m = Cardinality(Before(rs, x)) /\ n = Cardinality(Before(rs, y))
                       /\ k = Cardinality(Before(rs, x) \cup {x})
    OBVIOUS
  <2>4. m \in Nat /\ n \in Nat /\ k = m + 1
    BY <1>3, <2>3
  <2>5. m < n
    BY <2>2, <2>3, <2>4
  <2> QED BY <2>3, <2>5
<1>6. ASSUME NEW i \in 0 .. Cardinality(rs) - 1 PROVE \E x \in rs : Cardinality(Before(rs, x)) = i
  <2>1. PICK n : n = Cardinality(rs)
    OBVIOUS
  <2>2. PICK rank : rank = [x \in rs |-> Cardinality(Before(rs, x))]
    OBVIOUS
  <2>3. rank \in [rs -> 0 .. n - 1]
    BY <1>4, <2>1, <2>2
  <2>4. \A x, y \in rs : rank[x] = rank[y] => x = y
    <3>1. \A x, y \in rs : x[1] = y[1] => x = y
      BY DEF Identified
    <3>2. \A x, y \in rs : x[1] < y[1] => rank[x] < rank[y]
      BY <1>5, <2>2
    <3>3. SUFFICES ASSUME NEW x \in rs, NEW y \in rs, rank[x] = rank[y], x[1] # y[1] PROVE FALSE
      BY <3>1
    <3>4. x[1] < y[1] \/ y[1] < x[1]
      BY <1>2, <3>3
    <3>5. rank[x] \in Int /\ rank[y] \in Int
      BY <2>3
    <3> QED BY <3>2, <3>3, <3>4, <3>5
  <2>5. rank \in Injection(rs, 0 .. n - 1)
    BY <2>3, <2>4 DEF Injection, IsInjective
  <2>6. IsFiniteSet(0 .. n - 1) /\ Cardinality(0 .. n - 1) = n
    BY <1>1, <2>1, FS_Interval
  <2>7. rank \in Surjection(rs, 0 .. n - 1)
    BY <2>1, <2>5, <2>6, FS_Injection
  <2>8. PICK x \in rs : rank[x] = i
    BY <2>1, <2>7 DEF Surjection
  <2> QED BY <2>2, <2>8
<1> QED BY <1>1, <1>4, <1>5, <1>6

\* A page is the next rows in the order of their ids.
LEMMA Pages ==
  ASSUME at \in S!Paged, Identified(S!Rest)
  PROVE  \E n \in Nat :
           /\ S!Page \in [1 .. n -> S!Rest] /\ (n = 0 <=> S!Rest = {}) /\ (S!Page = <<>> <=> n = 0)
           /\ \A i, j \in 1 .. n : i < j => S!Page[i][1] < S!Page[j][1]
           /\ n > 0 => \A x \in S!Rest : x[1] <= S!Page[n][1] => \E i \in 1 .. n : S!Page[i] = x
<1>1. PICK rs, pg : rs = S!Rest /\ pg = S!Page
  OBVIOUS
<1>2. PICK c : c = Cardinality(rs)
  OBVIOUS
<1>3. PICK n : n = IF c < PageSize THEN c ELSE PageSize
  OBVIOUS
<1> DEFINE before(row) == {x \in S!Rest : x[1] < row[1]}
           picked(i) == CHOOSE row \in S!Rest : S!Cardinality(before(row)) = i - 1
<1>4. /\ c \in Nat
      /\ \A x \in rs : Cardinality(Before(rs, x)) \in 0 .. c - 1
      /\ \A x, y \in rs : x[1] < y[1] => Cardinality(Before(rs, x)) < Cardinality(Before(rs, y))
      /\ \A i \in 0 .. c - 1 : \E x \in rs : Cardinality(Before(rs, x)) = i
  BY <1>1, <1>2, Ranks
<1>5. n \in Nat /\ n <= c /\ PageSize \in Nat \ {0} /\ (n = 0 <=> c = 0)
  BY <1>3, <1>4, IntegrityAssumption
<1>6. c = 0 <=> rs = {}
  BY <1>1, <1>2, FS_EmptySet DEF Identified
<1>7. pg = [i \in 1 .. n |-> picked(i)]
  <2>1. PICK m : m = IF S!Cardinality(S!Rest) < PageSize THEN S!Cardinality(S!Rest) ELSE PageSize
    OBVIOUS
  <2>2. m = n
    BY <1>1, <1>2, <1>3, <2>1, SameCardinality
  <2>3. S!Page = [i \in 1 .. m |-> picked(i)]
    BY <2>1, Zenon DEF S!Page
  <2> QED BY <1>1, <2>2, <2>3
<1>8. ASSUME NEW i \in 1 .. n PROVE pg[i] \in rs /\ Cardinality(Before(rs, pg[i])) = i - 1
  <2>1. pg[i] = picked(i)
    BY <1>7
  <2>2. i - 1 \in 0 .. c - 1
    BY <1>4, <1>5
  <2>3. PICK row \in rs : Cardinality(Before(rs, row)) = i - 1
    BY <1>4, <2>2
  <2>4. \A x : S!Cardinality(before(x)) = Cardinality(Before(rs, x))
    BY <1>1, SameCardinality DEF Before
  <2>5. row \in S!Rest /\ S!Cardinality(before(row)) = i - 1
    BY <1>1, <2>3, <2>4
  <2>6. pg[i] \in S!Rest /\ S!Cardinality(before(pg[i])) = i - 1
    <3> HIDE DEF before
    <3> QED BY <2>1, <2>5, Zenon
  <2> QED BY <1>1, <2>4, <2>6
<1>9. pg \in [1 .. n -> rs]
  BY <1>7, <1>8
<1>10. pg = <<>> <=> n = 0
  BY <1>5, <1>9
<1>11. \A x \in rs : x[1] \in Nat
  BY <1>1 DEF Identified
<1>12. ASSUME NEW i \in 1 .. n, NEW j \in 1 .. n, i < j PROVE pg[i][1] < pg[j][1]
  <2>1. pg[i] \in rs /\ pg[j] \in rs /\ Cardinality(Before(rs, pg[i])) = i - 1 /\ Cardinality(Before(rs, pg[j])) = j - 1
    BY <1>8
  <2>2. pg[i][1] # pg[j][1]
    <3>1. pg[i][1] = pg[j][1] => pg[i] = pg[j]
      BY <1>1, <2>1 DEF Identified
    <3> QED BY <3>1, <2>1, <1>12, <1>5
  <2>3. ~(pg[j][1] < pg[i][1])
    <3>1. pg[j][1] < pg[i][1] => Cardinality(Before(rs, pg[j])) < Cardinality(Before(rs, pg[i]))
      BY <1>4, <2>1
    <3> QED BY <3>1, <2>1, <1>12, <1>5
  <2> QED BY <1>11, <2>1, <2>2, <2>3
<1>13. ASSUME n > 0, NEW x \in rs, x[1] <= pg[n][1] PROVE \E i \in 1 .. n : pg[i] = x
  <2>1. PICK k : k = Cardinality(Before(rs, x))
    OBVIOUS
  <2>2. k \in 0 .. c - 1
    BY <1>4, <2>1
  <2>3. pg[n] \in rs /\ Cardinality(Before(rs, pg[n])) = n - 1
    BY <1>5, <1>8, <1>13
  <2>4. k <= n - 1
    <3>1. x[1] < pg[n][1] => k < n - 1
      BY <1>4, <2>1, <2>3
    <3>2. x[1] = pg[n][1] => x = pg[n]
      BY <1>1, <2>3 DEF Identified
    <3> QED BY <3>1, <3>2, <2>1, <2>2, <2>3, <1>5, <1>11, <1>13
  <2>5. k + 1 \in 1 .. n
    BY <2>2, <2>4, <1>5
  <2>6. pg[k + 1] \in rs /\ Cardinality(Before(rs, pg[k + 1])) = k
    BY <2>2, <2>5, <1>8
  <2>7. pg[k + 1] = x
    <3>1. ~(x[1] < pg[k + 1][1]) /\ ~(pg[k + 1][1] < x[1])
      BY <1>4, <2>1, <2>2, <2>6
    <3>2. x[1] = pg[k + 1][1]
      BY <3>1, <1>11, <2>6
    <3> QED BY <3>2, <2>6, <1>1 DEF Identified
  <2> QED BY <2>5, <2>7
<1> QED BY <1>1, <1>5, <1>6, <1>9, <1>10, <1>12, <1>13

\* The transactions of a kind that have committed.
Done(k) == {w \in Writes : tx[w] = "committed" /\ kind[w] = k}
Draws(w) == tx[w] # "idle" /\ kind[w] # "plan"

WriterInv ==
  /\ kind \in [Writes -> S!Kinds] /\ tx \in [Writes -> {"idle", "open", "committed"}]
  /\ eventId \in [Writes -> Nat] /\ nextId \in Nat \ {0}
  /\ \A w \in Writes : Draws(w) => eventId[w] \in 1 .. nextId - 1
  /\ \A v, w \in Writes : Draws(v) /\ Draws(w) /\ v # w => eventId[v] # eventId[w]
  /\ db = [t \in S!Tables |-> db[t]]
  /\ db["plans"] = Done("plan") /\ db["items"] = Done("plan")
  /\ db["attempts"] = Done("submit") /\ db["progress"] = Done("finish")
  /\ db["events"] = {<<eventId[w], w>> : w \in Done("submit") \cup Done("finish")}
  /\ Identified(db["reviews"]) /\ Identified(db["answers"])

\* What is true of every moment of the history.
Hangs(d) ==
  /\ d["items"] = d["plans"]
  /\ d["attempts"] = {e[2] : e \in {x \in d["events"] : kind[x[2]] = "submit"}}
  /\ d["progress"] = {e[2] : e \in {x \in d["events"] : kind[x[2]] = "finish"}}
  /\ Identified(d["reviews"]) /\ Identified(d["answers"]) /\ Identified(d["events"])

Ordered(s) == \A i, j \in 1 .. Len(s) : i < j => s[i][1] < s[j][1]
UpTo(t, l) ==
  /\ l \in Nat /\ got[t] \in Seq(snap[t]) /\ Ordered(got[t])
  /\ \A e \in snap[t] : e[1] <= l <=> \E i \in 1 .. Len(got[t]) : got[t][i] = e
Whole(t) ==
  /\ got[t] \in Seq(snap[t]) /\ Ordered(got[t])
  /\ \A e \in snap[t] : \E i \in 1 .. Len(got[t]) : got[t][i] = e

ReaderInv ==
  /\ at # "begin" => /\ Hangs(snap)
                     /\ snap["reviews"] = db["reviews"] /\ snap["answers"] = db["answers"]
  /\ got = [t \in S!Tables |-> got[t]]
  /\ at \notin {"begin", "plans", "large"} => got["plans"] = snap["plans"]
  /\ at \notin {"begin", "plans", "items", "large"} => got["items"] = snap["items"]
  /\ at \notin {"begin", "plans", "items", "attempts", "large"} => got["attempts"] = snap["attempts"]
  /\ at \notin {"begin", "plans", "items", "attempts", "progress", "large"} =>
       got["progress"] = snap["progress"]
PagesInv ==
  /\ at \in {"begin", "plans", "items", "attempts", "progress", "reviews", "answers", "static", "events",
             "payload", "large", "file"}
  /\ at \in {"begin", "plans", "items", "attempts", "progress"} => got["reviews"] = <<>>
  /\ at \in {"begin", "plans", "items", "attempts", "progress", "reviews"} => got["answers"] = <<>>
  /\ at \in {"begin", "plans", "items", "attempts", "progress", "reviews", "answers", "static"} =>
       got["events"] = <<>>
  /\ at \in {"begin", "plans", "items", "attempts", "progress", "static"} => last = 0
  /\ at \in S!Paged => UpTo(at, last)
  /\ at \in {"answers", "static", "events", "payload", "file"} => Whole("reviews")
  /\ at \in {"static", "events", "payload", "file"} => Whole("answers")
  /\ at \in {"payload", "file"} => Whole("events")

SnapshotInv == WriterInv /\ ReaderInv /\ PagesInv

\* Transactions commit whole, so every moment hangs together.
LEMMA EveryMoment == ASSUME WriterInv PROVE Hangs(db)
<1>1. PICK es : es = db["events"]
  OBVIOUS
<1>2. es = {<<eventId[w], w>> : w \in Done("submit") \cup Done("finish")}
  BY <1>1 DEF WriterInv
<1>3. \A e \in es : \E w \in Writes : e = <<eventId[w], w>> /\ Draws(w)
  BY <1>2 DEF Done, Draws
<1>4. Identified(es)
  <2>1. IsFiniteSet(es)
    <3>1. PICK f : f = [e \in es |-> e[2]]
      OBVIOUS
    <3>2. f \in [es -> Writes] /\ \A d, e \in es : f[d] = f[e] => d = e
      BY <1>3, <3>1
    <3>3. f \in Injection(es, Writes)
      BY <3>2 DEF Injection, IsInjective
    <3>4. IsFiniteSet(Writes)
      BY IntegrityAssumption
    <3> QED BY <3>3, <3>4, FS_Injection
  <2>2. \A e \in es : e[1] \in Nat \ {0}
    BY <1>3 DEF WriterInv
  <2>3. \A e, f \in es : e[1] = f[1] => e = f
    BY <1>3 DEF WriterInv
  <2> QED BY <2>1, <2>2, <2>3 DEF Identified
<1>5. ASSUME NEW k \in {"submit", "finish"}
      PROVE  Done(k) = {e[2] : e \in {x \in es : kind[x[2]] = k}}
  <2>1. ASSUME NEW w \in Done(k) PROVE w \in {e[2] : e \in {x \in es : kind[x[2]] = k}}
    <3>1. PICK e : e = <<eventId[w], w>>
      OBVIOUS
    <3>2. e \in es /\ e[2] = w /\ kind[e[2]] = k
      BY <1>2, <3>1 DEF Done
    <3> QED BY <3>2
  <2>2. ASSUME NEW e \in es, kind[e[2]] = k PROVE e[2] \in Done(k)
    <3>1. PICK w \in Done("submit") \cup Done("finish") : e = <<eventId[w], w>>
      BY <1>2
    <3>2. e[2] = w
      BY <3>1
    <3> QED BY <3>1, <3>2, <2>2 DEF Done
  <2> QED BY <2>1, <2>2
<1>6. Done("submit") = {e[2] : e \in {x \in es : kind[x[2]] = "submit"}}
  BY <1>5
<1>7. Done("finish") = {e[2] : e \in {x \in es : kind[x[2]] = "finish"}}
  BY <1>5
<1> QED BY <1>1, <1>4, <1>6, <1>7 DEF WriterInv, Hangs

\* The learner's steps leave the run alone, and what it may have read of the old rows.
LEMMA LearnerKeeps ==
  ASSUME SnapshotInv, NEW w \in Writes, S!Insert(w) \/ S!Commit(w)
  PROVE  SnapshotInv'
<1>1. WriterInv /\ ReaderInv /\ PagesInv
  BY DEF SnapshotInv
<1>2. kind' = kind /\ at' = at /\ snap' = snap /\ got' = got /\ last' = last
  BY DEF S!Insert, S!Commit, S!reader
<1>3. CASE S!Insert(w)
  <2>1. /\ tx[w] = "idle" /\ tx' = [tx EXCEPT ![w] = "open"] /\ db' = db
        /\ kind[w] = "plan" => eventId' = eventId /\ nextId' = nextId
        /\ kind[w] # "plan" => eventId' = [eventId EXCEPT ![w] = nextId] /\ nextId' = nextId + 1
    BY <1>3 DEF S!Insert
  <2>2. /\ tx' \in [Writes -> {"idle", "open", "committed"}]
        /\ eventId' \in [Writes -> Nat] /\ nextId' \in Nat \ {0} /\ nextId <= nextId'
    BY <1>1, <2>1 DEF WriterInv
  <2>3. \A v \in Writes \ {w} : tx'[v] = tx[v] /\ eventId'[v] = eventId[v] /\ (Draws(v)' <=> Draws(v))
    BY <1>1, <1>2, <2>1 DEF WriterInv, Draws
  <2>4. ~Draws(w) /\ (Draws(w)' => eventId'[w] = nextId /\ nextId' = nextId + 1)
    BY <1>1, <1>2, <2>1 DEF WriterInv, Draws
  <2>5. \A k : Done(k)' = Done(k)
    BY <1>1, <1>2, <2>1 DEF WriterInv, Done
  <2>6. \A v \in Done("submit") \cup Done("finish") : eventId'[v] = eventId[v]
    <3>1. w \notin Done("submit") \cup Done("finish")
      BY <2>1 DEF Done
    <3> QED BY <2>3, <3>1 DEF Done
  <2>7. \A v \in Writes : Draws(v)' => eventId'[v] \in 1 .. nextId' - 1
    <3>1. SUFFICES ASSUME NEW v \in Writes, Draws(v)' PROVE eventId'[v] \in 1 .. nextId' - 1
      OBVIOUS
    <3>2. CASE v = w
      BY <3>1, <3>2, <2>2, <2>4, <1>1 DEF WriterInv
    <3>3. CASE v # w
      <4>1. eventId'[v] = eventId[v] /\ eventId[v] \in 1 .. nextId - 1
        BY <3>1, <3>3, <2>3, <1>1 DEF WriterInv
      <4> QED BY <4>1, <2>2, <1>1 DEF WriterInv
    <3> QED BY <3>2, <3>3
  <2>8. \A u, v \in Writes : Draws(u)' /\ Draws(v)' /\ u # v => eventId'[u] # eventId'[v]
    <3>1. \A v \in Writes \ {w} : Draws(v)' => eventId'[v] = eventId[v] /\ eventId[v] \in 1 .. nextId - 1 /\ Draws(v)
      BY <2>3, <1>1 DEF WriterInv
    <3>2. \A v \in Writes \ {w} : Draws(v)' /\ Draws(w)' => eventId'[v] # eventId'[w]
      BY <3>1, <2>4, <1>1 DEF WriterInv
    <3>3. \A u, v \in Writes \ {w} : Draws(u)' /\ Draws(v)' /\ u # v => eventId'[u] # eventId'[v]
      BY <3>1, <1>1 DEF WriterInv
    <3> QED BY <3>2, <3>3
  <2>9. {<<eventId'[v], v>> : v \in Done("submit")' \cup Done("finish")'}
          = {<<eventId[v], v>> : v \in Done("submit") \cup Done("finish")}
    BY <2>5, <2>6
  <2>10. WriterInv'
    BY <1>1, <1>2, <2>1, <2>2, <2>5, <2>7, <2>8, <2>9 DEF WriterInv
  <2>11. ReaderInv' /\ PagesInv'
    BY <1>1, <1>2, <2>1 DEF ReaderInv, PagesInv, Hangs, UpTo, Whole
  <2> QED BY <2>10, <2>11 DEF SnapshotInv
<1>4. CASE S!Commit(w)
  <2>1. tx[w] = "open" /\ tx' = [tx EXCEPT ![w] = "committed"] /\ eventId' = eventId /\ nextId' = nextId
    BY <1>4 DEF S!Commit
  <2>2. tx' \in [Writes -> {"idle", "open", "committed"}]
    BY <1>1, <2>1 DEF WriterInv
  <2>3. \A v \in Writes : Draws(v)' <=> Draws(v)
    BY <1>1, <1>2, <2>1 DEF WriterInv, Draws
  <2>4. kind[w] \in {"plan", "submit", "finish"}
    BY <1>1 DEF WriterInv, S!Kinds
  <2>5. \A k : Done(k)' = IF kind[w] = k THEN Done(k) \cup {w} ELSE Done(k)
    BY <1>1, <1>2, <2>1 DEF WriterInv, Done
  <2>6. /\ kind[w] = "plan" => db' = [db EXCEPT !["plans"] = @ \cup {w}, !["items"] = @ \cup {w}]
        /\ kind[w] = "submit" =>
             db' = [db EXCEPT !["attempts"] = @ \cup {w}, !["events"] = @ \cup {<<eventId[w], w>>}]
        /\ kind[w] = "finish" =>
             db' = [db EXCEPT !["progress"] = @ \cup {w}, !["events"] = @ \cup {<<eventId[w], w>>}]
    BY <1>4 DEF S!Commit
  <2>7. S!Tables = {"plans", "items", "attempts", "progress", "reviews", "answers", "events"}
    BY DEF S!Tables, S!Plain, S!Paged
  <2>8. db = [t \in S!Tables |-> db[t]]
    BY <1>1 DEF WriterInv
  <2>9. /\ db' = [t \in S!Tables |-> db'[t]]
        /\ db'["reviews"] = db["reviews"] /\ db'["answers"] = db["answers"]
        /\ db'["plans"] = (IF kind[w] = "plan" THEN db["plans"] \cup {w} ELSE db["plans"])
        /\ db'["items"] = (IF kind[w] = "plan" THEN db["items"] \cup {w} ELSE db["items"])
        /\ db'["attempts"] = (IF kind[w] = "submit" THEN db["attempts"] \cup {w} ELSE db["attempts"])
        /\ db'["progress"] = (IF kind[w] = "finish" THEN db["progress"] \cup {w} ELSE db["progress"])
        /\ db'["events"] = (IF kind[w] = "plan" THEN db["events"] ELSE db["events"] \cup {<<eventId[w], w>>})
    <3>1. CASE kind[w] = "plan"
      BY <3>1, <2>6, <2>7, <2>8
    <3>2. CASE kind[w] = "submit"
      BY <3>2, <2>6, <2>7, <2>8
    <3>3. CASE kind[w] = "finish"
      BY <3>3, <2>6, <2>7, <2>8
    <3> QED BY <2>4, <3>1, <3>2, <3>3
  <2>10. db'["events"] = {<<eventId[v], v>> : v \in Done("submit")' \cup Done("finish")'}
    <3>1. Done("submit")' \cup Done("finish")' =
            IF kind[w] = "plan" THEN Done("submit") \cup Done("finish")
            ELSE Done("submit") \cup Done("finish") \cup {w}
      BY <2>4, <2>5
    <3>2. db["events"] = {<<eventId[v], v>> : v \in Done("submit") \cup Done("finish")}
      BY <1>1 DEF WriterInv
    <3> QED BY <2>9, <3>1, <3>2
  <2>11. WriterInv'
    <3>1. /\ kind' \in [Writes -> S!Kinds] /\ eventId' \in [Writes -> Nat] /\ nextId' \in Nat \ {0}
          /\ \A v \in Writes : Draws(v)' => eventId'[v] \in 1 .. nextId' - 1
          /\ \A u, v \in Writes : Draws(u)' /\ Draws(v)' /\ u # v => eventId'[u] # eventId'[v]
      BY <1>1, <1>2, <2>1, <2>3 DEF WriterInv
    <3>2. /\ db["plans"] = Done("plan") /\ db["items"] = Done("plan")
          /\ db["attempts"] = Done("submit") /\ db["progress"] = Done("finish")
          /\ Identified(db["reviews"]) /\ Identified(db["answers"])
      BY <1>1 DEF WriterInv
    <3>3. /\ db'["plans"] = Done("plan")' /\ db'["items"] = Done("plan")'
          /\ db'["attempts"] = Done("submit")' /\ db'["progress"] = Done("finish")'
      BY <2>5, <2>9, <3>2
    <3>4. Identified(db["reviews"])' /\ Identified(db["answers"])'
      BY <2>9, <3>2 DEF Identified
    <3>5. db' = [t \in S!Tables |-> db'[t]]
      BY <2>9
    <3>6. db'["events"] = {<<eventId'[v], v>> : v \in Done("submit")' \cup Done("finish")'}
      BY <2>1, <2>10
    <3> QED BY <2>2, <3>1, <3>3, <3>4, <3>5, <3>6 DEF WriterInv
  <2>12. ReaderInv' /\ PagesInv'
    BY <1>1, <1>2, <2>9 DEF ReaderInv, PagesInv, Hangs, UpTo, Whole
  <2> QED BY <2>11, <2>12 DEF SnapshotInv
<1> QED BY <1>3, <1>4

\* The steps that read no page.
LEMMA ReaderKeeps ==
  ASSUME SnapshotInv, S!Begin \/ S!Read \/ S!Static \/ S!Payload \/ S!Fail
  PROVE  SnapshotInv'
<1>1. WriterInv /\ ReaderInv /\ PagesInv
  BY DEF SnapshotInv
<1>2. UNCHANGED <<kind, tx, eventId, nextId, db>>
  BY DEF S!Begin, S!Read, S!Static, S!Payload, S!Fail, S!writers
<1>3. WriterInv'
  BY <1>1, <1>2 DEF WriterInv, Done, Draws
<1>4. S!Tables = {"plans", "items", "attempts", "progress", "reviews", "answers", "events"}
      /\ S!Plain = {"plans", "items", "attempts", "progress"} /\ S!Paged = {"reviews", "answers", "events"}
  BY DEF S!Tables, S!Plain, S!Paged
<1>5. \A d : Hangs(d)' <=> Hangs(d)
  BY <1>2 DEF Hangs
<1>6. CASE S!Begin
  <2>1. at = "begin" /\ snap' = db /\ at' = "plans" /\ got' = got /\ last' = last
    BY <1>6 DEF S!Begin, S!After
  <2>2. Hangs(db)
    BY <1>1, EveryMoment
  <2>3. ReaderInv'
    <3>1. got' = [t \in S!Tables |-> got'[t]]
      BY <1>1, <2>1 DEF ReaderInv
    <3>2. Hangs(snap)'
      <4>1. PICK d : d = db
        OBVIOUS
      <4>2. Hangs(d)'
        BY <1>5, <2>2, <4>1
      <4> QED BY <2>1, <4>1, <4>2, <1>2 DEF Hangs
    <3> QED BY <1>2, <2>1, <3>1, <3>2 DEF ReaderInv
  <2>4. PagesInv'
    BY <1>1, <1>4, <2>1 DEF PagesInv
  <2> QED BY <1>3, <2>3, <2>4 DEF SnapshotInv
<1>7. CASE S!Read
  <2>1. /\ at \in S!Plain /\ got' = [got EXCEPT ![at] = snap[at]] /\ at' = S!After(at)
        /\ snap' = snap /\ last' = last
    BY <1>7 DEF S!Read, S!View
  <2>3. \/ at = "plans" /\ at' = "items"
        \/ at = "items" /\ at' = "attempts"
        \/ at = "attempts" /\ at' = "progress"
        \/ at = "progress" /\ at' = "reviews"
    BY <1>4, <2>1 DEF S!After
  <2>4. got' = [t \in S!Tables |-> got'[t]] /\ \A t \in S!Tables : got'[t] = IF t = at THEN snap[at] ELSE got[t]
    BY <1>1, <1>4, <2>1 DEF ReaderInv
  <2>5. Hangs(snap)'
    BY <1>1, <1>2, <2>1, <2>3 DEF ReaderInv, Hangs
  <2>6. ReaderInv'
    BY <1>1, <1>2, <1>4, <2>1, <2>3, <2>4, <2>5 DEF ReaderInv
  <2>7. got'["reviews"] = <<>> /\ got'["answers"] = <<>> /\ got'["events"] = <<>> /\ last' = 0
    BY <1>1, <1>4, <2>1, <2>3, <2>4 DEF PagesInv
  <2>8. at' = "reviews" => UpTo("reviews", 0)'
    <3>1. Identified(snap["reviews"])
      BY <1>1, <2>3 DEF ReaderInv, Hangs
    <3>2. \A e \in snap["reviews"] : ~(e[1] <= 0)
      BY <3>1 DEF Identified
    <3>3. <<>> \in Seq(snap["reviews"]) /\ Len(<<>>) = 0
      OBVIOUS
    <3>4. got'["reviews"] \in Seq(snap["reviews"]) /\ Len(got'["reviews"]) = 0
      BY <2>7, <3>3
    <3> QED BY <2>1, <3>2, <3>4 DEF UpTo, Ordered
  <2>9. PagesInv'
    <3>1. at' \in S!Paged => UpTo(at, last)'
      BY <1>4, <2>3, <2>7, <2>8
    <3> QED BY <1>4, <2>3, <2>7, <3>1 DEF PagesInv
  <2> QED BY <1>3, <2>6, <2>9 DEF SnapshotInv
<1>8. CASE S!Static
  <2>1. at = "static" /\ at' \in {"large", "events"} /\ snap' = snap /\ got' = got /\ last' = last
    BY <1>8 DEF S!Static, S!After
  <2>2. ReaderInv'
    BY <1>1, <1>2, <2>1 DEF ReaderInv, Hangs
  <2>3. UpTo("events", 0)'
    <3>1. Identified(snap["events"])
      BY <1>1, <2>1 DEF ReaderInv, Hangs
    <3>2. \A e \in snap["events"] : ~(e[1] <= 0)
      BY <3>1 DEF Identified
    <3>3. <<>> \in Seq(snap["events"]) /\ Len(<<>>) = 0
      OBVIOUS
    <3>4. got'["events"] = <<>>
      BY <1>1, <2>1 DEF PagesInv
    <3>5. got'["events"] \in Seq(snap["events"]) /\ Len(got'["events"]) = 0
      BY <3>3, <3>4
    <3> QED BY <2>1, <3>2, <3>5 DEF UpTo, Ordered
  <2>4. Whole("reviews")' /\ Whole("answers")' /\ last' = 0
    BY <1>1, <2>1 DEF PagesInv, Whole
  <2>5. PagesInv'
    <3>1. at' \in S!Paged => UpTo(at, last)'
      BY <1>4, <2>1, <2>3, <2>4
    <3> QED BY <2>1, <2>4, <3>1 DEF PagesInv
  <2> QED BY <1>3, <2>2, <2>5 DEF SnapshotInv
<1>9. CASE S!Payload
  <2>1. at = "payload" /\ at' \in {"large", "file"} /\ snap' = snap /\ got' = got /\ last' = last
    BY <1>9 DEF S!Payload
  <2>2. ReaderInv'
    BY <1>1, <1>2, <2>1 DEF ReaderInv, Hangs
  <2>3. Whole("reviews")' /\ Whole("answers")' /\ Whole("events")'
    BY <1>1, <2>1 DEF PagesInv, Whole
  <2>4. PagesInv'
    BY <1>4, <2>1, <2>3 DEF PagesInv
  <2> QED BY <1>3, <2>2, <2>4 DEF SnapshotInv
<1>10. CASE S!Fail
  <2>1. at' = "begin" /\ got' = S!NoRows /\ last' = 0
    BY <1>10 DEF S!Fail
  <2>2. got' = [t \in S!Tables |-> got'[t]]
        /\ got'["reviews"] = <<>> /\ got'["answers"] = <<>> /\ got'["events"] = <<>>
    BY <1>4, <2>1 DEF S!NoRows
  <2>3. ReaderInv' /\ PagesInv'
    BY <1>4, <2>1, <2>2 DEF ReaderInv, PagesInv
  <2> QED BY <1>3, <2>3 DEF SnapshotInv
<1> QED BY <1>6, <1>7, <1>8, <1>9, <1>10

\* A page continues the table where the one before ended.
LEMMA PageKeeps ==
  ASSUME SnapshotInv, S!ReadPage
  PROVE  SnapshotInv'
<1>1. WriterInv /\ ReaderInv /\ PagesInv
  BY DEF SnapshotInv
<1>2. UNCHANGED <<kind, tx, eventId, nextId, db>> /\ snap' = snap /\ at \in S!Paged
  BY DEF S!ReadPage, S!writers
<1>3. WriterInv'
  <2>1. \A k : Done(k)' = Done(k)
    BY <1>2 DEF Done
  <2>2. \A w \in Writes : Draws(w)' <=> Draws(w)
    BY <1>2 DEF Draws
  <2>3. Identified(db["reviews"])' /\ Identified(db["answers"])'
    BY <1>1, <1>2 DEF WriterInv, Identified
  <2>4. /\ \A w \in Writes : Draws(w)' => eventId'[w] \in 1 .. nextId' - 1
        /\ \A v, w \in Writes : Draws(v)' /\ Draws(w)' /\ v # w => eventId'[v] # eventId'[w]
    BY <1>1, <1>2, <2>2 DEF WriterInv
  <2> QED BY <1>1, <1>2, <2>1, <2>3, <2>4 DEF WriterInv
<1>4. S!Tables = {"plans", "items", "attempts", "progress", "reviews", "answers", "events"}
      /\ S!Paged = {"reviews", "answers", "events"}
  BY DEF S!Tables, S!Plain, S!Paged
<1>5. PICK t : t = at
  OBVIOUS
<1>6. Hangs(snap) /\ Identified(snap[t]) /\ UpTo(t, last)
  BY <1>1, <1>2, <1>4, <1>5 DEF ReaderInv, Hangs, PagesInv
<1>7. Hangs(snap)'
  BY <1>2, <1>6 DEF Hangs
<1>8. S!Rest = {row \in snap[t] : row[1] > last}
  BY <1>5 DEF S!Rest, S!View
<1>9. Identified(S!Rest)
  <2>1. S!Rest \in SUBSET snap[t]
    BY <1>8
  <2>2. IsFiniteSet(S!Rest)
    BY <2>1, <1>6, FS_Subset DEF Identified
  <2> QED BY <2>1, <2>2, <1>6 DEF Identified
<1>10. PICK n \in Nat :
           /\ S!Page \in [1 .. n -> S!Rest] /\ (n = 0 <=> S!Rest = {}) /\ (S!Page = <<>> <=> n = 0)
           /\ \A i, j \in 1 .. n : i < j => S!Page[i][1] < S!Page[j][1]
           /\ n > 0 => \A x \in S!Rest : x[1] <= S!Page[n][1] => \E i \in 1 .. n : S!Page[i] = x
  BY <1>2, <1>9, Pages
<1>11. CASE S!Page = <<>>
  <2>1. at' = S!After(at) /\ last' = 0 /\ got' = got
    BY <1>11 DEF S!ReadPage
  <2>2. \/ at = "reviews" /\ at' = "answers"
        \/ at = "answers" /\ at' = "static"
        \/ at = "events" /\ at' = "payload"
    BY <1>2, <1>4, <2>1 DEF S!After
  <2>3. Whole(t)
    <3>1. \A e \in snap[t] : e[1] <= last
      <4>1. \A e \in snap[t] : ~(e[1] > last)
        BY <1>8, <1>10, <1>11
      <4> QED BY <4>1, <1>6 DEF Identified, UpTo
    <3> QED BY <3>1, <1>6 DEF UpTo, Whole
  <2>4. \A x : Whole(x) => Whole(x)'
    BY <1>2, <2>1 DEF Whole
  <2>5. ReaderInv'
    BY <1>1, <1>2, <1>7, <2>1, <2>2 DEF ReaderInv
  <2>6. at' = "answers" => UpTo("answers", 0)'
    <3>1. \A e \in snap["answers"] : ~(e[1] <= 0)
      BY <1>6 DEF Hangs, Identified
    <3>2. at' = "answers" => got'["answers"] = <<>>
      BY <1>1, <2>1, <2>2 DEF PagesInv
    <3>3. <<>> \in Seq(snap["answers"]) /\ Len(<<>>) = 0
      OBVIOUS
    <3>4. ASSUME at' = "answers"
          PROVE  got'["answers"] \in Seq(snap["answers"]) /\ Len(got'["answers"]) = 0
      BY <3>2, <3>3, <3>4
    <3> QED BY <1>2, <3>1, <3>4 DEF UpTo, Ordered
  <2>7. PagesInv'
    <3>1. at' \in S!Paged => UpTo(at, last)'
      BY <1>4, <2>1, <2>2, <2>6
    <3> QED BY <1>1, <1>4, <1>5, <2>1, <2>2, <2>3, <2>4, <3>1 DEF PagesInv
  <2> QED BY <1>3, <2>5, <2>7 DEF SnapshotInv
<1>12. CASE S!Page # <<>>
  <2>1. PICK pg, s, r : pg = S!Page /\ s = got[t] /\ r = s \o pg
    OBVIOUS
  <2>2. n > 0 /\ pg \in Seq(S!Rest) /\ Len(pg) = n /\ pg \in [1 .. n -> S!Rest]
    BY <1>10, <1>12, <2>1
  <2>3. last' = pg[n][1] /\ got' = [got EXCEPT ![t] = r] /\ at' \in {at, "large"}
    BY <1>5, <1>12, <2>1, <2>2 DEF S!ReadPage
  <2>4. s \in Seq(snap[t]) /\ Ordered(s) /\ Len(s) \in Nat
    BY <1>6, <2>1 DEF UpTo
  <2>5. pg \in Seq(snap[t])
    BY <1>8, <2>2
  <2>6. /\ r \in Seq(snap[t]) /\ Len(r) = Len(s) + n
        /\ \A i \in 1 .. Len(s) + n : r[i] = IF i <= Len(s) THEN s[i] ELSE pg[i - Len(s)]
    <3>1. pg \in Seq(snap[t]) /\ Len(pg) = n /\ s \in Seq(snap[t])
      BY <2>2, <2>4, <2>5
    <3>2. /\ s \o pg \in Seq(snap[t]) /\ Len(s \o pg) = Len(s) + Len(pg)
          /\ \A i \in 1 .. Len(s) + Len(pg) :
               (s \o pg)[i] = IF i <= Len(s) THEN s[i] ELSE pg[i - Len(s)]
      BY <3>1, ConcatProperties
    <3> QED BY <2>1, <3>1, <3>2
  <2>7. \A i \in 1 .. Len(s) : s[i] \in snap[t] /\ s[i][1] <= last
    <3>1. \A i \in 1 .. Len(s) : s[i] \in snap[t]
      BY <2>4, ElementOfSeq
    <3> QED BY <3>1, <1>6, <2>1 DEF UpTo
  <2>8. \A i \in 1 .. n : pg[i] \in snap[t] /\ pg[i][1] > last /\ pg[i][1] \in Nat
    BY <1>6, <1>8, <2>2 DEF Identified
  <2>9. \A i \in 1 .. n : pg[i][1] <= pg[n][1]
    <3>1. SUFFICES ASSUME NEW i \in 1 .. n PROVE pg[i][1] <= pg[n][1]
      OBVIOUS
    <3>2. n \in 1 .. n /\ (i = n \/ i < n)
      BY <2>2
    <3>3. pg[i][1] \in Nat /\ pg[n][1] \in Nat
      BY <2>8, <3>2
    <3>4. i < n => pg[i][1] < pg[n][1]
      BY <1>10, <2>1, <3>2
    <3> QED BY <3>2, <3>3, <3>4
  <2>10. last \in Nat /\ \A e \in snap[t] : e[1] \in Nat
    BY <1>6 DEF UpTo, Identified
  <2>11. Ordered(r)
    <3>1. SUFFICES ASSUME NEW i \in 1 .. Len(s) + n, NEW j \in 1 .. Len(s) + n, i < j PROVE r[i][1] < r[j][1]
      BY <2>6 DEF Ordered
    <3>2. CASE j <= Len(s)
      BY <3>1, <3>2, <2>4, <2>6 DEF Ordered
    <3>3. CASE i <= Len(s) /\ j > Len(s)
      <4>1. PICK k : k = j - Len(s)
        OBVIOUS
      <4>2. i \in 1 .. Len(s) /\ k \in 1 .. n /\ ~(j <= Len(s))
        BY <4>1, <3>1, <3>3, <2>4
      <4>3. r[i] = s[i] /\ r[j] = pg[k]
        BY <4>1, <4>2, <3>1, <3>3, <2>6
      <4>4. s[i][1] <= last /\ s[i][1] \in Nat /\ pg[k][1] > last /\ pg[k][1] \in Nat
        BY <4>2, <2>7, <2>8, <2>10
      <4> QED BY <4>3, <4>4, <2>10
    <3>4. CASE i > Len(s)
      <4>1. PICK k, l : k = i - Len(s) /\ l = j - Len(s)
        OBVIOUS
      <4>2. k \in 1 .. n /\ l \in 1 .. n /\ k < l /\ ~(i <= Len(s)) /\ ~(j <= Len(s))
        BY <4>1, <3>1, <3>4, <2>4
      <4>3. r[i] = pg[k] /\ r[j] = pg[l]
        BY <4>1, <4>2, <3>1, <2>6
      <4> QED BY <4>2, <4>3, <1>10, <2>1
    <3> QED BY <3>2, <3>3, <3>4, <2>4
  <2>12. ASSUME NEW e \in snap[t] PROVE e[1] <= pg[n][1] <=> \E i \in 1 .. Len(r) : r[i] = e
    <3>1. ASSUME e[1] <= pg[n][1] PROVE \E i \in 1 .. Len(r) : r[i] = e
      <4>1. CASE e[1] <= last
        <5>1. PICK i \in 1 .. Len(s) : s[i] = e
          BY <4>1, <1>6, <2>1 DEF UpTo
        <5>2. i \in 1 .. Len(r) /\ r[i] = e
          BY <5>1, <2>4, <2>6
        <5> QED BY <5>2
      <4>2. CASE e[1] > last
        <5>1. PICK i \in 1 .. n : pg[i] = e
          BY <4>2, <3>1, <1>8, <1>10, <2>1, <2>2
        <5>2. PICK k : k = i + Len(s)
          OBVIOUS
        <5>3. k \in 1 .. Len(r) /\ k - Len(s) = i /\ ~(k <= Len(s))
          BY <5>1, <5>2, <2>4, <2>6
        <5>4. r[k] = e
          BY <5>1, <5>3, <2>6
        <5> QED BY <5>3, <5>4
      <4> QED BY <4>1, <4>2, <2>10
    <3>2. ASSUME NEW i \in 1 .. Len(r), r[i] = e PROVE e[1] <= pg[n][1]
      <4>1. CASE i <= Len(s)
        <5>1. r[i] = s[i] /\ i \in 1 .. Len(s)
          BY <4>1, <3>2, <2>4, <2>6
        <5>2. e[1] <= last
          BY <5>1, <3>2, <2>7
        <5>3. n \in 1 .. n
          BY <2>2
        <5>4. pg[n][1] > last /\ pg[n][1] \in Nat /\ e[1] \in Nat
          BY <5>3, <2>8, <2>10
        <5> QED BY <5>2, <5>4, <2>10
      <4>2. CASE i > Len(s)
        <5>1. PICK k : k = i - Len(s)
          OBVIOUS
        <5>2. k \in 1 .. n /\ ~(i <= Len(s)) /\ i \in 1 .. Len(s) + n
          BY <5>1, <4>2, <3>2, <2>4, <2>6
        <5>3. r[i] = pg[k]
          BY <5>1, <5>2, <2>6
        <5> QED BY <5>2, <5>3, <3>2, <2>9
      <4> QED BY <4>1, <4>2, <2>4, <2>6
    <3> QED BY <3>1, <3>2
  <2>13. got' = [x \in S!Tables |-> got'[x]] /\ \A x \in S!Tables : got'[x] = IF x = t THEN r ELSE got[x]
    BY <1>1, <1>2, <1>4, <1>5, <2>3 DEF ReaderInv
  <2>14. UpTo(t, pg[n][1])'
    <3>1. got'[t] = r /\ snap'[t] = snap[t] /\ pg[n][1] \in Nat
      BY <1>2, <1>4, <1>5, <2>2, <2>8, <2>13
    <3> QED BY <3>1, <2>6, <2>11, <2>12 DEF UpTo
  <2>15. ReaderInv'
    BY <1>1, <1>2, <1>4, <1>5, <1>7, <2>3, <2>13 DEF ReaderInv
  <2>16. \A x \in S!Paged \ {t} : Whole(x) => Whole(x)'
    BY <1>2, <1>4, <2>13 DEF Whole
  <2>17. PagesInv'
    <3>1. at' \in S!Paged => UpTo(at, last)'
      BY <1>4, <1>5, <2>3, <2>14
    <3>2. /\ at \in {"answers", "events"} => Whole("reviews")'
          /\ at = "events" => Whole("answers")'
      BY <1>1, <1>4, <1>5, <2>16 DEF PagesInv
    <3> QED BY <1>1, <1>2, <1>4, <1>5, <2>3, <2>13, <3>1, <3>2 DEF PagesInv
  <2> QED BY <1>3, <2>15, <2>17 DEF SnapshotInv
<1> QED BY <1>11, <1>12

\* The rows that are there from the start.
LEMMA OldRows == ASSUME NEW n \in Nat PROVE Identified(S!Old(n))
<1>1. PICK os : os = S!Old(n)
  OBVIOUS
<1>2. \A e \in os : \E i \in 1 .. n : e = <<i, "old">>
  BY <1>1 DEF S!Old
<1>3. IsFiniteSet(os)
  <2>1. PICK f : f = [e \in os |-> e[1]]
    OBVIOUS
  <2>2. f \in [os -> 1 .. n] /\ \A d, e \in os : f[d] = f[e] => d = e
    BY <1>2, <2>1
  <2>3. f \in Injection(os, 1 .. n)
    BY <2>2 DEF Injection, IsInjective
  <2>4. IsFiniteSet(1 .. n)
    BY FS_Interval
  <2> QED BY <2>3, <2>4, FS_Injection
<1>4. \A e \in os : e[1] \in Nat \ {0}
  BY <1>2
<1>5. \A e, f \in os : e[1] = f[1] => e = f
  BY <1>2
<1> QED BY <1>1, <1>3, <1>4, <1>5 DEF Identified

\* The copy of an export is read from one moment of the history, page by page.
LEMMA SnapshotInvariance == S!Spec => []SnapshotInv
<1>1. ASSUME S!Init PROVE SnapshotInv
  <2>1. /\ kind \in [Writes -> S!Kinds] /\ tx = [w \in Writes |-> "idle"]
        /\ eventId = [w \in Writes |-> 0] /\ nextId = 1
        /\ at = "begin" /\ got = S!NoRows /\ last = 0
    BY <1>1 DEF S!Init
  <2>2. PICK r \in Nat, a \in Nat :
          db = [t \in S!Tables |-> CASE t = "reviews" -> S!Old(r) [] t = "answers" -> S!Old(a)
                                     [] OTHER -> {}]
    BY <1>1, IntegrityAssumption DEF S!Init
  <2>3. S!Tables = {"plans", "items", "attempts", "progress", "reviews", "answers", "events"}
        /\ S!Plain = {"plans", "items", "attempts", "progress"} /\ S!Paged = {"reviews", "answers", "events"}
    BY DEF S!Tables, S!Plain, S!Paged
  <2>4. /\ db = [t \in S!Tables |-> db[t]]
        /\ db["plans"] = {} /\ db["items"] = {} /\ db["attempts"] = {} /\ db["progress"] = {}
        /\ db["events"] = {} /\ db["reviews"] = S!Old(r) /\ db["answers"] = S!Old(a)
    BY <2>2, <2>3
  <2>5. \A k : Done(k) = {}
    BY <2>1 DEF Done
  <2>6. \A w \in Writes : ~Draws(w)
    BY <2>1 DEF Draws
  <2>7. WriterInv
    <3>1. db["events"] = {<<eventId[w], w>> : w \in Done("submit") \cup Done("finish")}
      BY <2>4, <2>5
    <3>2. Identified(db["reviews"]) /\ Identified(db["answers"])
      BY <2>4, OldRows
    <3>3. tx \in [Writes -> {"idle", "open", "committed"}] /\ eventId \in [Writes -> Nat] /\ nextId \in Nat \ {0}
      BY <2>1
    <3> QED BY <2>1, <2>4, <2>5, <2>6, <3>1, <3>2, <3>3 DEF WriterInv
  <2>8. got = [t \in S!Tables |-> got[t]]
        /\ got["reviews"] = <<>> /\ got["answers"] = <<>> /\ got["events"] = <<>>
    BY <2>1, <2>3 DEF S!NoRows
  <2>9. ReaderInv /\ PagesInv
    BY <2>1, <2>3, <2>8 DEF ReaderInv, PagesInv
  <2> QED BY <2>7, <2>9 DEF SnapshotInv
<1>2. ASSUME SnapshotInv, [S!Next]_S!vars PROVE SnapshotInv'
  <2>1. CASE \E w \in Writes : S!Insert(w) \/ S!Commit(w)
    BY <1>2, <2>1, LearnerKeeps
  <2>2. CASE S!Begin \/ S!Read \/ S!Static \/ S!Payload \/ S!Fail
    BY <1>2, <2>2, ReaderKeeps
  <2>3. CASE S!ReadPage
    BY <1>2, <2>3, PageKeeps
  <2>4. CASE UNCHANGED S!vars
    <3>1. UNCHANGED <<kind, tx, eventId, nextId, db>> /\ UNCHANGED <<at, snap, got, last>>
      BY <2>4 DEF S!vars, S!writers, S!reader
    <3>2. WriterInv'
      BY <1>2, <3>1 DEF SnapshotInv, WriterInv, Done, Draws
    <3>3. ReaderInv'
      BY <1>2, <3>1 DEF SnapshotInv, ReaderInv, Hangs
    <3>4. \A t, l : UpTo(t, l) => UpTo(t, l)'
      BY <3>1 DEF UpTo
    <3>5. \A t : Whole(t) => Whole(t)'
      BY <3>1 DEF Whole
    <3>6. at' \in S!Paged => UpTo(at, last)'
      <4>1. PICK t, l : t = at /\ l = last
        OBVIOUS
      <4>2. at' \in S!Paged => UpTo(t, l)'
        BY <1>2, <3>1, <3>4, <4>1 DEF SnapshotInv, PagesInv
      <4> QED BY <3>1, <4>1, <4>2
    <3>7. PagesInv'
      BY <1>2, <3>1, <3>5, <3>6 DEF SnapshotInv, PagesInv
    <3> QED BY <3>2, <3>3, <3>7 DEF SnapshotInv
  <2> QED BY <1>2, <2>1, <2>2, <2>3, <2>4 DEF S!Next, S!Run
<1> QED BY <1>1, <1>2, PTL DEF S!Spec

\* The file of an export describes one moment of the learner's history: items of
\* the plans, attempts and lessons of the events, every page in the order of ids
\* and every old row (data-export.job.ts), whatever commits while it is read.
THEOREM CopyHangs == S!Spec => []CopyHangsTogether
<1>1. ASSUME SnapshotInv PROVE CopyHangsTogether
  <2>1. SUFFICES ASSUME at = "file" PROVE CopyHangsTogether
    BY DEF CopyHangsTogether, S!CopyHangsTogether
  <2>2. /\ Hangs(snap) /\ snap["reviews"] = db["reviews"] /\ snap["answers"] = db["answers"]
        /\ got["plans"] = snap["plans"] /\ got["items"] = snap["items"]
        /\ got["attempts"] = snap["attempts"] /\ got["progress"] = snap["progress"]
    BY <1>1, <2>1 DEF SnapshotInv, ReaderInv
  <2>3. \A t \in S!Paged : Whole(t)
    BY <1>1, <2>1 DEF SnapshotInv, PagesInv, S!Paged
  <2>4. ASSUME NEW t \in S!Paged
        PROVE  /\ S!Seen(got[t]) = snap[t]
               /\ \A i, j \in DOMAIN got[t] : i < j => S!IdsOf(got[t])[i] < S!IdsOf(got[t])[j]
    <3>1. PICK s, rs : s = got[t] /\ rs = snap[t]
      OBVIOUS
    <3>2. s \in Seq(rs) /\ Ordered(s) /\ \A e \in rs : \E i \in 1 .. Len(s) : s[i] = e
      BY <2>3, <3>1 DEF Whole
    <3>3. DOMAIN s = 1 .. Len(s)
      BY <3>2
    <3>4. \A i \in 1 .. Len(s) : s[i] \in rs
      BY <3>2, ElementOfSeq
    <3>5. {s[i] : i \in DOMAIN s} = rs
      BY <3>2, <3>3, <3>4
    <3>6. \A i, j \in DOMAIN s : i < j => S!IdsOf(s)[i] < S!IdsOf(s)[j]
      BY <3>2, <3>3 DEF Ordered, S!IdsOf
    <3> QED BY <3>1, <3>5, <3>6 DEF S!Seen
  <2>5. /\ S!Seen(got["events"]) = snap["events"] /\ S!Seen(got["reviews"]) = snap["reviews"]
        /\ S!Seen(got["answers"]) = snap["answers"]
    BY <2>4 DEF S!Paged
  <2>6. /\ got["items"] = got["plans"]
        /\ got["attempts"] = {e[2] : e \in {x \in S!Seen(got["events"]) : kind[x[2]] = "submit"}}
        /\ got["progress"] = {e[2] : e \in {x \in S!Seen(got["events"]) : kind[x[2]] = "finish"}}
    BY <2>2, <2>5 DEF Hangs
  <2> QED BY <2>2, <2>4, <2>5, <2>6, Zenon DEF CopyHangsTogether, S!CopyHangsTogether
<1> QED BY <1>1, SnapshotInvariance, PTL

-----------------------------------------------------------------------------
(***************************************************************************)
(* The path, for any lessons, levels and edits.                            *)
(*                                                                         *)
(* What a query has read is still so as long as the content stays as it    *)
(* was, but for progress, which only grows.  The unlock rule grows with    *)
(* it, so that what was open in the copy is open on the server.            *)
(***************************************************************************)

\* A strict total order of a set.
Orders(R, T) ==
  /\ \A x \in T : <<x, x>> \notin R
  /\ \A x, y \in T : x = y \/ <<x, y>> \in R \/ <<y, x>> \in R
  /\ \A x, y, z \in T : <<x, y>> \in R /\ <<y, z>> \in R => <<x, z>> \in R

\* It has a first element if the set is finite: the one that the fewest come before.
LEMMA Best ==
  ASSUME NEW T, IsFiniteSet(T), T # {}, NEW R, Orders(R, T)
  PROVE  \E x \in T : \A y \in T \ {x} : <<x, y>> \in R
<1> DEFINE Over(x) == {y \in T : <<y, x>> \in R}
<1>1. \A x \in T : Over(x) \in SUBSET T /\ IsFiniteSet(Over(x)) /\ Cardinality(Over(x)) \in Nat
  BY FS_Subset, FS_CardinalityType
<1>2. PICK count : count = [x \in T |-> Cardinality(Over(x))]
  OBVIOUS
<1>3. PICK x \in T : \A y \in T : count[x] <= count[y]
  <2>1. PICK N : N = {count[x] : x \in T}
    OBVIOUS
  <2>2. \A x \in T : count[x] \in Nat
    BY <1>1, <1>2
  <2>3. N \in SUBSET Nat /\ N # {}
    BY <2>1, <2>2
  <2>4. PICK m \in N : \A n \in N : m <= n
    BY <2>3, NatMin
  <2> QED BY <2>1, <2>4
<1>4. ASSUME NEW y \in T, <<y, x>> \in R PROVE FALSE
  <2>1. Over(y) \subseteq Over(x) /\ y \in Over(x) /\ y \notin Over(y)
    BY <1>4 DEF Orders
  <2>2. PICK a, b : a = Over(y) /\ b = Over(x)
    OBVIOUS
  <2>3. a \in SUBSET b /\ a # b /\ IsFiniteSet(b) /\ Cardinality(a) \in Nat /\ Cardinality(b) \in Nat
    BY <1>1, <2>1, <2>2
  <2>4. Cardinality(a) < Cardinality(b)
    BY <2>3, FS_Subset
  <2>5. count[y] = Cardinality(a) /\ count[x] = Cardinality(b)
    BY <1>2, <2>2
  <2> QED BY <1>3, <2>3, <2>4, <2>5
<1> QED BY <1>3, <1>4 DEF Orders

ProgressStatus == {"none", "learning", "done"}
ProgressMaps == [PathLessons -> ProgressStatus]
Naturals == [PathLessons -> Nat]
Grown(s, t) == (s = "done" => t = "done") /\ (s # "none" => t # "none")

PathType ==
  /\ listedLevels \subseteq PathLevels /\ publicLessons \subseteq PathLessons
  /\ lessonPlace \in Naturals /\ lessonStatus \in ProgressMaps /\ lastActive \in Naturals
  /\ goalLevel \in PathLevels \cup {0} /\ pathClock \in Nat
  /\ pathCopy \in [goal : PathLevels \cup {0}, levels : SUBSET PathLevels, lessons : SUBSET PathLessons,
                   place : Naturals, status : ProgressMaps, active : Naturals]

\* What was read is still so while the content stays, and progress has only grown.
LoadInv ==
  pathPc = "loading" /\ "content" \notin pathSince =>
    /\ "levels" \notin pathUnread => pathCopy.levels = listedLevels
    /\ "lessons" \notin pathUnread => pathCopy.lessons = L!Ready /\ pathCopy.place = lessonPlace
    /\ "progress" \notin pathUnread =>
         \A l \in L!Ready :
           /\ Grown(pathCopy.status[l], lessonStatus[l])
           /\ "progress" \notin pathSince => pathCopy.status[l] = lessonStatus[l]

PathInv == PathType /\ LoadInv /\ OffersAreHonoured

\* Lessons are finitely many numbers, and each has a level.
LEMMA LessonsAre ==
  /\ PathLessons \subseteq Nat \ {0} /\ IsFiniteSet(PathLessons) /\ PathLevels \subseteq Nat \ {0}
  /\ LevelOfLesson \in [PathLessons -> PathLevels] /\ LessonPlaces \subseteq Nat
  /\ \A T \in SUBSET PathLessons : IsFiniteSet(T)
  BY IntegrityAssumption, FS_Subset

\* The lesson before is one of the ready ones of the level.
LEMMA PreviousIs ==
  ASSUME NEW ready \in SUBSET PathLessons, NEW at_ \in Naturals, NEW l \in PathLessons
  PROVE  \/ L!Earlier(ready, at_, l) = {} /\ L!Previous(ready, at_, l) = L!Nothing
         \/ L!Previous(ready, at_, l) \in ready
<1>1. CASE L!Earlier(ready, at_, l) = {}
  BY <1>1 DEF L!Previous
<1>2. CASE L!Earlier(ready, at_, l) # {}
  <2>1. PICK es : es = L!Earlier(ready, at_, l)
    OBVIOUS
  <2>2. es \subseteq ready /\ es \in SUBSET PathLessons /\ es # {} /\ IsFiniteSet(es)
    BY <1>2, <2>1, LessonsAre DEF L!Earlier
  <2>3. PICK R : R = {x \in es \X es : L!Before(at_, x[2], x[1])}
    OBVIOUS
  <2>4. \A x, y \in es : <<x, y>> \in R <=> L!Before(at_, y, x)
    BY <2>3
  <2>5. \A x \in es : x \in Nat /\ at_[x] \in Nat
    BY <2>2, LessonsAre DEF Naturals
  <2>6. Orders(R, es)
    BY <2>4, <2>5 DEF L!Before, Orders
  <2>7. \E k \in es : \A j \in es \ {k} : <<k, j>> \in R
    BY <2>2, <2>6, Best
  <2>8. \E k \in es : \A j \in es : j = k \/ L!Before(at_, j, k)
    BY <2>4, <2>7
  <2>9. L!Previous(ready, at_, l) = CHOOSE k \in es : \A j \in es : j = k \/ L!Before(at_, j, k)
    BY <1>2, <2>1 DEF L!Previous
  <2>10. L!Previous(ready, at_, l) \in es
    BY <2>8, <2>9
  <2> QED BY <2>2, <2>10
<1> QED BY <1>1, <1>2

\* What is open stays open while progress grows (isLessonUnlocked).
LEMMA OpenGrows ==
  ASSUME NEW ready \in SUBSET PathLessons, NEW at_ \in Naturals, NEW l \in ready,
         NEW p \in ProgressMaps, NEW q \in ProgressMaps,
         \A k \in ready : Grown(p[k], q[k]), L!Open(ready, at_, p, l)
  PROVE  L!Open(ready, at_, q, l)
<1>1. PICK k : k = L!Previous(ready, at_, l)
  OBVIOUS
<1>2. k = L!Nothing \/ k \in ready
  BY <1>1, PreviousIs
<1> QED BY <1>1, <1>2 DEF L!Open, L!Unlocked, Grown

\* The lesson to continue is before the others of its kind.
More(l, k) ==
  \/ pathCopy.active[k] < pathCopy.active[l]
  \/ pathCopy.active[k] = pathCopy.active[l] /\ L!Precedes(l, k)

LEMMA CopyIs ==
  ASSUME PathType
  PROVE  /\ L!Shown \in SUBSET PathLessons
         /\ pathCopy.levels \in SUBSET PathLevels /\ pathCopy.goal \in PathLevels \cup {0}
         /\ pathCopy.lessons \in SUBSET PathLessons /\ pathCopy.place \in Naturals
         /\ pathCopy.status \in ProgressMaps /\ pathCopy.active \in Naturals
         /\ \A l \in PathLessons : /\ l \in Nat \ {0} /\ LevelOfLesson[l] \in PathLevels
                                   /\ LevelOfLesson[l] \in Nat /\ pathCopy.place[l] \in Nat
                                   /\ pathCopy.active[l] \in Nat
<1>1. /\ pathCopy.levels \in SUBSET PathLevels /\ pathCopy.goal \in PathLevels \cup {0}
      /\ pathCopy.lessons \in SUBSET PathLessons /\ pathCopy.place \in Naturals
      /\ pathCopy.status \in ProgressMaps /\ pathCopy.active \in Naturals
  BY DEF PathType
<1>2. L!Shown \in SUBSET PathLessons
  BY <1>1 DEF L!Shown
<1> QED BY <1>1, <1>2, LessonsAre DEF Naturals

LEMMA LatestIs ==
  ASSUME PathType, NEW ls \in SUBSET PathLessons, ls # {}
  PROVE  L!Latest(ls) \in ls /\ \A k \in ls \ {L!Latest(ls)} : More(L!Latest(ls), k)
<1>1. PICK R : R = {x \in ls \X ls : More(x[1], x[2])}
  OBVIOUS
<1>2. \A x, y \in ls : <<x, y>> \in R <=> More(x, y)
  BY <1>1
<1>3. Orders(R, ls)
  BY <1>2, CopyIs DEF Orders, More, L!Precedes, L!Before
<1>4. IsFiniteSet(ls)
  BY LessonsAre
<1>5. \E l \in ls : \A k \in ls \ {l} : More(l, k)
  BY <1>2, <1>3, <1>4, Best
<1>6. L!Latest(ls) = CHOOSE l \in ls : \A k \in ls \ {l} : More(l, k)
  BY DEF L!Latest, More
<1> QED BY <1>5, <1>6

\* The latest of a larger set is the latest of a smaller one that has it.
LEMMA LatestOfBoth ==
  ASSUME PathType, NEW ms \in SUBSET PathLessons, NEW ls \in SUBSET ms, L!Latest(ms) \in ls
  PROVE  L!Latest(ls) = L!Latest(ms)
<1>1. PICK l, m : l = L!Latest(ls) /\ m = L!Latest(ms)
  OBVIOUS
<1>2. l \in ls /\ \A k \in ls \ {l} : More(l, k)
  <2>1. ls \in SUBSET PathLessons /\ ls # {}
    OBVIOUS
  <2> QED BY <1>1, <2>1, LatestIs
<1>3. m \in ms /\ \A k \in ms \ {m} : More(m, k)
  <2>1. ms # {}
    OBVIOUS
  <2> QED BY <1>1, <2>1, LatestIs
<1>4. m \in ls
  BY <1>1
<1>5. l # m => More(l, m) /\ More(m, l)
  BY <1>2, <1>3, <1>4
<1>6. ~(More(l, m) /\ More(m, l))
  BY <1>2, <1>3, CopyIs DEF More, L!Precedes, L!Before
<1> QED BY <1>1, <1>5, <1>6

LEMMA FirstIs ==
  ASSUME PathType, NEW ls \in SUBSET PathLessons, ls # {}
  PROVE  (CHOOSE l \in ls : \A k \in ls \ {l} : L!Precedes(l, k)) \in ls
<1>1. PICK R : R = {x \in ls \X ls : L!Precedes(x[1], x[2])}
  OBVIOUS
<1>2. \A x, y \in ls : <<x, y>> \in R <=> L!Precedes(x, y)
  BY <1>1
<1>3. Orders(R, ls)
  BY <1>2, CopyIs DEF Orders, L!Precedes, L!Before
<1>4. IsFiniteSet(ls)
  BY LessonsAre
<1>5. \E l \in ls : \A k \in ls \ {l} : L!Precedes(l, k)
  BY <1>2, <1>3, <1>4, Best
<1> QED BY <1>5

\* The lesson to continue on a level is an open one of the level that is not done.
LEMMA CurrentIs ==
  ASSUME PathType, NEW v, L!Current(v) # L!Nothing
  PROVE  /\ L!Current(v) \in L!Shown /\ LevelOfLesson[L!Current(v)] = v
         /\ L!Opened(L!Current(v)) /\ pathCopy.status[L!Current(v)] # "done"
<1>1. PICK ls : ls = {l \in L!Shown : LevelOfLesson[l] = v /\ L!Opened(l)}
  OBVIOUS
<1>2. PICK todo : todo = {l \in ls : pathCopy.status[l] # "done"}
  OBVIOUS
<1>3. ls \in SUBSET PathLessons /\ todo \in SUBSET ls
  BY <1>1, <1>2, CopyIs
<1>4. L!Current(v) = IF L!Learning(ls) # {} THEN L!Latest(L!Learning(ls))
                     ELSE IF todo = {} THEN L!Nothing
                     ELSE CHOOSE l \in todo : \A k \in todo \ {l} : L!Precedes(l, k)
  BY <1>1, <1>2 DEF L!Current
<1>5. CASE L!Learning(ls) # {}
  <2>1. L!Latest(L!Learning(ls)) \in L!Learning(ls)
    <3>1. L!Learning(ls) \in SUBSET PathLessons
      BY <1>3 DEF L!Learning
    <3> QED BY <1>5, <3>1, LatestIs
  <2>2. L!Current(v) \in ls /\ pathCopy.status[L!Current(v)] = "learning"
    BY <1>4, <1>5, <2>1 DEF L!Learning
  <2> QED BY <1>1, <2>2
<1>6. CASE L!Learning(ls) = {}
  <2>1. todo # {} /\ todo \in SUBSET PathLessons
    BY <1>3, <1>4, <1>6
  <2>2. L!Current(v) \in todo
    BY <1>4, <1>6, <2>1, FirstIs
  <2> QED BY <1>1, <1>2, <2>2
<1> QED BY <1>5, <1>6

\* What is in progress is open, whatever was done before it.
LEMMA LearningIsOpen ==
  ASSUME NEW l, pathCopy.status[l] = "learning"
  PROVE  L!Opened(l)
  BY DEF L!Opened, L!Open, L!Unlocked

\* The lesson that is offered next is the current one of its level.
LEMMA NextIs ==
  ASSUME PathType, L!NextLesson # L!Nothing
  PROVE  /\ L!NextLesson \in L!Shown /\ pathCopy.status[L!NextLesson] # "done"
         /\ L!Current(LevelOfLesson[L!NextLesson]) = L!NextLesson
<1>1. ASSUME NEW v, L!Current(v) # L!Nothing, L!NextLesson = L!Current(v)
      PROVE  /\ L!NextLesson \in L!Shown /\ pathCopy.status[L!NextLesson] # "done"
             /\ L!Current(LevelOfLesson[L!NextLesson]) = L!NextLesson
  BY <1>1, CurrentIs
<1>2. CASE L!Learning(L!Shown) # {}
  <2>1. PICK n : n = L!NextLesson
    OBVIOUS
  <2>2. PICK ms : ms = L!Learning(L!Shown)
    OBVIOUS
  <2>3. n = L!Latest(ms) /\ ms \in SUBSET PathLessons
    BY <1>2, <2>1, <2>2, CopyIs DEF L!NextLesson, L!Learning
  <2>4. n \in ms /\ n \in L!Shown /\ pathCopy.status[n] = "learning"
    BY <1>2, <2>2, <2>3, LatestIs DEF L!Learning
  <2>5. PICK v, ls : v = LevelOfLesson[n] /\ ls = {l \in L!Shown : LevelOfLesson[l] = v /\ L!Opened(l)}
    OBVIOUS
  <2>6. n \in ls
    BY <2>4, <2>5, LearningIsOpen
  <2>7. L!Learning(ls) \in SUBSET ms /\ n \in L!Learning(ls)
    BY <2>2, <2>4, <2>5, <2>6 DEF L!Learning
  <2>8. L!Latest(L!Learning(ls)) = n
    BY <2>3, <2>7, LatestOfBoth
  <2>9. L!Current(v) = L!Latest(L!Learning(ls))
    BY <2>5, <2>7 DEF L!Current
  <2> QED BY <2>1, <2>4, <2>5, <2>8, <2>9
<1>3. CASE L!Learning(L!Shown) = {} /\ L!Current(pathCopy.goal) # L!Nothing
  <2>1. L!NextLesson = L!Current(pathCopy.goal)
    BY <1>3 DEF L!NextLesson
  <2> QED BY <1>1, <1>3, <2>1
<1>4. CASE L!Learning(L!Shown) = {} /\ L!Current(pathCopy.goal) = L!Nothing
  <2>1. PICK hs : hs = L!Higher
    OBVIOUS
  <2>2. hs # {} /\ L!NextLesson = L!Current(L!Min(hs))
    BY <1>4, <2>1 DEF L!NextLesson
  <2>3. hs \in SUBSET Nat /\ \A v \in hs : L!Current(v) # L!Nothing
    BY <2>1, CopyIs, LessonsAre DEF L!Higher
  <2>4. \E v \in hs : \A w \in hs : v <= w
    BY <2>2, <2>3, NatMin
  <2>5. L!Min(hs) \in hs
    BY <2>4 DEF L!Min
  <2> QED BY <1>1, <2>2, <2>3, <2>5
<1> QED BY <1>2, <1>3, <1>4

LEMMA ReadyIs == PathType => L!Ready \in SUBSET PathLessons
  BY DEF PathType, L!Ready

\* The server goes on accepting what it accepts while only progress is made.
LEMMA AcceptsGrows ==
  ASSUME PathType, UNCHANGED <<listedLevels, publicLessons, lessonPlace>>,
         lessonStatus' \in ProgressMaps,
         \A l \in PathLessons : Grown(lessonStatus[l], lessonStatus'[l]),
         NEW l \in PathLessons, L!Accepts(l)
  PROVE  L!Accepts(l)'
<1>1. PICK ready, at_, p, q : ready = L!Ready /\ at_ = lessonPlace /\ p = lessonStatus /\ q = lessonStatus'
  OBVIOUS
<1>2. ready \in SUBSET PathLessons /\ at_ \in Naturals /\ p \in ProgressMaps /\ q \in ProgressMaps
  BY <1>1, ReadyIs DEF PathType
<1>3. l \in ready /\ L!Open(ready, at_, p, l)
  BY <1>1 DEF L!Accepts
<1>4. \A k \in ready : Grown(p[k], q[k])
  BY <1>1, <1>2
<1>5. L!Open(ready, at_, q, l)
  BY <1>2, <1>3, <1>4, OpenGrows
<1>6. L!Ready' = ready /\ lessonPlace' = at_ /\ lessonStatus' = q
  BY <1>1 DEF L!Ready
<1> QED BY <1>3, <1>5, <1>6 DEF L!Accepts

\* The answer is what the server would do, for a copy of what is still so.
LEMMA BuildHonours == ASSUME PathInv, L!Build PROVE OffersAreHonoured'
<1>1. PathType /\ LoadInv /\ pathPc = "loading" /\ pathUnread = {} /\ pathPc' = "answered"
      /\ UNCHANGED <<listedLevels, publicLessons, lessonPlace, lessonStatus, pathSince>>
  BY DEF PathInv, L!Build, L!content, L!personal
<1>2. SUFFICES ASSUME "content" \notin pathSince PROVE OffersAreHonoured'
  BY <1>1 DEF OffersAreHonoured, L!OffersAreHonoured
<1>3. pathOffer' = [state |-> [l \in PathLessons |-> L!StateOf(l)], next |-> L!NextLesson]
  BY DEF L!Build
<1>4. \A l \in PathLessons : L!Accepts(l)' <=> L!Accepts(l)
  BY <1>1 DEF L!Accepts, L!Ready
<1>5. PICK ready, at_, p, q :
        ready = L!Ready /\ at_ = lessonPlace /\ p = pathCopy.status /\ q = lessonStatus
  OBVIOUS
<1>6. /\ pathCopy.levels = listedLevels /\ pathCopy.lessons = ready /\ pathCopy.place = at_
      /\ \A l \in ready : /\ Grown(p[l], q[l])
                          /\ "progress" \notin pathSince => p[l] = q[l]
  BY <1>1, <1>2, <1>5 DEF LoadInv
<1>7. ready \in SUBSET PathLessons /\ at_ \in Naturals /\ p \in ProgressMaps /\ q \in ProgressMaps
  BY <1>1, <1>5, ReadyIs DEF PathType
<1>8. L!Shown = ready
  BY <1>5, <1>6 DEF L!Shown, L!Ready
<1>9. \A l : L!Opened(l) <=> L!Open(ready, at_, p, l)
  BY <1>5, <1>6 DEF L!Opened
<1>10. \A l \in ready : L!Accepts(l) <=> L!Open(ready, at_, q, l)
  BY <1>5 DEF L!Accepts
<1>11. ASSUME NEW l \in PathLessons, L!StateOf(l) \in {"current", "available"} PROVE L!Accepts(l)
  <2>1. l \in L!Shown /\ L!Opened(l)
    <3>1. l \in L!Shown /\ (L!Opened(l) \/ l = L!Current(LevelOfLesson[l]))
      BY <1>11 DEF L!StateOf
    <3>2. l # L!Nothing
      BY LessonsAre DEF L!Nothing
    <3> QED BY <1>1, <3>1, <3>2, CurrentIs
  <2>2. l \in ready /\ L!Open(ready, at_, p, l)
    BY <1>8, <1>9, <2>1
  <2>3. L!Open(ready, at_, q, l)
    BY <1>6, <1>7, <2>2, OpenGrows
  <2> QED BY <1>10, <2>2, <2>3
<1>12. ASSUME NEW l \in PathLessons, L!StateOf(l) = "locked", "progress" \notin pathSince PROVE ~L!Accepts(l)
  <2>1. l \in L!Shown /\ ~L!Opened(l)
    BY <1>12 DEF L!StateOf
  <2>2. l \in ready /\ ~L!Open(ready, at_, p, l)
    BY <1>8, <1>9, <2>1
  <2>3. \A k \in ready : Grown(q[k], p[k])
    BY <1>6, <1>12 DEF Grown
  <2>4. ~L!Open(ready, at_, q, l)
    BY <1>7, <2>2, <2>3, OpenGrows
  <2> QED BY <1>10, <2>2, <2>4
<1>13. ASSUME L!NextLesson # L!Nothing PROVE L!StateOf(L!NextLesson) = "current"
  <2>1. PICK n : n = L!NextLesson
    OBVIOUS
  <2>2. n \in L!Shown /\ pathCopy.status[n] # "done" /\ L!Current(LevelOfLesson[n]) = n
    BY <1>1, <1>13, <2>1, NextIs
  <2>3. L!StateOf(n) = "current"
    BY <2>2 DEF L!StateOf
  <2> QED BY <2>1, <2>3
<1>14. L!NextLesson # L!Nothing => L!NextLesson \in PathLessons
  BY <1>1, NextIs, CopyIs
<1>15. PICK state, next : state = pathOffer'.state /\ next = pathOffer'.next
  OBVIOUS
<1>16. state = [l \in PathLessons |-> L!StateOf(l)] /\ next = L!NextLesson
  BY <1>3, <1>15
<1>17. /\ \A l \in PathLessons : state[l] \in {"current", "available"} => L!Accepts(l)'
       /\ \A l \in PathLessons : state[l] = "locked" /\ "progress" \notin pathSince => ~L!Accepts(l)'
       /\ next # L!Nothing => state[next] = "current"
  BY <1>4, <1>11, <1>12, <1>13, <1>14, <1>16
<1> QED BY <1>1, <1>15, <1>17 DEF OffersAreHonoured, L!OffersAreHonoured

\* A step that leaves the content and the requests alone, and progress to grow.
LEMMA ProgressKeeps ==
  ASSUME PathInv, UNCHANGED <<listedLevels, publicLessons, lessonPlace, pathPc, pathUnread, pathCopy, pathOffer>>,
         lessonStatus' \in ProgressMaps, lastActive' \in Naturals, goalLevel' \in PathLevels \cup {0},
         pathClock' \in Nat, \A l \in PathLessons : Grown(lessonStatus[l], lessonStatus'[l]),
         \/ pathSince' = pathSince /\ lessonStatus' = lessonStatus
         \/ pathSince' = pathSince \cup {"progress"}
  PROVE  PathInv'
<1>1. PathType'
  BY DEF PathInv, PathType
<1>2. L!Ready' = L!Ready /\ L!Ready \in SUBSET PathLessons
  BY ReadyIs DEF L!Ready, PathInv
<1>3. LoadInv'
  <2>1. SUFFICES ASSUME pathPc = "loading", "content" \notin pathSince PROVE LoadInv'
    BY DEF LoadInv
  <2>2. ASSUME "progress" \notin pathUnread, NEW l \in L!Ready
        PROVE  /\ Grown(pathCopy.status[l], lessonStatus'[l])
               /\ "progress" \notin pathSince' => pathCopy.status[l] = lessonStatus'[l]
    <3>1. /\ Grown(pathCopy.status[l], lessonStatus[l])
          /\ "progress" \notin pathSince => pathCopy.status[l] = lessonStatus[l]
      BY <2>1, <2>2 DEF PathInv, LoadInv
    <3>2. Grown(lessonStatus[l], lessonStatus'[l])
      BY <1>2
    <3>3. Grown(pathCopy.status[l], lessonStatus'[l])
      BY <3>1, <3>2 DEF Grown
    <3> QED BY <3>1, <3>3
  <2> QED BY <1>2, <2>1, <2>2 DEF PathInv, LoadInv
<1>4. OffersAreHonoured'
  <2>1. SUFFICES ASSUME pathPc = "answered", "content" \notin pathSince PROVE OffersAreHonoured'
    BY DEF OffersAreHonoured, L!OffersAreHonoured
  <2>2. PICK state, next : state = pathOffer.state /\ next = pathOffer.next
    OBVIOUS
  <2>3. /\ \A l \in PathLessons : state[l] \in {"current", "available"} => L!Accepts(l)
        /\ \A l \in PathLessons : state[l] = "locked" /\ "progress" \notin pathSince => ~L!Accepts(l)
        /\ next # L!Nothing => state[next] = "current"
    BY <2>1, <2>2 DEF PathInv, OffersAreHonoured, L!OffersAreHonoured
  <2>4. \A l \in PathLessons : L!Accepts(l) => L!Accepts(l)'
    BY AcceptsGrows DEF PathInv
  <2>5. lessonStatus' = lessonStatus => \A l \in PathLessons : L!Accepts(l)' => L!Accepts(l)
    BY <1>2 DEF L!Accepts
  <2>6. "progress" \notin pathSince' => lessonStatus' = lessonStatus /\ "progress" \notin pathSince
    OBVIOUS
  <2>7. /\ \A l \in PathLessons : state[l] \in {"current", "available"} => L!Accepts(l)'
        /\ \A l \in PathLessons : state[l] = "locked" /\ "progress" \notin pathSince' => ~L!Accepts(l)'
    BY <2>3, <2>4, <2>5, <2>6
  <2>8. pathOffer'.state = state /\ pathOffer'.next = next
    BY <2>2
  <2> QED BY <2>3, <2>7, <2>8 DEF OffersAreHonoured, L!OffersAreHonoured
<1> QED BY <1>1, <1>3, <1>4 DEF PathInv

\* A request begins, or reads: what is read now is so now (learning-path.service.ts).
LEMMA AskKeeps == ASSUME PathInv, L!Ask PROVE PathInv'
<1>1. /\ UNCHANGED <<listedLevels, publicLessons, lessonPlace, lessonStatus, lastActive, goalLevel, pathClock>>
      /\ pathPc' = "loading" /\ pathUnread' = L!Parts /\ pathCopy' = L!NoCopy
  BY DEF L!Ask, L!content, L!personal
<1>2. PathType'
  <2>1. L!NoCopy \in [goal : PathLevels \cup {0}, levels : SUBSET PathLevels, lessons : SUBSET PathLessons,
                      place : Naturals, status : ProgressMaps, active : Naturals]
    BY LessonsAre DEF L!NoCopy, L!Nothing, Naturals, ProgressMaps, ProgressStatus
  <2> QED BY <1>1, <2>1 DEF PathInv, PathType
<1>3. LoadInv'
  BY <1>1 DEF LoadInv, L!Parts
<1>4. OffersAreHonoured'
  BY <1>1 DEF OffersAreHonoured, L!OffersAreHonoured
<1> QED BY <1>2, <1>3, <1>4 DEF PathInv

LEMMA LoadKeeps == ASSUME PathInv, NEW part \in L!Parts, L!Load(part) PROVE PathInv'
<1>1. /\ UNCHANGED <<listedLevels, publicLessons, lessonPlace, lessonStatus, lastActive, goalLevel,
                     pathClock, pathPc, pathSince>>
      /\ pathPc = "loading" /\ pathUnread' = pathUnread \ {part}
  BY DEF L!Load, L!content, L!personal
<1>2. PICK ready : ready = L!Ready
  OBVIOUS
<1>3. L!Ready' = ready /\ ready \in SUBSET PathLessons
  BY <1>1, <1>2, ReadyIs DEF PathInv, L!Ready
<1>4. PICK old, target, levels, lessons, at_, p, a :
        /\ old = pathCopy /\ target = old.goal /\ levels = old.levels /\ lessons = old.lessons
        /\ at_ = old.place /\ p = old.status /\ a = old.active
  OBVIOUS
<1>5. /\ target \in PathLevels \cup {0} /\ levels \in SUBSET PathLevels /\ lessons \in SUBSET PathLessons
      /\ at_ \in Naturals /\ p \in ProgressMaps /\ a \in Naturals
      /\ old = [goal |-> target, levels |-> levels, lessons |-> lessons, place |-> at_, status |-> p, active |-> a]
  BY <1>4 DEF PathInv, PathType
<1>6. PICK q, b : /\ q = [l \in PathLessons |-> IF l \in ready THEN lessonStatus[l] ELSE "none"]
                  /\ b = [l \in PathLessons |-> IF l \in ready THEN lastActive[l] ELSE 0]
  OBVIOUS
<1>7. q \in ProgressMaps /\ b \in Naturals
  BY <1>6 DEF PathInv, PathType, ProgressMaps, ProgressStatus, Naturals
<1>8. pathCopy' = CASE part = "goal" -> [old EXCEPT !.goal = goalLevel]
                    [] part = "levels" -> [old EXCEPT !.levels = listedLevels]
                    [] part = "lessons" -> [old EXCEPT !.lessons = ready, !.place = lessonPlace]
                    [] part = "progress" -> [old EXCEPT !.status = q, !.active = b]
  BY <1>2, <1>4, <1>6 DEF L!Load
<1>9. /\ part = "goal" => pathCopy' = [old EXCEPT !.goal = goalLevel]
      /\ part = "levels" => pathCopy' = [old EXCEPT !.levels = listedLevels]
      /\ part = "lessons" => pathCopy' = [old EXCEPT !.lessons = ready, !.place = lessonPlace]
      /\ part = "progress" => pathCopy' = [old EXCEPT !.status = q, !.active = b]
      /\ part \in {"goal", "levels", "lessons", "progress"}
  BY <1>8 DEF L!Parts
<1>10. PathType'
  <2>1. /\ goalLevel \in PathLevels \cup {0} /\ listedLevels \in SUBSET PathLevels
        /\ lessonPlace \in Naturals
    BY DEF PathInv, PathType
  <2>2. pathCopy' \in [goal : PathLevels \cup {0}, levels : SUBSET PathLevels, lessons : SUBSET PathLessons,
                       place : Naturals, status : ProgressMaps, active : Naturals]
    BY <1>3, <1>5, <1>7, <1>9, <2>1
  <2> QED BY <1>1, <2>2 DEF PathInv, PathType
<1>11. LoadInv'
  <2>1. SUFFICES ASSUME "content" \notin pathSince PROVE LoadInv'
    BY <1>1 DEF LoadInv
  <2>2. /\ "levels" \notin pathUnread => levels = listedLevels
        /\ "lessons" \notin pathUnread => lessons = ready /\ at_ = lessonPlace
        /\ "progress" \notin pathUnread =>
             \A l \in ready : /\ Grown(p[l], lessonStatus[l])
                              /\ "progress" \notin pathSince => p[l] = lessonStatus[l]
    BY <1>1, <1>2, <1>4, <2>1 DEF PathInv, LoadInv
  <2>3. "levels" \notin pathUnread' => pathCopy'.levels = listedLevels
    BY <1>1, <1>5, <1>9, <2>2
  <2>4. "lessons" \notin pathUnread' => pathCopy'.lessons = ready /\ pathCopy'.place = lessonPlace
    BY <1>1, <1>5, <1>9, <2>2
  <2>5. \A l \in ready : q[l] = lessonStatus[l] /\ Grown(q[l], lessonStatus[l])
    BY <1>3, <1>6 DEF Grown
  <2>6. PICK s : s = pathCopy'.status
    OBVIOUS
  <2>7. s = IF part = "progress" THEN q ELSE p
    BY <1>5, <1>9, <2>6
  <2>8. "progress" \notin pathUnread' =>
          \A l \in ready : /\ Grown(s[l], lessonStatus[l])
                           /\ "progress" \notin pathSince => s[l] = lessonStatus[l]
    BY <1>1, <2>2, <2>5, <2>7
  <2> QED BY <1>1, <1>3, <2>3, <2>4, <2>6, <2>8 DEF LoadInv
<1>12. OffersAreHonoured'
  BY <1>1 DEF OffersAreHonoured, L!OffersAreHonoured
<1> QED BY <1>10, <1>11, <1>12 DEF PathInv

LEMMA BuildKeeps == ASSUME PathInv, L!Build PROVE PathInv'
<1>1. /\ UNCHANGED <<listedLevels, publicLessons, lessonPlace, lessonStatus, lastActive, goalLevel, pathClock>>
      /\ pathPc' = "answered" /\ pathCopy' = L!NoCopy
  BY DEF L!Build, L!content, L!personal
<1>2. PathType'
  <2>1. L!NoCopy \in [goal : PathLevels \cup {0}, levels : SUBSET PathLevels, lessons : SUBSET PathLessons,
                      place : Naturals, status : ProgressMaps, active : Naturals]
    BY LessonsAre DEF L!NoCopy, L!Nothing, Naturals, ProgressMaps, ProgressStatus
  <2> QED BY <1>1, <2>1 DEF PathInv, PathType
<1> QED BY <1>1, <1>2, BuildHonours DEF PathInv, LoadInv

\* A transaction of the learner only adds to the progress of the lesson.
LEMMA WroteKeeps ==
  ASSUME PathInv, NEW l \in PathLessons, NEW s \in {"learning", "done"}, lessonStatus[l] # "done",
         L!Wrote(l, s)
  PROVE  PathInv'
<1>1. /\ UNCHANGED <<listedLevels, publicLessons, lessonPlace, goalLevel, pathClock,
                     pathPc, pathUnread, pathCopy, pathOffer>>
      /\ lessonStatus' = [lessonStatus EXCEPT ![l] = s]
      /\ lastActive' = [lastActive EXCEPT ![l] = IF s = "done" THEN 0 ELSE pathClock]
      /\ pathSince' = pathSince \cup {"progress"}
  BY DEF L!Wrote, L!content, L!request
<1>2. lessonStatus \in ProgressMaps /\ lastActive \in Naturals /\ goalLevel \in PathLevels \cup {0} /\ pathClock \in Nat
  BY DEF PathInv, PathType
<1>3. lessonStatus' \in ProgressMaps /\ lastActive' \in Naturals
  BY <1>1, <1>2 DEF ProgressMaps, ProgressStatus, Naturals
<1>4. \A k \in PathLessons : Grown(lessonStatus[k], lessonStatus'[k])
  BY <1>1, <1>2 DEF ProgressMaps, ProgressStatus, Grown
<1> QED BY <1>1, <1>2, <1>3, <1>4, ProgressKeeps

\* An edit of the content ends what an answer promises.
LEMMA EditKeeps ==
  ASSUME PathInv,
         \/ \E l \in PathLessons : L!Toggle(l) \/ L!Move(l)
         \/ \E v \in PathLevels : L!ToggleLevel(v)
  PROVE  PathInv'
<1>1. UNCHANGED <<lessonStatus, lastActive, goalLevel, pathClock, pathCopy>> /\ "content" \in pathSince'
  BY DEF L!Toggle, L!Move, L!ToggleLevel, L!Changed, L!personal, L!request
<1>2. listedLevels' \subseteq PathLevels /\ publicLessons' \subseteq PathLessons
  BY DEF L!Toggle, L!Move, L!ToggleLevel, PathInv, PathType
<1>3. lessonPlace' \in Naturals
  <2>1. lessonPlace \in Naturals
    BY DEF PathInv, PathType
  <2>2. \A l \in PathLessons : L!Move(l) => \E n \in Nat : lessonPlace' = [lessonPlace EXCEPT ![l] = n]
    BY LessonsAre DEF L!Move
  <2>3. CASE \E l \in PathLessons : L!Move(l)
    BY <2>1, <2>2, <2>3 DEF Naturals
  <2>4. CASE lessonPlace' = lessonPlace
    BY <2>1, <2>4
  <2> QED BY <2>3, <2>4 DEF L!Toggle, L!ToggleLevel
<1>4. PathType'
  BY <1>1, <1>2, <1>3 DEF PathInv, PathType
<1>5. LoadInv' /\ OffersAreHonoured'
  BY <1>1 DEF LoadInv, OffersAreHonoured, L!OffersAreHonoured
<1> QED BY <1>4, <1>5 DEF PathInv

LEMMA PathInvariance == L!Spec => []PathInv
<1>1. ASSUME L!Init PROVE PathInv
  <2>1. /\ listedLevels = PathLevels /\ publicLessons \in SUBSET PathLessons
        /\ lessonPlace = [l \in PathLessons |-> l] /\ lessonStatus = [l \in PathLessons |-> "none"]
        /\ lastActive = [l \in PathLessons |-> 0] /\ goalLevel \in PathLevels \cup {0} /\ pathClock = 0
        /\ pathPc = "idle" /\ pathCopy = L!NoCopy
    BY <1>1 DEF L!Init, L!Nothing
  <2>2. L!NoCopy \in [goal : PathLevels \cup {0}, levels : SUBSET PathLevels, lessons : SUBSET PathLessons,
                      place : Naturals, status : ProgressMaps, active : Naturals]
    BY LessonsAre DEF L!NoCopy, L!Nothing, Naturals, ProgressMaps, ProgressStatus
  <2>3. PathType
    BY <2>1, <2>2, LessonsAre DEF PathType, Naturals, ProgressMaps, ProgressStatus
  <2> QED BY <2>1, <2>3 DEF PathInv, LoadInv, OffersAreHonoured, L!OffersAreHonoured
<1>2. ASSUME PathInv, [L!Next]_L!vars PROVE PathInv'
  <2>1. CASE L!Ask \/ L!Build \/ \E part \in L!Parts : L!Load(part)
    BY <1>2, <2>1, AskKeeps, BuildKeeps, LoadKeeps
  <2>2. ASSUME NEW l \in PathLessons, L!Start(l) \/ L!Study(l) \/ L!Complete(l) PROVE PathInv'
    <3>1. lessonStatus[l] # "done" /\ (L!Wrote(l, "learning") \/ L!Wrote(l, "done"))
      BY <2>2 DEF L!Start, L!Study, L!Complete
    <3> QED BY <1>2, <3>1, WroteKeeps
  <2>3. CASE L!Follow
    BY <2>2, <2>3 DEF L!Follow
  <2>4. CASE L!Tick \/ (\E v \in PathLevels : L!SetGoal(v)) \/ UNCHANGED L!vars
    <3>1. /\ UNCHANGED <<listedLevels, publicLessons, lessonPlace, lessonStatus, lastActive,
                         pathPc, pathUnread, pathCopy, pathOffer>>
          /\ pathSince' = pathSince
      BY <2>4 DEF L!Tick, L!SetGoal, L!Changed, L!vars, L!content, L!personal, L!request
    <3>2. goalLevel' \in PathLevels \cup {0} /\ pathClock' \in Nat
      BY <1>2, <2>4 DEF L!Tick, L!SetGoal, L!vars, L!personal, PathInv, PathType
    <3>3. lessonStatus \in ProgressMaps /\ lastActive \in Naturals
      BY <1>2 DEF PathInv, PathType
    <3>4. \A l \in PathLessons : Grown(lessonStatus[l], lessonStatus'[l])
      BY <3>1 DEF Grown
    <3> QED BY <1>2, <3>1, <3>2, <3>3, <3>4, ProgressKeeps
  <2>5. CASE (\E l \in PathLessons : L!Toggle(l) \/ L!Move(l)) \/ \E v \in PathLevels : L!ToggleLevel(v)
    BY <1>2, <2>5, EditKeeps
  <2> QED BY <1>2, <2>1, <2>2, <2>3, <2>4, <2>5 DEF L!Next
<1> QED BY <1>1, <1>2, PTL DEF L!Spec

\* What the path shows open the server opens, what it shows locked the server
\* refuses, and what it offers next is the current lesson of its level, until the
\* content is edited, and but for the learner's own progress (learning-path.policy.ts and
\* the unlock check of lesson-activity.service.ts).
THEOREM OffersHonoured == L!Spec => []OffersAreHonoured
BY PathInvariance, PTL DEF PathInv

-----------------------------------------------------------------------------
(***************************************************************************)
(* The streak, for days of any length, zones apart by any number of        *)
(* instants, and any history.                                              *)
(*                                                                         *)
(* The difference between a day and the number of days up to it is the     *)
(* same for two days exactly when no day is missing between them, so that  *)
(* the group of the last day is the run that ends with it.                 *)
(***************************************************************************)

\* The days that end with `end` and go back n days.
Unbroken(days, now, n) == \E end \in {now - 1, now} : \A k \in 0 .. n - 1 : end - k \in days

\* The row that the query for the latest run returns.
RunOf(days) ==
  IF days = {} THEN K!NoneYet
  ELSE [last |-> K!Max(days),
        length |-> Cardinality({d \in days : K!Island(days, d) = K!Island(days, K!Max(days))})]

StreakInv ==
  /\ instant \in Nat /\ studied \in SUBSET Nat /\ seenEvents \in SUBSET Nat
  /\ moment \in Nat \cup {-1} /\ zone \in K!Zones
  /\ moment = -1 => today = -1 /\ latestRun = K!Pending /\ streak = -1
  /\ today # -1 => today = K!Day(zone, moment)
  /\ latestRun # K!Pending => latestRun = RunOf(K!LearningDays(seenEvents))
  /\ streak # -1 => /\ today # -1 /\ latestRun # K!Pending
                    /\ streak = K!CountStreak(latestRun, today)

\* A later instant belongs to the same day or to a later one.
LEMMA DayGrows ==
  ASSUME NEW a \in Nat, NEW b \in Nat, a <= b, NEW d \in Nat \ {0}
  PROVE  a \div d \in Nat /\ b \div d \in Nat /\ a \div d <= b \div d
<1>1. /\ a \div d \in Nat /\ d * (a \div d) <= a
      /\ b \div d \in Nat /\ b < d * (b \div d) + d
  OBVIOUS
<1>2. PICK x \in Nat, y \in Nat : x = a \div d /\ y = b \div d
  BY <1>1
<1>3. ASSUME x >= y + 1 PROVE FALSE
  <2>1. PICK z \in Nat : x = y + 1 + z
    BY <1>3
  <2>2. d * x = d * y + d + d * z /\ d * z >= 0
    BY <2>1
  <2> QED BY <1>1, <1>2, <2>2
<1> QED BY <1>1, <1>2, <1>3

\* Learning days are days up to the day of the request.
LEMMA DaysAre ==
  ASSUME NEW events \in SUBSET Nat, moment \in Nat
  PROVE  /\ K!Day(zone, moment) \in Nat
         /\ K!LearningDays(events) \in SUBSET (0 .. K!Day(zone, moment))
<1>1. PICK shift \in Nat : shift = IF zone = "own" THEN 0 ELSE Shift
  BY IntegrityAssumption
<1>2. \A t : K!Day(zone, t) = (t + shift) \div DayLength
  BY <1>1 DEF K!Day
<1>3. ASSUME NEW t \in Nat, t <= moment
      PROVE  K!Day(zone, t) \in Nat /\ K!Day(zone, moment) \in Nat /\ K!Day(zone, t) <= K!Day(zone, moment)
  <2>1. t + shift \in Nat /\ moment + shift \in Nat /\ t + shift <= moment + shift /\ DayLength \in Nat \ {0}
    BY <1>3, IntegrityAssumption
  <2> QED BY <1>2, <2>1, DayGrows
<1>4. K!Day(zone, moment) \in Nat
  BY <1>3
<1>5. \A d \in K!LearningDays(events) : d \in 0 .. K!Day(zone, moment)
  BY <1>3, <1>4 DEF K!LearningDays
<1> QED BY <1>4, <1>5

LEMMA Counts == \A T : K!Cardinality(T) = Cardinality(T)
  BY DEF K!Cardinality, Cardinality

\* Two days have the same number less their rank when no day is missing between.
LEMMA IslandIs ==
  ASSUME NEW days \in SUBSET Nat, IsFiniteSet(days), NEW d \in days, NEW e \in days, d <= e
  PROVE  K!Island(days, d) = K!Island(days, e) <=> d + 1 .. e \subseteq days
<1>0. \A x \in days : x \in Nat
  OBVIOUS
<1>1. PICK a, b, c : /\ a = {x \in days : x <= d} /\ b = {x \in days : x <= e}
                     /\ c = {x \in days : d < x /\ x <= e}
  OBVIOUS
<1>2. /\ a \in SUBSET days /\ b \in SUBSET days /\ c \in SUBSET days
      /\ b = a \cup c /\ a \cap c = {}
  <2>1. a \in SUBSET days /\ b \in SUBSET days /\ c \in SUBSET days
    BY <1>1
  <2>2. d \in Nat /\ e \in Nat
    BY <1>0
  <2>3. \A x \in days : (x \in b <=> x \in a \/ x \in c) /\ ~(x \in a /\ x \in c)
    BY <1>0, <1>1, <2>2
  <2> QED BY <2>1, <2>3
<1>3. IsFiniteSet(a) /\ IsFiniteSet(c) /\ Cardinality(a) \in Nat /\ Cardinality(c) \in Nat
  BY <1>2, FS_Subset, FS_CardinalityType
<1>4. Cardinality(b) = Cardinality(a) + Cardinality(c)
  <2>1. Cardinality(a \cup c) = Cardinality(a) + Cardinality(c) - Cardinality(a \cap c)
    BY <1>3, FS_Union
  <2>2. Cardinality(a \cap c) = 0
    BY <1>2, FS_EmptySet
  <2> QED BY <1>2, <1>3, <2>1, <2>2
<1>5. K!Island(days, d) = d - Cardinality(a) /\ K!Island(days, e) = e - Cardinality(b)
  BY <1>1, Counts DEF K!Island
<1>6. PICK between : between = d + 1 .. e
  OBVIOUS
<1>7. IsFiniteSet(between) /\ Cardinality(between) = e - d
  <2>1. d + 1 \in Int /\ e \in Int /\ d \in Int
    BY <1>0
  <2>2. IsFiniteSet(between) /\ Cardinality(between) = IF d + 1 > e THEN 0 ELSE e - (d + 1) + 1
    BY <1>6, <2>1, FS_Interval
  <2> QED BY <2>1, <2>2
<1>8. c \in SUBSET between /\ c = between \cap days
  <2>1. d \in Nat /\ e \in Nat
    BY <1>0
  <2>2. \A x \in days : x \in c <=> x \in between
    BY <1>0, <1>1, <1>6, <2>1
  <2>3. c \in SUBSET days
    BY <1>1
  <2> QED BY <2>2, <2>3
<1>9. Cardinality(c) = Cardinality(between) <=> c = between
  BY <1>7, <1>8, FS_Subset
<1>10. c = between <=> between \subseteq days
  BY <1>8
<1>11. K!Island(days, d) = K!Island(days, e) <=> Cardinality(c) = e - d
  BY <1>0, <1>3, <1>4, <1>5
<1> QED BY <1>6, <1>7, <1>9, <1>10, <1>11

\* The group of the last day is the run that ends with it, to its first day.
LEMMA RunIs ==
  ASSUME NEW now \in Nat, NEW days \in SUBSET (0 .. now), days # {}
  PROVE  \E first, last_ \in days :
           /\ last_ = K!Max(days) /\ \A d \in days : d <= last_
           /\ first .. last_ \subseteq days /\ first - 1 \notin days /\ first <= last_
           /\ RunOf(days) = [last |-> last_, length |-> last_ - first + 1]
<1>1. days \in SUBSET Nat /\ IsFiniteSet(days) /\ \A d \in days : d \in Nat /\ d <= now
  <2>1. PICK upTo : upTo = 0 .. now
    OBVIOUS
  <2>2. IsFiniteSet(upTo) /\ days \in SUBSET upTo
    BY <2>1, FS_Interval
  <2>3. \A x \in upTo : x \in Nat /\ x <= now
    BY <2>1
  <2> QED BY <2>2, <2>3, FS_Subset
<1>2. PICK m \in days : \A d \in days : d <= m
  <2>1. PICK T : T = {now - d : d \in days}
    OBVIOUS
  <2>2. T \in SUBSET Nat /\ T # {}
    <3>1. \A d \in days : now - d \in Nat
      BY <1>1
    <3> QED BY <2>1, <3>1
  <2>3. PICK x \in T : \A y \in T : x <= y
    BY <2>2, NatMin
  <2>4. PICK m \in days : x = now - m
    BY <2>1
  <2>5. \A d \in days : now - m <= now - d
    BY <2>1, <2>3, <2>4
  <2>6. \A d \in days : d <= m
    BY <1>1, <2>5
  <2> QED BY <2>6
<1>3. K!Max(days) = m
  <2>1. K!Max(days) \in days /\ \A d \in days : K!Max(days) >= d
    BY <1>2 DEF K!Max
  <2>2. PICK x : x = K!Max(days)
    OBVIOUS
  <2>3. x \in Nat /\ m \in Nat /\ x >= m /\ x <= m
    BY <1>1, <1>2, <2>1, <2>2
  <2> QED BY <2>2, <2>3
<1>4. PICK group_ : group_ = {d \in days : K!Island(days, d) = K!Island(days, m)}
  OBVIOUS
<1>5. \A d \in days : d \in group_ <=> d + 1 .. m \subseteq days
  BY <1>1, <1>2, <1>4, IslandIs
<1>6. m \in group_ /\ group_ \in SUBSET Nat
  BY <1>1, <1>4
<1>7. PICK f \in group_ : \A d \in group_ : f <= d
  BY <1>6, NatMin
<1>8. f \in days /\ f + 1 .. m \subseteq days /\ f <= m
  BY <1>2, <1>4, <1>5, <1>7
<1>9. f .. m \subseteq days
  BY <1>1, <1>8
<1>10. f - 1 \notin days
  <2>1. ASSUME f - 1 \in days PROVE FALSE
    <3>1. (f - 1) + 1 .. m \subseteq days
      BY <1>1, <1>8, <1>9
    <3>2. f - 1 \in group_
      BY <1>5, <2>1, <3>1
    <3> QED BY <1>1, <1>7, <1>8, <3>2
  <2> QED BY <2>1
<1>11. group_ = f .. m
  <2>1. \A d \in group_ : d \in f .. m
    BY <1>1, <1>2, <1>4, <1>7
  <2>2. ASSUME NEW d \in f .. m PROVE d \in group_
    <3>1. d \in days /\ d + 1 .. m \subseteq f .. m
      BY <1>1, <1>8, <1>9
    <3> QED BY <1>5, <1>9, <3>1
  <2> QED BY <2>1, <2>2
<1>12. Cardinality(group_) = m - f + 1
  BY <1>1, <1>8, <1>11, FS_Interval
<1>13. RunOf(days) = [last |-> m, length |-> m - f + 1]
  BY <1>3, <1>4, <1>12 DEF RunOf
<1> QED BY <1>2, <1>3, <1>8, <1>9, <1>10, <1>13

\* The row counts what the property counts, wherever it is looked at from.
LEMMA RunCounts ==
  ASSUME NEW now \in Nat, NEW days \in SUBSET (0 .. now)
  PROVE  LET n == K!CountStreak(RunOf(days), now) IN
         Unbroken(days, now, n) /\ \A k \in Nat : Unbroken(days, now, k) => k <= n
<1> DEFINE n == K!CountStreak(RunOf(days), now)
<1>1. \A d \in days : d \in Nat /\ d <= now
  OBVIOUS
<1>2. Unbroken(days, now, 0)
  BY DEF Unbroken
<1>3. CASE days = {}
  <2>1. RunOf(days) = [last |-> -2, length |-> 0]
    BY <1>3 DEF RunOf, K!NoneYet
  <2>2. n = 0
    BY <2>1 DEF K!CountStreak
  <2>3. ASSUME NEW k \in Nat, Unbroken(days, now, k), k > 0 PROVE FALSE
    <3>1. 0 \in 0 .. k - 1
      BY <2>3
    <3> QED BY <1>3, <2>3, <3>1 DEF Unbroken
  <2> HIDE DEF n
  <2>4. \A k \in Nat : Unbroken(days, now, k) => k <= n
    BY <2>2, <2>3
  <2> QED BY <1>2, <2>2, <2>4 DEF n
<1>4. CASE days # {}
  <2>1. PICK f, m \in days :
          /\ m = K!Max(days) /\ \A d \in days : d <= m
          /\ f .. m \subseteq days /\ f - 1 \notin days /\ f <= m
          /\ RunOf(days) = [last |-> m, length |-> m - f + 1]
    BY <1>4, RunIs
  <2>2. f \in Nat /\ m \in Nat /\ m <= now
    BY <1>1
  <2>3. n = IF m \in {now, now - 1} THEN m - f + 1 ELSE 0
    BY <2>1 DEF K!CountStreak
  <2> HIDE DEF n
  <2>4. ASSUME NEW k \in Nat, k > 0, Unbroken(days, now, k)
        PROVE  \E end \in {now - 1, now} : end \in days /\ end <= m /\ end \in Nat
                                           /\ \A i \in 0 .. k - 1 : end - i \in days
    <3>1. PICK end \in {now - 1, now} : \A i \in 0 .. k - 1 : end - i \in days
      BY <2>4 DEF Unbroken
    <3>2. 0 \in 0 .. k - 1 /\ end - 0 = end
      BY <2>4
    <3>3. end \in days
      BY <3>1, <3>2
    <3> QED BY <1>1, <2>1, <3>1, <3>3
  <2>5. CASE m \in {now, now - 1}
    <3>1. n = m - f + 1 /\ n \in Nat
      BY <2>1, <2>2, <2>3, <2>5
    <3>2. \A i \in 0 .. n - 1 : m - i \in f .. m
      BY <2>1, <2>2, <3>1
    <3>3. Unbroken(days, now, n)
      BY <2>1, <2>5, <3>2 DEF Unbroken
    <3>4. ASSUME NEW k \in Nat, Unbroken(days, now, k), k > n PROVE FALSE
      <4>1. k > 0
        BY <3>1, <3>4
      <4>2. PICK end \in {now - 1, now} : end \in days /\ end <= m /\ end \in Nat
                                          /\ \A i \in 0 .. k - 1 : end - i \in days
        BY <2>4, <3>4, <4>1
      <4>3. PICK i : i = end - (f - 1)
        OBVIOUS
      <4>4. end \in {m - 1, m}
        BY <2>2, <2>5, <4>2
      <4>5. i \in 0 .. k - 1 /\ end - i = f - 1
        BY <2>1, <2>2, <3>1, <3>4, <4>3, <4>4
      <4> QED BY <2>1, <4>2, <4>5
    <3> QED BY <3>1, <3>3, <3>4 DEF n
  <2>6. CASE m \notin {now, now - 1}
    <3>1. n = 0
      BY <2>3, <2>6
    <3>2. ASSUME NEW k \in Nat, Unbroken(days, now, k), k > 0 PROVE FALSE
      BY <2>2, <2>4, <2>6, <3>2
    <3>3. \A k \in Nat : Unbroken(days, now, k) => k <= n
      BY <3>1, <3>2
    <3> QED BY <1>2, <3>1, <3>3 DEF n
  <2> QED BY <2>5, <2>6
<1> QED BY <1>3, <1>4

LEMMA StreakInvariance == K!Spec => []StreakInv
<1>1. ASSUME K!Init PROVE StreakInv
  BY <1>1 DEF K!Init, StreakInv, K!Zones, K!Pending
<1>2. ASSUME StreakInv, [K!Next]_K!vars PROVE StreakInv'
  <2>1. CASE K!Study \/ K!Tick \/ UNCHANGED K!vars
    <3>1. UNCHANGED <<moment, zone, known, today, latestRun, seenEvents, streak>>
      BY <2>1 DEF K!Study, K!Tick, K!vars, K!request
    <3>2. instant' \in Nat /\ studied' \in SUBSET Nat
      <4>1. instant \in Nat /\ studied \in SUBSET Nat
        BY <1>2 DEF StreakInv
      <4>2. instant' \in {instant, instant + 1} /\ studied' \in {studied, studied \cup {instant}}
        BY <2>1 DEF K!Study, K!Tick, K!vars
      <4> QED BY <4>1, <4>2
    <3>3. /\ K!Day(zone, moment)' = K!Day(zone, moment)
          /\ RunOf(K!LearningDays(seenEvents))' = RunOf(K!LearningDays(seenEvents))
      BY <3>1 DEF K!Day, K!LearningDays, RunOf, K!Island, K!Max
    <3> QED BY <1>2, <3>1, <3>2, <3>3 DEF StreakInv, K!CountStreak
  <2>2. CASE K!GetHome
    BY <1>2, <2>2 DEF K!GetHome, StreakInv, K!Zones, K!Pending
  <2>3. CASE K!LoadToday
    <3>1. /\ UNCHANGED <<instant, studied, moment, zone, latestRun, seenEvents, streak>>
          /\ moment # -1 /\ streak = -1 /\ today' = K!Day(zone, moment)
      BY <2>3 DEF K!LoadToday, K!Asked
    <3>2. K!Day(zone, moment)' = K!Day(zone, moment)
      BY <3>1 DEF K!Day
    <3>3. RunOf(K!LearningDays(seenEvents))' = RunOf(K!LearningDays(seenEvents))
      BY <3>1 DEF K!Day, K!LearningDays, RunOf, K!Island, K!Max
    <3> QED BY <1>2, <3>1, <3>2, <3>3 DEF StreakInv
  <2>4. CASE K!LoadLatestRun
    <3>1. /\ UNCHANGED <<instant, studied, moment, zone, today, streak>>
          /\ moment # -1 /\ streak = -1 /\ seenEvents' = studied
          /\ latestRun' = RunOf(K!LearningDays(studied))
      BY <2>4, Counts DEF K!LoadLatestRun, K!Asked, RunOf
    <3>2. K!Day(zone, moment)' = K!Day(zone, moment)
      BY <3>1 DEF K!Day
    <3>3. RunOf(K!LearningDays(seenEvents))' = RunOf(K!LearningDays(studied))
      BY <3>1 DEF K!Day, K!LearningDays, RunOf, K!Island, K!Max
    <3> QED BY <1>2, <3>1, <3>2, <3>3 DEF StreakInv
  <2>5. CASE K!Fallback
    BY <1>2, <2>5 DEF K!Fallback, K!Asked, StreakInv, K!Zones
  <2>6. CASE K!Answer
    <3>1. /\ UNCHANGED <<instant, studied, moment, zone, today, latestRun, seenEvents>>
          /\ moment # -1 /\ today # -1 /\ latestRun # K!Pending
          /\ streak' = K!CountStreak(latestRun, today)
      BY <2>6 DEF K!Answer, K!Asked
    <3>2. /\ K!Day(zone, moment)' = K!Day(zone, moment)
          /\ RunOf(K!LearningDays(seenEvents))' = RunOf(K!LearningDays(seenEvents))
          /\ K!CountStreak(latestRun, today)' = K!CountStreak(latestRun, today)
      BY <3>1 DEF K!Day, K!LearningDays, RunOf, K!Island, K!Max, K!CountStreak
    <3> QED BY <1>2, <3>1, <3>2 DEF StreakInv
  <2> QED BY <1>2, <2>1, <2>2, <2>3, <2>4, <2>5, <2>6 DEF K!Next
<1> QED BY <1>1, <1>2, PTL DEF K!Spec

\* The streak is the number of learning days without a gap that end today or
\* yesterday, in one zone and as of the moment of the request (learning-home.service.ts
\* and countStreak), whatever is studied while the queries run.
THEOREM StreakExact == K!Spec => []StreakIsExact
<1>1. ASSUME StreakInv PROVE StreakIsExact
  <2>1. SUFFICES ASSUME streak # -1 PROVE StreakIsExact
    BY DEF StreakIsExact, K!StreakIsExact
  <2>2. PICK days, now : days = K!LearningDays(seenEvents) /\ now = K!Day(zone, moment)
    OBVIOUS
  <2>3. moment \in Nat /\ seenEvents \in SUBSET Nat /\ streak = K!CountStreak(RunOf(days), now)
    BY <1>1, <2>1, <2>2 DEF StreakInv
  <2>4. now \in Nat /\ days \in SUBSET (0 .. now)
    BY <2>2, <2>3, DaysAre
  <2>5. Unbroken(days, now, streak) /\ \A k \in Nat : Unbroken(days, now, k) => k <= streak
    BY <2>3, <2>4, RunCounts
  <2>6. \A k \in 0 .. K!Cardinality(days) : k \in Nat
    OBVIOUS
  <2> QED BY <2>2, <2>5, <2>6 DEF StreakIsExact, K!StreakIsExact, Unbroken
<1> QED BY <1>1, StreakInvariance, PTL
=============================================================================
