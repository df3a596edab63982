--------------------------- MODULE MigrationRecovery ---------------------------
(***************************************************************************)
(* Deploying a migration with a deadline, and resolving one that failed.   *)
(*                                                                         *)
(* A deploy (bounded-prisma-migrate-deploy.ts) supervises a group of       *)
(* processes: Prisma's command line and its schema engine.  The engine has *)
(* a session in PostgreSQL, which applies the migration as one implicit    *)
(* transaction.  A deadline or a signal kills the group, not the session:  *)
(* PostgreSQL notices a dead client when the statement batch is over.      *)
(*                                                                         *)
(* A resolve (bounded-prisma-migrate-resolve-rolled-back.ts) marks the one *)
(* failed row of the target as rolled back, in one guarded transaction     *)
(* under the advisory lock that the engine takes too.                      *)
(***************************************************************************)
EXTENDS Naturals, Sequences, FiniteSets

CONSTANTS
  Runs, NoRun,    \* invocations of the two scripts
  Guarded,        \* the target is the cleanup-audit migration, whose residue is probed
  MaxAttempts     \* bound on the rows of the target in the migration history

VARIABLES
  rows,     \* the target's rows in _prisma_migrations, oldest first; done: its DDL committed
  sound,    \* whether the data passes the migration's own preflight
  lock,     \* the holder of Prisma's advisory lock
  run,      \* the wrapper script of each run
  group,    \* the processes of a deploy that are alive
  engine,   \* what the schema engine of a deploy does next
  session   \* the engine's session in PostgreSQL

database == <<rows, sound, lock>>
child == <<group, engine, session>>
vars == <<rows, sound, lock, run, group, engine, session>>

Processes == {"cli", "engine"}
NotStarted == [kind |-> "none", pc |-> "idle", late |-> FALSE, signal |-> FALSE,
               exit |-> "none", changed |-> FALSE]

Init ==
  /\ rows = <<>> /\ lock = NoRun /\ sound \in BOOLEAN
  /\ run = [r \in Runs |-> NotStarted]
  /\ group = [r \in Runs |-> {}]
  /\ engine = [r \in Runs |-> "none"]
  /\ session = [r \in Runs |-> "none"]

Unresolved == \E i \in DOMAIN rows : rows[i].state = "unfinished"
Finished == \E i \in DOMAIN rows : rows[i].state = "finished"
Applied == \E i \in DOMAIN rows : rows[i].done

Goto(r, pc) == run' = [run EXCEPT ![r].pc = pc]

\* main prefers the signal over any exit but a resolve's success.
Report(r, exit) ==
  run' = [run EXCEPT ![r].pc = "reported",
                     ![r].exit = IF run[r].signal /\ ~(run[r].kind = "resolve" /\ exit = "ok")
                                 THEN "signal" ELSE exit]

Release(r) == lock' = IF lock = r THEN NoRun ELSE lock

-----------------------------------------------------------------------------
(* Deploy: the wrapper.                                                     *)

StartDeploy(r) ==
  /\ run[r].pc = "idle"
  /\ run' = [run EXCEPT ![r].kind = "deploy", ![r].pc = "preflight"]
  /\ UNCHANGED <<database, child>>

\* The lock preflight is a supervised process too, but it changes nothing.
Preflight(r) ==
  /\ run[r].pc = "preflight"
  /\ \/ Report(r, "deadline") /\ run[r].late /\ UNCHANGED child
     \/ Report(r, "internal") /\ run[r].signal /\ UNCHANGED child
     \/ \E exit \in {"lock_timeout", "failed"} : Report(r, exit) /\ UNCHANGED child
     \/ /\ ~run[r].late /\ ~run[r].signal
        /\ Goto(r, "deploy")
        /\ group' = [group EXCEPT ![r] = Processes]
        /\ engine' = [engine EXCEPT ![r] = "lock"]
        /\ session' = [session EXCEPT ![r] = "idle"]
  /\ UNCHANGED database

\* Mutant. The deadline's timer is never armed.
TerminateOnSignal(r) ==
  /\ run[r].pc = "deploy" /\ run[r].signal
  /\ Goto(r, "stopping")
  /\ UNCHANGED <<database, child>>

\* spawnSupervisedBoundedMigrationProcess: the deadline or a signal comes first.
Terminate(r) ==
  /\ run[r].pc = "deploy" /\ (run[r].late \/ run[r].signal)
  /\ Goto(r, "stopping")
  /\ UNCHANGED <<database, child>>

\* The command line is gone first; whatever it left behind is an error.
ChildClosed(r) ==
  /\ run[r].pc = "deploy" /\ "cli" \notin group[r]
  /\ Goto(r, IF group[r] = {} THEN "classify" ELSE "stopping")
  /\ UNCHANGED <<database, child>>

\* A process that is killed takes its idle session along; a running batch goes on.
Dies(r, processes) ==
  /\ group' = [group EXCEPT ![r] = @ \ processes]
  /\ IF "engine" \in processes \cap group[r] /\ session[r] = "idle"
     THEN session' = [session EXCEPT ![r] = "none"] /\ Release(r)
     ELSE UNCHANGED <<session, lock>>
  /\ UNCHANGED <<rows, sound, engine, run>>

\* SIGTERM reaches who heeds it, SIGKILL everybody.
Kill(r) ==
  /\ run[r].pc = "stopping" /\ group[r] # {}
  /\ \E processes \in SUBSET group[r] \ {{}} : Dies(r, processes)

\* Mutant. The wrapper stops waiting after the second signal.
StoppedUnproven(r) == run[r].pc = "stopping"

\* The wrapper waits until the whole group is gone, however long that takes.
Stopped(r) == run[r].pc = "stopping" /\ group[r] = {}

\* What the child tells: success when it ended by itself, otherwise what its output
\* says, or the log that Prisma has retained of the failed row.
Told(r) ==
  CASE engine[r] = "blocked"                            -> "retry_block"
    [] engine[r] = "finished" /\ run[r].pc = "classify" -> "ok"
    [] engine[r] = "locked_out"                         -> "lock_timeout"
    [] engine[r] = "refused"                            -> "domain_preflight"
    [] OTHER                                            -> "failed"

\* classifyBoundedMigrationExitCode: a deadline first, then what the child told.  The
\* command line may have crashed, or its output hides what the database said and no
\* time is left to read the log: the exit is a plain failure then.
Outcomes(r) ==
  IF run[r].late /\ run[r].pc = "stopping" THEN {"deadline"} ELSE {Told(r), "failed"}

DeployReports(r) ==
  /\ Stopped(r) \/ run[r].pc = "classify"
  /\ \E exit \in Outcomes(r) : Report(r, exit)
  /\ UNCHANGED <<database, child>>

-----------------------------------------------------------------------------
(* Deploy: the schema engine and its session.                               *)

EngineAt(r, pc) == "engine" \in group[r] /\ engine[r] = pc

\* The engine's connection and, with it, the advisory lock are gone.
EngineExits(r, result) ==
  /\ engine' = [engine EXCEPT ![r] = result]
  /\ group' = [group EXCEPT ![r] = @ \ {"engine"}]
  /\ session' = [session EXCEPT ![r] = "none"]
  /\ Release(r)

EngineLocks(r) ==
  /\ EngineAt(r, "lock")
  /\ \/ /\ lock = NoRun /\ lock' = r
        /\ engine' = [engine EXCEPT ![r] = "history"]
        /\ UNCHANGED <<group, session>>
     \/ lock # NoRun /\ EngineExits(r, "timed_out")
  /\ UNCHANGED <<rows, sound, run>>

\* A failed row blocks every deploy (P3009); a finished one leaves nothing to do.
EngineReadsHistory(r) ==
  /\ EngineAt(r, "history")
  /\ \/ Unresolved /\ EngineExits(r, "blocked") /\ UNCHANGED <<rows, run>>
     \/ ~Unresolved /\ Finished /\ EngineExits(r, "finished") /\ UNCHANGED <<rows, run>>
     \/ /\ ~Unresolved /\ ~Finished /\ Len(rows) < MaxAttempts
        /\ rows' = Append(rows, [state |-> "unfinished", done |-> FALSE])
        /\ run' = [run EXCEPT ![r].changed = TRUE]
        /\ engine' = [engine EXCEPT ![r] = "send"]
        /\ UNCHANGED <<lock, group, session>>
  /\ UNCHANGED sound

EngineSendsBatch(r) ==
  /\ EngineAt(r, "send")
  /\ engine' = [engine EXCEPT ![r] = "await"]
  /\ session' = [session EXCEPT ![r] = "batch"]
  /\ UNCHANGED <<database, run, group>>

\* The implicit transaction commits or rolls back as a whole: on its own preflight,
\* on a lock it waited for too long (55P03), on objects that already exist.
BatchEnds(r) ==
  /\ session[r] = "batch"
  /\ \E result \in {"committed", "refused", "locked_out", "failed"} :
       /\ result = "committed" => sound /\ ~Applied
       /\ result = "refused" => ~sound
       /\ rows' = IF result = "committed" THEN [rows EXCEPT ![Len(rows)].done = TRUE] ELSE rows
       /\ IF "engine" \in group[r]
          THEN /\ session' = [session EXCEPT ![r] = "idle"]
               /\ engine' = [engine EXCEPT ![r] = result]
               /\ UNCHANGED lock
          ELSE /\ session' = [session EXCEPT ![r] = "none"]
               /\ Release(r) /\ UNCHANGED engine
  /\ UNCHANGED <<sound, run, group>>

EngineFinishes(r) ==
  \/ /\ EngineAt(r, "committed")
     /\ rows' = [rows EXCEPT ![Len(rows)].state = "finished"]
     /\ EngineExits(r, "finished")
     /\ UNCHANGED <<sound, run>>
  \/ \E result \in {"refused", "locked_out", "failed"} :
       /\ EngineAt(r, result) /\ EngineExits(r, result)
       /\ UNCHANGED <<rows, sound, run>>

\* The command line ends after its engine, or crashes before it.
CliEnds(r) == "cli" \in group[r] /\ Dies(r, {"cli"})

-----------------------------------------------------------------------------
(* Resolve: one transaction.                                                *)

InTransaction == {"tables", "check", "mutate", "verify", "commit"}

\* Leaving the transaction before its decision rolls it back.
RollBack(r, exit) == Report(r, exit) /\ Release(r) /\ UNCHANGED <<rows, sound, child>>

StartResolve(r) ==
  /\ run[r].pc = "idle"
  /\ run' = [run EXCEPT ![r].kind = "resolve", ![r].pc = "advisory"]
  /\ UNCHANGED <<database, child>>

TryAdvisoryLock(r) ==
  /\ run[r].pc = "advisory"
  /\ \/ /\ lock = NoRun /\ lock' = r /\ Goto(r, "tables")
        /\ UNCHANGED <<rows, sound, child>>
     \/ lock # NoRun /\ RollBack(r, "unsafe")
     \/ run[r].signal /\ RollBack(r, "internal")
     \/ run[r].late /\ RollBack(r, "deadline")

\* SHARE ROW EXCLUSIVE on the history, for the guarded target also on its tables.
LockTables(r) ==
  /\ run[r].pc = "tables"
  /\ \/ Goto(r, "check") /\ UNCHANGED <<database, child>>
     \/ \E exit \in {"unsafe", "internal"} : RollBack(r, exit)

\* The tables of the guarded target cannot change while it is resolved.
TablesLocked ==
  Guarded /\ \E r \in Runs : run[r].pc \in InTransaction \ {"tables"}

\* Mutant. No target is probed for what the migration has left.
NoResidueUnprobed == TRUE

\* Functions, triggers and invariant violations are counted for one target only.
NoResidue == Guarded => ~Applied /\ sound

\* assertMigrationResolvePreconditions
Resolvable == Len(rows) = 1 /\ rows[1].state = "unfinished" /\ NoResidue

CheckPreconditions(r) ==
  /\ run[r].pc = "check"
  /\ IF Resolvable THEN Goto(r, "mutate") /\ UNCHANGED <<database, child>>
                   ELSE RollBack(r, "unsafe")

\* The deadline keeps 250 ms in reserve for the end of the transaction.
MarkRolledBack(r) ==
  /\ run[r].pc = "mutate"
  /\ IF run[r].late THEN RollBack(r, "deadline")
     ELSE IF run[r].signal THEN RollBack(r, "internal")
     ELSE Goto(r, "verify") /\ UNCHANGED <<database, child>>

\* The postcondition reads the transaction's own update.
VerifyPostcondition(r) ==
  /\ run[r].pc = "verify"
  /\ IF run[r].late THEN RollBack(r, "deadline")
     ELSE IF run[r].signal THEN RollBack(r, "internal")
     ELSE Goto(r, "commit") /\ UNCHANGED <<database, child>>

\* Once the decision is taken, only the COMMIT counts.
Commits(r) ==
  /\ rows' = [rows EXCEPT ![1].state = "rolledback"]
  /\ Release(r)
  /\ UNCHANGED <<sound, child>>

\* Mutant. A late deadline or signal hides an acknowledged commit.
CommitAnswerLate(r) == IF run[r].late \/ run[r].signal THEN "unsafe" ELSE "ok"

CommitAnswer(r) == "ok"

CommitAcknowledged(r) ==
  /\ run[r].pc = "commit" /\ Commits(r)
  /\ run' = [run EXCEPT ![r].pc = "reported", ![r].exit = CommitAnswer(r), ![r].changed = TRUE]

\* The connection is lost around the COMMIT, which may have happened or not.
CommitUnknown(r) ==
  LET exit == IF run[r].late THEN "deadline" ELSE "internal" IN
  /\ run[r].pc = "commit"
  /\ \/ RollBack(r, exit)
     \/ Commits(r) /\ run' = [run EXCEPT ![r].pc = "reported", ![r].exit = exit,
                                        ![r].changed = TRUE]

-----------------------------------------------------------------------------
(* The world around them.                                                   *)

Running(r) == run[r].pc \notin {"idle", "reported", "dead"}

DeadlinePasses(r) ==
  /\ Running(r) /\ ~run[r].late
  /\ run' = [run EXCEPT ![r].late = TRUE]
  /\ UNCHANGED <<database, child>>

Signal(r) ==
  /\ Running(r) /\ ~run[r].signal
  /\ run' = [run EXCEPT ![r].signal = TRUE]
  /\ UNCHANGED <<database, child>>

\* The wrapper itself is killed.  A deploy's group is detached and lives on; a
\* resolve's session ends, and with it the transaction, unless it was committing.
WrapperDies(r) ==
  /\ Running(r)
  /\ run' = [run EXCEPT ![r].pc = "dead"]
  /\ IF run[r].kind = "deploy" THEN UNCHANGED <<database, child>>
     ELSE \/ run[r].pc = "commit" /\ Commits(r)
          \/ Release(r) /\ UNCHANGED <<rows, sound, child>>

\* The operator reconciles the data, or writers break it again.
DataChanges ==
  /\ ~TablesLocked
  /\ sound' = ~sound
  /\ UNCHANGED <<rows, lock, run, child>>

Wrapper(r) ==
  \/ Preflight(r) \/ Terminate(r) \/ ChildClosed(r) \/ Kill(r) \/ DeployReports(r)
  \/ TryAdvisoryLock(r) \/ LockTables(r) \/ CheckPreconditions(r) \/ MarkRolledBack(r)
  \/ VerifyPostcondition(r) \/ CommitAcknowledged(r) \/ CommitUnknown(r)

Engine(r) ==
  \/ EngineLocks(r) \/ EngineReadsHistory(r) \/ EngineSendsBatch(r) \/ BatchEnds(r)
  \/ EngineFinishes(r) \/ CliEnds(r)

Next ==
  \/ \E r \in Runs : \/ StartDeploy(r) \/ StartResolve(r) \/ Wrapper(r) \/ Engine(r)
                     \/ DeadlinePasses(r) \/ Signal(r) \/ WrapperDies(r)
  \/ DataChanges

Spec == Init /\ [][Next]_vars

\* The event loop of a wrapper runs, its deadline passes, SIGKILL kills.
FairSpec == Spec /\ \A r \in Runs : WF_vars(Wrapper(r)) /\ WF_vars(DeadlinePasses(r))

-----------------------------------------------------------------------------
(* Properties.                                                              *)

States == {"unfinished", "finished", "rolledback"}

\* The history tells what happened to the schema, whoever was killed and
\* whatever his session did afterwards: a finished migration is applied, one that
\* is marked as rolled back left nothing (the residue probe and the advisory lock,
\* bounded-prisma-migrate-resolve-rolled-back.ts:188-237, 573-597, 778-814).
HistoryIsTrue ==
  \A i \in DOMAIN rows :
    /\ rows[i].state = "finished" => rows[i].done
    /\ rows[i].state = "rolledback" => ~rows[i].done

\* The exit code tells what was done, whatever signal or deadline came late: success
\* only of a change that is there, a refusal only of no change at all.  A lock timeout
\* or a refusal by the database may come after the deploy has written its row: then
\* that row stands for a migration that is not applied
\* (bounded-prisma-migrate-deploy.ts:523-541, 719-728;
\* bounded-prisma-migrate-resolve-rolled-back.ts:879-887, 1001-1035).
ExitsAreTrue ==
  \A r \in Runs : run[r].pc = "reported" =>
    /\ run[r].exit \in {"unsafe", "retry_block"} => ~run[r].changed
    /\ run[r].exit \in {"lock_timeout", "domain_preflight"} /\ run[r].changed =>
         \E i \in DOMAIN rows : rows[i].state # "finished" /\ ~rows[i].done
    /\ run[r].exit = "ok" /\ run[r].kind = "deploy" => Finished
    /\ run[r].exit = "ok" /\ run[r].kind = "resolve" =>
         \E i \in DOMAIN rows : rows[i].state = "rolledback"
    /\ run[r].kind = "resolve" /\ run[r].changed =>
         run[r].exit \in {"ok", "internal", "deadline"}

\* A deploy is reported only when no process of it is left to change the schema
\* (bounded-prisma-migrate-deploy.ts:380-386).
ReportsComeLast ==
  \A r \in Runs : run[r].pc = "reported" => group[r] = {}

\* Every run that is not killed itself comes to an end, also when its child hangs
\* or the lock is never released (bounded-prisma-migrate-deploy.ts:333-386).
RunsEnd == \A r \in Runs : Running(r) ~> ~Running(r)
=============================================================================
