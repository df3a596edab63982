-------------------------- MODULE CurriculumIntegrity --------------------------
(***************************************************************************)
(* The triggers that keep tables of the curriculum consistent with each    *)
(* other, under PostgreSQL's row locks and READ COMMITTED, and the         *)
(* transactions of OnboardingService that write under them.                *)
(*                                                                         *)
(* A transaction runs one statement.  What the database and its triggers   *)
(* do for it is a program of locks and checks; a lock waits for            *)
(* conflicting locks of others, a check reads what is committed, a failing *)
(* check rolls back.  Foreign keys lock the row they reference FOR KEY     *)
(* SHARE; triggers fire in the order of their names ("RI_..." among them). *)
(***************************************************************************)
EXTENDS Naturals, Sequences

CONSTANTS
  Transactions,
  Statements,   \* the statements that transactions may run
  Users, Levels, Tests, Attempts, Lessons, Topics, Exercises, Bands,
  Seed,         \* the curriculum that is there before the transactions
  None

VARIABLES
  range,        \* Level: the bands from minBand to maxBand
  testLevel,    \* Test.levelId
  attempt,      \* ExamAttempt.status
  lessonLevel,  \* Lesson.levelId
  topicLesson,  \* Topic.lessonId
  place,        \* LessonExercise.lessonId, topicId
  rows,         \* the rows of the tables that refer to those
  goal, plan,   \* the active UserGoal and LearningPlan of a user
  txn, locks

parents == <<range, testLevel, attempt, lessonLevel, topicLesson, place>>
vars == <<range, testLevel, attempt, lessonLevel, topicLesson, place, rows, goal, plan, txn, locks>>

Places == [lesson : Lessons, topic : Topics \cup {None}]

\* A statement that writes a row of a child table, or that changes a parent.
Goals == [table : {"UserGoal"}, user : Users, level : Levels, band : Bands]
Plans == [table : {"LearningPlan"}, user : Users, level : Levels, band : Bands]
Placements == [table : {"PlacementAttempt"}, level : Levels, band : Bands]
Results == [table : {"Result"}, test : Tests, attempt : Attempts, band : Bands]
Stories == [table : {"Story"}, lesson : Lessons, level : Levels]
Words == [table : {"LessonWord"}, lesson : Lessons, topic : Topics]
ProgressRows == [table : {"Progress"}, lesson : Lessons, topic : Topics, exercise : Exercises]
TopicEvents == [table : {"TopicEvent"}, lesson : Lessons, topic : Topics]
ExerciseEvents == [table : {"ExerciseEvent"}, exercise : Exercises,
                   lesson : Lessons, topic : Topics \cup {None}]
Banded == Goals \cup Plans \cup Placements
Children == Banded \cup Results \cup Stories \cup Words \cup ProgressRows
              \cup TopicEvents \cup ExerciseEvents
PlanRequests == [table : {"LearningPlan"}, user : Users, level : {None}, band : {None}]
Changes ==
  [table : {"Level"}, level : Levels, range : SUBSET Bands]
    \cup [table : {"Test"}, test : Tests, level : Levels]
    \cup [table : {"ExamAttempt"}, attempt : Attempts, status : {"open", "final", "void"}]
    \cup [table : {"Lesson"}, lesson : Lessons, level : Levels]
    \cup [table : {"Topic"}, topic : Topics, lesson : Lessons]
    \cup [table : {"LessonExercise"}, exercise : Exercises, place : Places]

ASSUME SeedAssumption ==
  /\ Seed \in [range : [Levels -> SUBSET Bands], testLevel : [Tests -> Levels],
              lessonLevel : [Lessons -> Levels], topicLesson : [Topics -> Lessons],
              place : [Exercises -> Places]]
  /\ \A e \in Exercises :
       Seed.place[e].topic # None => Seed.topicLesson[Seed.place[e].topic] = Seed.place[e].lesson

ASSUME StatementsAssumption ==
  /\ Statements \subseteq (Children \ Plans) \cup PlanRequests \cup Changes
  /\ None \notin Levels \cup Bands \cup Topics

Of(table) == {r \in rows : r.table = table}

-----------------------------------------------------------------------------
(* Locks.                                                                   *)

Modes == {"key share", "share", "no key update", "update"}

\* The table of row-level lock conflicts in PostgreSQL.
Conflicts(m, n) ==
  \/ "update" \in {m, n}
  \/ "no key update" \in {m, n} /\ {m, n} # {"no key update", "key share"}

Lock(table, id, mode) == [do |-> "lock", row |-> <<table, id>>, mode |-> mode]
Check(what) == [do |-> what]

-----------------------------------------------------------------------------
(* What each statement does, step by step.                                  *)

\* Mutant. The band trigger before P0-C: it reads the Level without a lock.
BandProgramUnlocked(level) == <<Check("band")>>

\* hsk_check_curriculum_band_integrity: a shared lock, then the check.
BandProgram(level) == <<Lock("Level", level, "share"), Check("band")>>

\* Mutant. Goals are set without a lock on the account.
UserProgramUnlocked(user) == <<>>

\* lockActiveUser
UserProgram(user) == <<Lock("User", user, "update")>>

\* An entry of the partial unique index waits for the other writer of the entry.
SetGoalProgram(s) ==
  UserProgram(s.user)
    \o <<Check("offer"), Check("same goal"), Lock("UserGoal_userId_active", s.user, "update"),
         Check("one goal")>>
    \o BandProgram(s.level)

GeneratePlanProgram(s) ==
  UserProgram(s.user)
    \o <<Check("goal"), Check("same plan"), Lock("LearningPlan_userId_active", s.user, "update"),
         Check("one plan")>>
    \o BandProgram(s.level)

\* Foreign keys, hsk_check_result_attempt_integrity, the band: Test before Level.
ResultProgram(s) ==
  <<Lock("Test", s.test, "key share"), Lock("ExamAttempt", s.attempt, "key share"),
    Check("final attempt"), Lock("Test", s.test, "share"),
    Lock("Level", testLevel[s.test], "share"), Check("band")>>

\* The foreign key comes before Story_..., so the Lesson stays where it is.
StoryProgram(s) == <<Lock("Lesson", s.lesson, "key share"), Check("story level")>>

\* LessonWord_... and Progress_... come before the foreign keys.
WordProgram(s) == <<Check("word lesson"), Lock("Topic", s.topic, "key share")>>
ProgressProgram(s) ==
  <<Check("progress lesson"), Lock("Topic", s.topic, "key share"),
    Lock("LessonExercise", s.exercise, "key share")>>

\* hsk_check_learning_event_coherence, which locks what it reads.
TopicEventProgram(s) == <<Lock("Topic", s.topic, "key share"), Check("event topic")>>
ExerciseEventProgram(s) ==
  IF s.topic = None
    THEN <<Lock("LessonExercise", s.exercise, "key share"), Check("event exercise")>>
    ELSE <<Lock("LessonExercise", s.exercise, "key share"), Check("event exercise"),
           Lock("Topic", s.topic, "key share"), Check("event topic")>>

\* The row's own lock serializes it against its children: no Test is locked.
LevelProgram(s) == <<Lock("Level", s.level, "no key update"), Check("band children")>>

TestProgram(s) ==
  <<Lock("Test", s.test, "no key update"), Lock("Level", s.level, "share"),
    Check("test results")>>

AttemptProgram(s) ==
  <<Lock("ExamAttempt", s.attempt, "no key update"), Check("attempt results")>>

\* levelId of Lesson and lessonId of Topic belong to unique keys.
LessonProgram(s) == <<Lock("Lesson", s.lesson, "update"), Check("lesson stories")>>
TopicProgram(s) ==
  <<Lock("Topic", s.topic, "update"), Check("topic events"), Check("topic children")>>

\* Mutant. Without LessonExercise_live_parent the Topic is not locked before it is read.
ExerciseProgramUnguarded(s) ==
  <<Lock("LessonExercise", s.exercise, "no key update"), Check("exercise events"),
    Check("exercise topic"), Check("exercise progress")>>

\* Activity first, then hsk_check_lesson_exercise_live_parent, then the Progress rows.
ExerciseProgram(s) ==
  <<Lock("LessonExercise", s.exercise, "no key update"), Check("exercise events"),
    Lock("Lesson", s.place.lesson, "key share"), Lock("Topic", s.place.topic, "key share"),
    Check("exercise topic"), Check("exercise progress")>>

Program(s) ==
  CASE s.table = "UserGoal"         -> SetGoalProgram(s)
    [] s.table = "LearningPlan"     -> GeneratePlanProgram(s)
    [] s.table = "PlacementAttempt" -> BandProgram(s.level)
    [] s.table = "Result"           -> ResultProgram(s)
    [] s.table = "Story"            -> StoryProgram(s)
    [] s.table = "LessonWord"       -> WordProgram(s)
    [] s.table = "Progress"         -> ProgressProgram(s)
    [] s.table = "TopicEvent"       -> TopicEventProgram(s)
    [] s.table = "ExerciseEvent"    -> ExerciseEventProgram(s)
    [] s.table = "Level"            -> LevelProgram(s)
    [] s.table = "Test"             -> TestProgram(s)
    [] s.table = "ExamAttempt"      -> AttemptProgram(s)
    [] s.table = "Lesson"           -> LessonProgram(s)
    [] s.table = "Topic"            -> TopicProgram(s)
    [] s.table = "LessonExercise"   -> ExerciseProgram(s)

-----------------------------------------------------------------------------
(* What is checked.                                                         *)

\* A band of a row, and the Level it has to fit.
LevelOf(r) == IF r.table = "Result" THEN testLevel[r.test] ELSE r.level
BandRows == {r \in rows : r.table \in {"UserGoal", "LearningPlan", "PlacementAttempt", "Result"}}

Passes(s, what) ==
  CASE what \in {"band", "offer"} -> s.band \in range[LevelOf(s)]
    [] what = "final attempt"     -> attempt[s.attempt] = "final"
    [] what = "story level"       -> lessonLevel[s.lesson] = s.level
    [] what \in {"word lesson", "event topic"} -> topicLesson[s.topic] = s.lesson
    [] what = "progress lesson"   -> topicLesson[s.topic] = s.lesson /\ place[s.exercise].lesson = s.lesson
    [] what = "event exercise"    -> place[s.exercise] = [lesson |-> s.lesson, topic |-> s.topic]
    [] what = "band children"     -> \A r \in BandRows : LevelOf(r) = s.level => r.band \in s.range
    [] what = "test results"      -> \A r \in Of("Result") : r.test = s.test => r.band \in range[s.level]
    [] what = "attempt results"   -> \A r \in Of("Result") : r.attempt = s.attempt => s.status = "final"
    [] what = "lesson stories"    -> \A r \in Of("Story") : r.lesson = s.lesson => r.level = s.level
    [] what = "topic events"      -> \A r \in Of("TopicEvent") \cup Of("ExerciseEvent") :
                                       r.topic = s.topic => topicLesson[s.topic] = s.lesson
    [] what = "topic children"    ->
         /\ \A r \in Of("LessonWord") \cup Of("Progress") : r.topic = s.topic => r.lesson = s.lesson
         /\ \A e \in Exercises : place[e].topic = s.topic => place[e].lesson = s.lesson
    [] what = "exercise events"   -> \A r \in Of("ExerciseEvent") :
                                       r.exercise = s.exercise => place[s.exercise] = s.place
    [] what = "exercise topic"    -> s.place.topic # None => topicLesson[s.place.topic] = s.place.lesson
    [] what = "exercise progress" -> \A r \in Of("Progress") :
                                       r.exercise = s.exercise => r.lesson = s.place.lesson

-----------------------------------------------------------------------------
(* Transactions.                                                            *)

Idle == [state |-> "idle", statement |-> None, at |-> 1, seen |-> None, lessons |-> {}]

Init ==
  /\ range = Seed.range /\ testLevel = Seed.testLevel /\ attempt = [a \in Attempts |-> "final"]
  /\ lessonLevel = Seed.lessonLevel /\ topicLesson = Seed.topicLesson /\ place = Seed.place
  /\ rows = {} /\ goal = [u \in Users |-> None] /\ plan = [u \in Users |-> None]
  /\ txn = [t \in Transactions |-> Idle] /\ locks = {}

Running(t) == txn[t].state = "running"
Current(t) == Program(txn[t].statement)
Finished(t) == txn[t].at > Len(Current(t))
Step(t) == Current(t)[txn[t].at]
AtCheck(t, what) == Running(t) /\ ~Finished(t) /\ Step(t).do = what
AtLock(t) == AtCheck(t, "lock")

Blocks(u, t) ==
  \E l \in locks : l.holder = u /\ u # t /\ l.row = Step(t).row /\ Conflicts(l.mode, Step(t).mode)

Begin(t) ==
  /\ txn[t].state = "idle"
  /\ \E s \in Statements : txn' = [txn EXCEPT ![t].state = "running", ![t].statement = s]
  /\ UNCHANGED <<parents, rows, goal, plan, locks>>

Acquire(t) ==
  /\ AtLock(t)
  /\ \A u \in Transactions : ~Blocks(u, t)
  /\ locks' = locks \cup {[holder |-> t, row |-> Step(t).row, mode |-> Step(t).mode]}
  /\ txn' = [txn EXCEPT ![t].at = @ + 1]
  /\ UNCHANGED <<parents, rows, goal, plan>>

Release(t) == locks' = {l \in locks : l.holder # t}

\* The transaction ends without a change, refused or because nothing is to change.
Ends(t, state) ==
  /\ txn' = [txn EXCEPT ![t].state = state]
  /\ Release(t)
  /\ UNCHANGED <<parents, rows, goal, plan>>

Advances(t, seen, lessons) ==
  /\ txn' = [txn EXCEPT ![t].at = @ + 1, ![t].seen = seen, ![t].lessons = lessons]
  /\ UNCHANGED <<parents, rows, goal, plan, locks>>

\* A trigger's check: it passes, or its exception rolls the transaction back.
CheckIntegrity(t) ==
  /\ Running(t) /\ ~Finished(t)
  /\ Step(t).do \notin {"lock", "goal", "same goal", "same plan", "one goal", "one plan"}
  /\ IF Passes(txn[t].statement, Step(t).do) THEN Advances(t, txn[t].seen, txn[t].lessons)
                                             ELSE Ends(t, "refused")

User(t) == txn[t].statement.user

\* setGoal answers with the active goal when it is the same, and replaces it otherwise.
CompareGoal(t) ==
  /\ AtCheck(t, "same goal")
  /\ IF goal[User(t)] = txn[t].statement THEN Ends(t, "done") ELSE Advances(t, goal[User(t)], {})

\* generateLearningPlan takes level and band from the active goal.
ReadGoal(t) ==
  /\ AtCheck(t, "goal")
  /\ IF goal[User(t)] = None THEN Ends(t, "refused")
     ELSE /\ txn' = [txn EXCEPT ![t].at = @ + 1, ![t].statement.level = goal[User(t)].level,
                                ![t].statement.band = goal[User(t)].band]
          /\ UNCHANGED <<parents, rows, goal, plan, locks>>

ReadyLessons(level) == {l \in Lessons : lessonLevel[l] = level}

\* No lessons, no plan; a plan for the same goal and lessons is kept.
ComparePlan(t) ==
  LET lessons == ReadyLessons(txn[t].statement.level) IN
  /\ AtCheck(t, "same plan")
  /\ IF lessons = {} THEN Ends(t, "refused")
     ELSE IF plan[User(t)] = [row |-> txn[t].statement, lessons |-> lessons] THEN Ends(t, "done")
     ELSE Advances(t, plan[User(t)], lessons)

\* The partial unique index: another active row than the one that was replaced is a
\* P2002, which the service answers with 409.
CheckUnique(t) ==
  /\ AtCheck(t, "one goal") \/ AtCheck(t, "one plan")
  /\ IF txn[t].seen = (IF Step(t).do = "one goal" THEN goal ELSE plan)[User(t)]
     THEN Advances(t, txn[t].seen, txn[t].lessons)
     ELSE Ends(t, "conflict")

\* COMMIT of a row in a child table.
Insert(t) ==
  LET s == txn[t].statement IN
  /\ s.table \notin {"Level", "Test", "ExamAttempt", "Lesson", "Topic", "LessonExercise"}
  /\ rows' = rows \cup {s}
  /\ goal' = IF s.table = "UserGoal" THEN [goal EXCEPT ![s.user] = s] ELSE goal
  /\ plan' = IF s.table = "LearningPlan"
             THEN [plan EXCEPT ![s.user] = [row |-> s, lessons |-> txn[t].lessons]] ELSE plan
  /\ UNCHANGED parents

\* COMMIT of a changed parent.
Update(t) ==
  LET s == txn[t].statement IN
  /\ \/ /\ s.table = "Level" /\ range' = [range EXCEPT ![s.level] = s.range]
        /\ UNCHANGED <<testLevel, attempt, lessonLevel, topicLesson, place>>
     \/ /\ s.table = "Test" /\ testLevel' = [testLevel EXCEPT ![s.test] = s.level]
        /\ UNCHANGED <<range, attempt, lessonLevel, topicLesson, place>>
     \/ /\ s.table = "ExamAttempt" /\ attempt' = [attempt EXCEPT ![s.attempt] = s.status]
        /\ UNCHANGED <<range, testLevel, lessonLevel, topicLesson, place>>
     \/ /\ s.table = "Lesson" /\ lessonLevel' = [lessonLevel EXCEPT ![s.lesson] = s.level]
        /\ UNCHANGED <<range, testLevel, attempt, topicLesson, place>>
     \/ /\ s.table = "Topic" /\ topicLesson' = [topicLesson EXCEPT ![s.topic] = s.lesson]
        /\ UNCHANGED <<range, testLevel, attempt, lessonLevel, place>>
     \/ /\ s.table = "LessonExercise" /\ place' = [place EXCEPT ![s.exercise] = s.place]
        /\ UNCHANGED <<range, testLevel, attempt, lessonLevel, topicLesson>>
  /\ UNCHANGED <<rows, goal, plan>>

Commit(t) ==
  /\ Running(t) /\ Finished(t)
  /\ Insert(t) \/ Update(t)
  /\ txn' = [txn EXCEPT ![t].state = "committed"]
  /\ Release(t)

\* A lost connection, or the victim of a deadlock.
Abort(t) == Running(t) /\ Ends(t, "aborted")

Next ==
  \E t \in Transactions :
    \/ Begin(t) \/ Acquire(t) \/ CheckIntegrity(t) \/ CompareGoal(t) \/ ReadGoal(t)
    \/ ComparePlan(t) \/ CheckUnique(t) \/ Commit(t) \/ Abort(t)

Spec == Init /\ [][Next]_vars

-----------------------------------------------------------------------------
(* Properties.                                                              *)

\* Every band lies in the range of its Level, whoever changes the Level, moves the
\* Test or writes the row at the same time
\* (20260810143000_p0_integrity_concurrency_serialization/migration.sql:62-214).
BandsFit == \A r \in BandRows : r.band \in range[LevelOf(r)]

\* Stories, exercises and topic events stay where their lesson and topic are, also when
\* those move: the checks come after a KEY SHARE lock on the row they read, which a foreign
\* key or the guard itself takes, and a move changes a unique key
\* (20260810093000_p0_learning_progress_srs/migration.sql:279-372,
\* 20260810210000_lesson_activity_integrity/migration.sql:94-100,
\* 20260811120000_exercise_authoring_import_validation_v1/migration.sql:217-289).
PlacesAgree ==
  /\ \A r \in Of("Story") : r.level = lessonLevel[r.lesson]
  /\ \A r \in Of("TopicEvent") : topicLesson[r.topic] = r.lesson
  /\ \A e \in Exercises : place[e].topic # None => topicLesson[place[e].topic] = place[e].lesson

\* A plan is made for the goal that is active when it is committed
\* (onboarding.service.ts:301-392).
PlanFollowsTheGoal ==
  [][\A u \in Users : plan'[u] # plan[u] =>
       goal[u] # None /\ plan'[u].row.level = goal[u].level /\ plan'[u].row.band = goal[u].band]_vars

\* The lesson of a word's topic is the word's: violated, the trigger reads the Topic before
\* the foreign key locks it, so a move that is under way escapes it (by hand;
\* docs/database/P0_DATA_DICTIONARY.md:69 says that the trigger ensures it).
WordsStay == \A r \in Of("LessonWord") : topicLesson[r.topic] = r.lesson
=============================================================================
