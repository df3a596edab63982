---------------------------- MODULE MCDataIntegrity ----------------------------
(***************************************************************************)
(* What the database promises about the data, and the readers that put an  *)
(* answer together from several queries (the export, the path, the streak): *)
(* five questions on disjoint state.  A behaviour explores one side and     *)
(* leaves the others at rest.                                               *)
(***************************************************************************)
EXTENDS CurriculumIntegrity, FiniteSets, TLC
CONSTANTS
  learner,
  Runs, NoRun, Guarded, MaxAttempts,
  Writes, MaxOld, PageSize, MaxSize,
  PathLessons, PathLevels, LevelOfLesson, LessonPlaces, MaxEdits, MaxTime,
  DayLength, Shift, MaxInstant

\* No run is the one that holds no lock; pages hold rows; the learner writes a
\* finite history; lessons and levels have ids and places; a day has instants, and a
\* zone's days begin sooner or not.
ASSUME IntegrityAssumption ==
  /\ NoRun \notin Runs /\ Guarded \in BOOLEAN
  /\ PageSize \in Nat \ {0} /\ MaxOld \in Nat /\ MaxSize \in Nat
  /\ IsFiniteSet(Writes)
  /\ PathLessons \subseteq Nat \ {0} /\ IsFiniteSet(PathLessons) /\ PathLevels \subseteq Nat \ {0}
  /\ LevelOfLesson \in [PathLessons -> PathLevels] /\ LessonPlaces \subseteq Nat
  /\ MaxEdits \in Nat /\ MaxTime \in Nat
  /\ DayLength \in Nat \ {0} /\ Shift \in Nat /\ MaxInstant \in Nat
VARIABLES
  side,
  kind, tx, eventId, nextId, db, at, snap, got, last, estimate,
  history, sound, lock, run, group, engine, session,
  listedLevels, publicLessons, lessonPlace, lessonStatus, lastActive, goalLevel, pathClock,
  pathEdits, pathPc, pathUnread, pathCopy, pathSince, pathOffer,
  instant, studied, moment, zone, known, today, latestRun, seenEvents, streak

S == INSTANCE ExportSnapshot
M == INSTANCE MigrationRecovery WITH rows <- history
L == INSTANCE LearningPath
       WITH Lessons <- PathLessons, Levels <- PathLevels, LevelAt <- LevelOfLesson, Places <- LessonPlaces,
            listed <- listedLevels, public <- publicLessons, place <- lessonPlace,
            status <- lessonStatus, active <- lastActive, goal <- goalLevel, clock <- pathClock,
            edits <- pathEdits, pc <- pathPc, unread <- pathUnread, copy <- pathCopy,
            since <- pathSince, offer <- pathOffer
K == INSTANCE StudyStreak
       WITH MaxTime <- MaxInstant, at <- moment, run <- latestRun, seen <- seenEvents

\* Curriculum: one account, two levels, lessons and transactions of every table.

Goal(level, band) == [table |-> "UserGoal", user |-> learner, level |-> level, band |-> band]
Place(lesson, topic) == [lesson |-> lesson, topic |-> topic]

MCStatements ==
  {Goal(1, 1), Goal(2, 2), [table |-> "LearningPlan", user |-> learner, level |-> None, band |-> None],
   [table |-> "PlacementAttempt", level |-> 2, band |-> 2],
   [table |-> "Result", test |-> 1, attempt |-> 1, band |-> 1],
   [table |-> "Story", lesson |-> 1, level |-> 1],
   [table |-> "LessonWord", lesson |-> 1, topic |-> 1],
   [table |-> "Progress", lesson |-> 1, topic |-> 1, exercise |-> 1],
   [table |-> "TopicEvent", lesson |-> 1, topic |-> 1],
   [table |-> "ExerciseEvent", exercise |-> 1, lesson |-> 1, topic |-> 1],
   [table |-> "Level", level |-> 1, range |-> {2}],
   [table |-> "Test", test |-> 1, level |-> 2],
   [table |-> "ExamAttempt", attempt |-> 1, status |-> "void"],
   [table |-> "Lesson", lesson |-> 1, level |-> 2],
   [table |-> "Topic", topic |-> 1, lesson |-> 2],
   [table |-> "LessonExercise", exercise |-> 1, place |-> Place(1, 1)],
   [table |-> "LessonExercise", exercise |-> 1, place |-> Place(1, None)]}
MCSeed == [range |-> [l \in Levels |-> Bands], testLevel |-> [t \in Tests |-> 1],
           lessonLevel |-> [l \in Lessons |-> 1], topicLesson |-> [t \in Topics |-> 1],
           place |-> [e \in Exercises |-> Place(1, None)]]

snapshotVars == <<kind, tx, eventId, nextId, db, at, snap, got, last, estimate>>
migrationVars == <<history, sound, lock, run, group, engine, session>>
pathVars == <<listedLevels, publicLessons, lessonPlace, lessonStatus, lastActive, goalLevel, pathClock,
              pathEdits, pathPc, pathUnread, pathCopy, pathSince, pathOffer>>
streakVars == <<instant, studied, moment, zone, known, today, latestRun, seenEvents, streak>>

SnapshotAtRest ==
  S!Init /\ kind = [w \in Writes |-> "plan"] /\ db["reviews"] = {} /\ db["answers"] = {}
MigrationAtRest == M!Init /\ sound = TRUE

\* Bound: the transactions of a behaviour are about bands and plans, or about where
\* content belongs.  The two kinds have only the rows of Lesson in common.
BandTables == {"UserGoal", "LearningPlan", "PlacementAttempt", "Result",
               "Level", "Test", "ExamAttempt", "Lesson"}
PlaceTables == {"Story", "LessonWord", "Progress", "TopicEvent", "ExerciseEvent",
                "Lesson", "Topic", "LessonExercise"}
NextAbout(tables) ==
  Next /\ \A t \in Transactions : txn'[t].state = "running" => txn'[t].statement.table \in tables

\* Three lessons, two of them on the first level.
MCLevelOf == <<1, 1, 2>>

\* Every lesson is public to begin with and there is no goal yet, or all but the
\* first are and the goal is the first level.
PathInit ==
  L!Init /\ <<publicLessons, goalLevel>> \in {<<PathLessons, L!Nothing>>, <<PathLessons \ {1}, 1>>}
PathAtRest == L!Init /\ publicLessons = {} /\ goalLevel = L!Nothing

MCInit ==
  /\ Init /\ K!Init
  /\ side \in {"bands", "places", "snapshot", "migration", "path", "streak"}
  /\ IF side = "snapshot" THEN S!Init ELSE SnapshotAtRest
  /\ IF side = "migration" THEN M!Init ELSE MigrationAtRest
  /\ IF side = "path" THEN PathInit ELSE PathAtRest

\* One part moves, and the others rest.
MCNext ==
  /\ UNCHANGED side
  /\ IF side = "bands" THEN NextAbout(BandTables)
     ELSE IF side = "places" THEN NextAbout(PlaceTables) ELSE UNCHANGED vars
  /\ IF side = "snapshot" THEN S!Next ELSE UNCHANGED snapshotVars
  /\ IF side = "migration" THEN M!Next ELSE UNCHANGED migrationVars
  /\ IF side = "path" THEN L!Next ELSE UNCHANGED pathVars
  /\ IF side = "streak" THEN K!Next ELSE UNCHANGED streakVars
MCSpec ==
  MCInit
  /\ [][MCNext]_<<vars, side, snapshotVars, migrationVars, pathVars, streakVars>>

\* The file describes one moment of the learner's history.
CopyHangsTogether == S!CopyHangsTogether

\* What the migration history says of the target's statements is true.
HistoryIsTrue == M!HistoryIsTrue

\* A run's exit code is right about what it has changed.
ExitsAreTrue == M!ExitsAreTrue

\* What the path shows open the server opens, and what it shows locked it refuses.
OffersAreHonoured == L!OffersAreHonoured

\* The streak is the number of learning days without a gap.
StreakIsExact == K!StreakIsExact

Symmetry == Permutations(Transactions)
=============================================================================
