CONSTANTS
  learner = learner
  None = None
  NoRun = NoRun
  Transactions = {t1, t2, t3}
  Seed <- MCSeed
  Statements <- MCStatements
  Users = {learner}
  Levels = {1, 2}
  Tests = {1}
  Attempts = {1}
  Lessons = {1, 2}
  Topics = {1}
  Exercises = {1}
  Bands = {1, 2}
  Writes = {w1, w2}
  MaxOld = 2
  PageSize = 2
  MaxSize = 6
  Runs = {d1, d2}
  Guarded = TRUE
  MaxAttempts = 2
  PathLessons = {1, 2, 3}
  PathLevels = {1, 2}
  LevelOfLesson <- MCLevelOf
  LessonPlaces = {0}
  MaxEdits = 1
  MaxTime = 1
  DayLength = 2
  Shift = 1
  MaxInstant = 6
SPECIFICATION MCSpec
SYMMETRY Symmetry
INVARIANT WordsStay
CHECK_DEADLOCK FALSE
