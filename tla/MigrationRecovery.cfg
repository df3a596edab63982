CONSTANTS
  NoRun = NoRun
  Runs = {d1, d2}
  Guarded = TRUE
  MaxAttempts = 2
SPECIFICATION FairSpec
INVARIANTS HistoryIsTrue ExitsAreTrue ReportsComeLast
PROPERTY RunsEnd
CHECK_DEADLOCK FALSE
