CONSTANTS
  r1 = r1
  r2 = r2
  d1 = d1
  p1 = p1
  p2 = p2
  None = None
  Requests <- MCOneRequest
  Downloads <- MCDownloads
  Purges <- MCTwoPurges
  RateWindow = 1
  Availability = 1
  Retention = 2
  StuckAge = 0
  RunTime = 1
  RetryLimit = 1
  MaxTime = 5
SPECIFICATION FairSpec
INVARIANT DownloadsFindTheFile
PROPERTIES PurgeForgetsNothing ExportsSettle
CHECK_DEADLOCK FALSE
