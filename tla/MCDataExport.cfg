CONSTANTS
  r1 = r1
  r2 = r2
  d1 = d1
  p1 = p1
  p2 = p2
  None = None
  Requests <- MCRequests
  Downloads <- MCDownloads
  Purges <- MCPurges
  RateWindow = 1
  Availability = 1
  Retention = 2
  StuckAge = 0
  RunTime = 1
  RetryLimit = 0
  MaxTime = 4
SPECIFICATION Spec
SYMMETRY Symmetry
INVARIANTS
  TypeOK
  DownloadsFindTheFile
PROPERTIES GrantsAreSpaced PurgeForgetsNothing
CHECK_DEADLOCK FALSE
