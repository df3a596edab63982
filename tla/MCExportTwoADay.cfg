CONSTANTS
  r1 = r1
  r2 = r2
  d1 = d1
  p1 = p1
  p2 = p2
  None = None
  Requests <- MCRequests
  Downloads <- MCDownloads
  Purges <- MCPurges
  RateWindow = 1
  Availability = 1
  Retention = 2
  StuckAge = 2
  RunTime = 1
  RetryLimit = 1
  MaxTime = 3
SPECIFICATION Spec
INVARIANT OneExportPerDay
CHECK_DEADLOCK FALSE
