CONSTANTS
  l1 = l1
  l2 = l2
  f1 = f1
  f2 = f2
  d1 = d1
  d2 = d2
  None = None
  Logins <- MCLogins
  Refreshes <- MCOneRefresh
  Deletions <- MCOneDeletion
  Grace = 3
  RequestTime = 1
  RetryLimit = 1
  MaxTime = 4
SPECIFICATION FairSpec
PROPERTY RequestsSettle
CHECK_DEADLOCK FALSE
