CONSTANTS
  u1 = u1
  u2 = u2
  c1 = c1
  c2 = c2
  p1 = p1
  p2 = p2
  None = None
  Uploads <- MCUploads
  Cleanups <- MCCleanups
  Payloads <- MCPayloads
  Fingerprint <- MCTwoRequests
  Settling = 3
  OpTimeout = 1
  PutLatency = 1
  PutAttempts = 2
  CanLose = FALSE
  CanCrash = FALSE
  MaxTime = 5
SPECIFICATION FairSpec
CHECK_DEADLOCK FALSE
PROPERTIES UploadIsIdempotent AttemptsSettle
