CONSTANTS
  u1 = u1
  u2 = u2
  c1 = c1
  c2 = c2
  p1 = p1
  p2 = p2
  None = None
  Uploads <- MCUploads
  Cleanups <- MCCleanups
  Payloads <- MCPayloads
  Fingerprint <- MCSameRequest
  Settling = 3
  OpTimeout = 1
  PutLatency = 1
  PutAttempts = 2
  CanLose = TRUE
  CanCrash = TRUE
  MaxTime = 5
SPECIFICATION Spec
SYMMETRY CleanupSymmetry
INVARIANTS
  CleanedIsGone
  SideEffectsAreFenced
  RepliesAreTrue
PROPERTY UploadIsIdempotent
CHECK_DEADLOCK FALSE
