SPECIFICATION MCSpec
CONSTANTS
  Uploads = {u1, u2}
  Limit = 1
  Rate = 2
  None = None
  Scrapes = {s1, s2}
  MaxCollections = 3
  Links = {l1}
  Reads = {r1}
  LearnerTtl = 1
  AdminTtl = 2
  MaxRotations = 2
  LinkTime = 4
  Requests = {q1, q2}
  Confirms = {c1, c2}
  MaxRetries = 1
  MaxTokens = 3
  Attempts = {a1, a2, a3}
  AddressLimit = 2
  Window = 2
  MaxLogin = 2
  Lockout = 2
  LoginTime = 5
INVARIANTS SlotsAreHeld OneCollection StreamsAreClosed
PROPERTIES UploadsEnd LinksSurviveRotation OldLinksAreDead LimitsAreExact RequestsSettle
CHECK_DEADLOCK FALSE
