SPECIFICATION FairSpec
CONSTANTS
  Requests = {r1, r2}
  Servers = {w1, w2}
  Kinds = {"me", "recover", "logout", "login"}
  MaxSessions = 4
  MaxFaults = 1
INVARIANT NoFalseAlarm
PROPERTIES LogoutEndsTheSignIn OnlyAVerdictClears RequestsAreAnswered
CHECK_DEADLOCK FALSE
