SPECIFICATION Spec
CONSTANTS
  Requests = {r1, r2}
  Servers = {w1}
  Kinds = {"me"}
  MaxSessions = 3
  MaxFaults = 0
PROPERTY WinnerIsKept
CHECK_DEADLOCK FALSE
