SPECIFICATION Spec
CONSTANTS
  r1 = r1
  r2 = r2
  r3 = r3
  NoRequest = NoRequest
  Requests <- TwoRequests
  Kind <- Waiters
  MaxBackoff = 2
  MaxLongRuns = 0
PROPERTY NoStolenCommands
CHECK_DEADLOCK FALSE
