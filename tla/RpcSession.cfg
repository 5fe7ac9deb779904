SPECIFICATION FairSpec
CONSTANTS
  r1 = r1
  r2 = r2
  r3 = r3
  NoRequest = NoRequest
  Requests <- ThreeRequests
  Kind <- ThreeKinds
  MaxBackoff = 2
  MaxLongRuns = 1
INVARIANTS TypeOK InOrder PendingIsOnItsWay KilledAtExit
PROPERTY AnsweredUnlessMissed
CHECK_DEADLOCK FALSE
