CONSTANTS
  Token = {t1, t2}
  Request = {r1, r2, r3}
  Matching <- MCMatching
  Moved <- MCMoved
  None = None
  Cap = 2
  Quota = 2
  Threshold = 1
  MaxReassign = 2
  ServerRetries = 3
  Period = 2
  Base = 1
  Escalated = 2
  RepeatWindow = 2
  Pause = 1
  Fault = {"moved", "abuse", "throttled", "forbidden", "integration", "server", "lost", "refresh"}
  MaxFault = 2
  MaxDrain = 1
  MaxTime = 3
SPECIFICATION MCSpec
INVARIANTS
  InFlightExact
  ArrivalOrderIrrelevant
  OnlyServerRetriesLeak
PROPERTIES
  OutMeansRest
  EveryCallEnds
CHECK_DEADLOCK FALSE
