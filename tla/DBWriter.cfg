CONSTANTS
  Worker = {w1, w2, w3}
  None = None
  Cap = 2
  MaxWrite = 1
  MaxFault = 1
  MaxHang = 1
SPECIFICATION FairSpec
INVARIANTS
  NilMeansCommitted
  DrainedMeansAnswered
  NoSendOnClosed
PROPERTIES
  WriteReturns
  CloseReturns
CHECK_DEADLOCK FALSE
