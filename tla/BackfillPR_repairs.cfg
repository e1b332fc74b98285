CONSTANTS
  Batch = {b1}
  None = None
  Truth = {"reviews", "checks"}
  MaxFault = 2
  MaxCrash = 1
SPECIFICATION BSpec
INVARIANTS
  BackfillRepairs
CHECK_DEADLOCK FALSE
