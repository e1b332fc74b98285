CONSTANTS
  Batch = {b1, b2}
  None = None
  Truth = {"reviews", "checks"}
  MaxFault = 1
  MaxCrash = 1
SPECIFICATION FairSpec
INVARIANTS
  FreezeSound
  ReauditCanRepair
PROPERTIES
  ChecksFollowCI
  EveryCommitAudited
CHECK_DEADLOCK FALSE
