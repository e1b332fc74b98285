CONSTANTS
  Commit = {1, 2, 3, 4, 5}
  None = None
  Reach <- MCReach
  Date <- MCDate
  PRCommit <- MCPRCommit
  PRHead <- ForkOfMain
  FirstHead <- OneBehind
  InitialSince = 2
  Now = 20
  Overlap = 1
  Branch = {main, rel}
  Bounds <- Unflagged
  Ceiling = 1
  MaxPush = 1
  MaxFault = 1
  MaxCrash = 1
SPECIFICATION FairSpec
INVARIANTS
  NoDoubleAudit
  StampMeansDrained
PROPERTIES
  BacklogDrains
  HeadsCovered
