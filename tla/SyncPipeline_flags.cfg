CONSTANTS
  Commit = {1, 2, 3, 4, 5}
  None = None
  Reach <- MCReach
  Date <- MCDate
  PRCommit <- MCPRCommit
  PRHead <- FeatureHead
  FirstHead <- OneBehind
  InitialSince = 2
  Now = 20
  Overlap = 1
  Branch = {main}
  Bounds <- Flagged
  Ceiling = 1
  MaxPush = 3
  MaxFault = 1
  MaxCrash = 1
SPECIFICATION Spec
INVARIANTS
  CursorCovers
PROPERTIES
  RewriteLeavesEvidence
  CursorNeverRegresses
  ImplementsLedger
