CONSTANTS
  Commit = {c1, c2}
  Branch = {b1, b2}
  Reach <- MCReach
  PRCommit = {c2}
  MaxFault = 1
  MaxPolicy = 1
  None = None  Calling = Calling  Failed = Failed
SPECIFICATION Spec
INVARIANTS
  SyncWaivesTheEmpty
  DetailKept
  RefusalsKeepTheirProof
PROPERTIES
  ReauditAgrees
SYMMETRY Symmetry
