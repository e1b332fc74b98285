CONSTANTS
  Repo = {r1, r2}
  Config = {A, B}
  Freshness = 1
  MaxChange = 1
  MaxPush = 1
  MaxEdit = 1
  MaxFault = 1
  None = None
  A = A
SPECIFICATION MCSpec
INVARIANTS
  StampCoversTheOrg
  StampNamesItsRules
PROPERTIES
  BacklogSwept
