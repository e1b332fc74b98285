CONSTANTS
  Commit = {c1, c2}
  None = None
  Kinds = {"plain", "auto", "trailer", "button"}
  MaxFault = 1
SPECIFICATION Spec
INVARIANTS
  UnreviewedIsProven
  VerifiedKept
  ReauditReconciles
