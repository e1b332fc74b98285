CONSTANTS
  Commit = {c1}
  None = None
  Kinds = {"auto"}
  MaxFault = 0
SPECIFICATION Spec
INVARIANTS
  NoForgedWaiver
