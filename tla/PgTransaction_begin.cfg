SPECIFICATION Spec
CONSTANTS
  Sessions = {s1, s2}
  None = None
  Failing = FALSE
  StalePlans = FALSE
  Garbling = FALSE
  CancellingBegin = TRUE
  MaxQueue = 3
SYMMETRY Symmetry
INVARIANT NoInheritedTransaction
