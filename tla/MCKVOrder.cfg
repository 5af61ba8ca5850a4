CONSTANTS
  Server = {s1, s2}
  Call = {c1, c2}
  NoCall = NoCall
  k1 = k1
  a = a
  b = b
  Request <- Puts
  InOrder = FALSE
  MaxLen = 2
  MaxReigns = 2
  MaxBusy = 2
SPECIFICATION Spec
SYMMETRY Symmetry
CHECK_DEADLOCK FALSE
INVARIANTS
  AckedIsApplied
