CONSTANTS
  Server = {s1, s2}
  Call = {c1, c2, c3}
  NoCall = NoCall
  k1 = k1
  a = a
  b = b
  Request <- AppendsAndReads
  InOrder = TRUE
  MaxLen = 3
  MaxReigns = 2
  MaxBusy = 2
SPECIFICATION Spec
SYMMETRY Symmetry
CHECK_DEADLOCK FALSE
INVARIANTS
  TypeOK
  ReadsAtItsIndex
  WaitersAreKept
PROPERTIES
  Linearizable
