CONSTANTS
  Worker = {w1, w2}
  Main = Main
  NoFile = NoFile
  a = a
  b = b
  x = x
  y = y
  Path <- OneName
  Apart = TRUE
  Sensible = TRUE
  Faults = {"restart", "silent"}
  MaxFaults = 2
SPECIFICATION Spec
SYMMETRY Symmetry
CHECK_DEADLOCK FALSE
PROPERTIES
  EnsureRootIsIdempotent
