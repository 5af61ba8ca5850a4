CONSTANTS
  Worker = {w1, w2}
  Main = Main
  NoFile = NoFile
  a = a
  b = b
  x = x
  y = y
  Path <- TwoNames
  Apart = FALSE
  Sensible = TRUE
  Faults = {}
  MaxFaults = 0
SPECIFICATION Spec
SYMMETRY Symmetry
CHECK_DEADLOCK FALSE
INVARIANTS
  EverythingIsListed
