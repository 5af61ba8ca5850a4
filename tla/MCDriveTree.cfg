CONSTANTS
  Worker = {w1, w2}
  Main = Main
  NoFile = NoFile
  a = a
  b = b
  x = x
  y = y
  Path <- SmallTree
  Apart = TRUE
  Sensible = TRUE
  Faults = {"restart", "s3", "cut"}
  MaxFaults = 2
SPECIFICATION Spec
SYMMETRY Symmetry
VIEW LiveState
CHECK_DEADLOCK FALSE
INVARIANTS
  TypeOK
  EverythingIsListed
  ObjectsMatchFiles
PROPERTIES
  NothingVanishes
  KeepsTree
