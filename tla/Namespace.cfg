SPECIFICATION Spec
CONSTANTS
  Name = {na, nb}
  InodesCount = 4
  Blocks = 4
  MaxOps = 4
  MaxFaults = 1
  MaxCrashes = 1
SYMMETRY NameSymmetry
INVARIANTS NoDangling  NoLost OrphansDead  BlocksOwned 
CHECK_DEADLOCK FALSE
