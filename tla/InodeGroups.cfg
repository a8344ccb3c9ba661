SPECIFICATION Spec
CONSTANTS
  HasGroups = TRUE
  Prealloc = TRUE
  InodesCount = 6
  InodesPerGroup = 2
  GroupCount = 3
  Task = {t1, t2, t3}
SYMMETRY TaskSymmetry
INVARIANTS CountsExact InodeNotLost FreeInodesZeroed
PROPERTY InodesArePooled
