SPECIFICATION Spec
CONSTANTS
  Inodes = 3
  GroupBlocks <- MCGroupBlocks
  GroupInodes <- MCGroupInodes
  Kind <- MCKind
  Owns <- MCOwns
  Meta = {0, 4}
  Journal = {3}
  RootBlock = 1
  PolicyBlock = 2
  Csum = FALSE
  MaxDamage = 2
  MaxFaults = 1
  MaxRuns = 2
INVARIANTS CleanMeansConsistent RepairConverges RepairSafe
