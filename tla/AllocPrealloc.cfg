SPECIFICATION Spec
CONSTANTS
  HasGroups = TRUE
  Prealloc = TRUE
  BlocksCount = 13
  BlocksPerGroup = 5
  GroupCount = 3
  FirstDataBlock = 2
  DataStart <- MCDataStart
  Reserved = {2, 12}
INVARIANTS CountsExact MetadataPinned
PROPERTIES BlocksArePooled GoalHonoured
