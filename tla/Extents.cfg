SPECIFICATION Spec
CONSTANTS
  NBlocks = 6
  Formats = {"indirect", "inline", "root", "tree"}
  Direct = 2
  Indirect = 3
  MaxInline = 3
  RootInline = 2
  PerBlock = 2
  RootRefs = 2
  MaxLen = 3
  Starts = {1}
  MaxSize = 5
  MinFree = 6
INVARIANTS NoLeak Reloads
PROPERTY IsBlockMap
