SPECIFICATION Spec
CONSTANTS
  n1 = n1
  n2 = n2
  n3 = n3
  Name = {n1, n2, n3}
  Need <- MCNeed
  Hash <- MCHash
  BlockLen = 4
  MaxBlocks = 2
  Space = 2
  HasIndex = TRUE
  Csum = TRUE
  MaxFaults = 1
INVARIANTS  RecordsFit  ReaddirComplete
