SPECIFICATION Spec
CONSTANTS
  h1 = h1
  h2 = h2
  Home = {h1, h2}
  SB = SB
  NoBlock = NoBlock
  Area = 2
  Versions = {1, 2, 3}
  MaxTxn = 3
  MaxWrites = 3
  MaxCrashes = 2
  MaxFaults = 1
SYMMETRY HomeSymmetry
CHECK_DEADLOCK FALSE
INVARIANTS CommittedVisible ReplayAtomic
