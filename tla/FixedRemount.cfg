SPECIFICATION Spec
CONSTANTS
  h1 = h1
  h2 = h2
  Home = {h1, h2}
  SB = SB
  NoBlock = NoBlock
  Area = 2
  Versions = {3}
  MaxTxn = 3
  MaxWrites = 3
  MaxCrashes = 0
  MaxFaults = 0
SYMMETRY HomeSymmetry
CHECK_DEADLOCK FALSE
INVARIANT CleanUnmountMounts
