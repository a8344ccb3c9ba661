SPECIFICATION Spec
CONSTANTS
  h1 = h1
  h2 = h2
  SB = SB
  Home = {h1, h2}
  JournalBlocks = 17
  MaxEntries = 3
  MaxTxn = 3
  MaxCrash = 2
  MaxFaults = 0
  MaxPending = 2
SYMMETRY HomeSymmetry
INVARIANT CommittedVisible
INVARIANT IdleMeansHome
 
INVARIANT PendingReachable
INVARIANT MountableUnlessTorn
