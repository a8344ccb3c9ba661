SPECIFICATION Spec
CONSTANTS
  h1 = h1
  h2 = h2
  h3 = h3
  SB = SB
  Home = {h1, h2, h3}
  JournalBlocks = 7
  MaxEntries = 2
  MaxTxn = 3
  MaxCrash = 2
  MaxFaults = 0
  MaxPending = 0
SYMMETRY HomeSymmetry
INVARIANT ControlValid
INVARIANT MountableUnlessTorn
