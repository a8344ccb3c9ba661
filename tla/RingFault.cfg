SPECIFICATION FairSpec
CONSTANTS
  h1 = h1
  h2 = h2
  SB = SB
  Home = {h1, h2}
  JournalBlocks = 17
  MaxEntries = 3
  MaxTxn = 2
  MaxCrash = 1
  MaxFaults = 1
  MaxPending = 2
INVARIANT PendingIntact
PROPERTY PendingDrains
