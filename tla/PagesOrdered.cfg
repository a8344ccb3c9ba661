SPECIFICATION Spec
CONSTANTS
  InodeBlock = InodeBlock
  NoPage = NoPage
  Page = {0, 1}
  MaxWrites = 2
  MaxAttrs = 1
  MaxFaults = 1
CHECK_DEADLOCK FALSE
INVARIANTS OrderedCommit  SyncedDataOnDevice CleanIsCommitted
