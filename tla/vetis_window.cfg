SPECIFICATION FairSpec
CONSTANTS
  Docs = {d1, d2}
  NoDoc = NoDoc
  Calls = {c1, c2}
  Other = Other
  Nobody = Nobody
  Vsds = 1
  MaxClicks = 2
  MaxQuenches = 2
  MaxReads = 2
  MaxFaults = 1
INVARIANTS TypeOK RowsAreOwn OwnQuenchHoldsWindow NoOrphanLock ProgressIsHolders
PROPERTY LocksEnd
CHECK_DEADLOCK FALSE
