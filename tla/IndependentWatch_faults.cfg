\* Crashes, resets, failed puts and uploads in both modes.
SPECIFICATION FairSpec
CONSTANTS
  None = None
  Concurrency = 2
  MaxTxid = 8
  Pages = 2
  Setups <- FaultSetups
INVARIANTS
  NoWrongRestore
  SyncedIsRestorable
  CleanStopShips
  CursorRestorable
  CachedRestoreAgrees
PROPERTIES
  PendingSettles
CHECK_DEADLOCK FALSE
