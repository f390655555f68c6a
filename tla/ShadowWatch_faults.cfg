\* Crashes, resets, failed requests and checkpoints.
SPECIFICATION FairSpec
CONSTANTS
  None = None
  Concurrency = 2
  MaxTxid = 8
  Pages = 2
  MinCheckpointFrames = 1
  Setups <- FaultSetups
INVARIANTS
  NoWrongRestore
  ProgressIsDurable
  CleanStopShips
PROPERTIES
  SegmentsKeptUntilShipped
  CommitsGetShipped
CHECK_DEADLOCK FALSE
