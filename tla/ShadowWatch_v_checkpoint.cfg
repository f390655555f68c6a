\* Expected to be violated: see the README.
SPECIFICATION Spec
CONSTANTS
  None = None
  Concurrency = 2
  MaxTxid = 8
  Pages = 2
  MinCheckpointFrames = 1
  Setups <- OvertakenSetups
INVARIANTS
  RestoresVerified
CHECK_DEADLOCK FALSE
