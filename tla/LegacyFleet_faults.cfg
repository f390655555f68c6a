\* Compaction under a crash, a failed request and a torn merged file; and beside
\* it retention, a restore, a verification and a replica.
SPECIFICATION FleetFairSpec
CONSTANTS
  None = None
  Spans = {1}
  L1Batches = {2, 3}
  L2Batch = 2
  Budgets <- FaultMixes
INVARIANTS
  NothingLost
  RestoreExact
  CompactionConverges
  RestoreBesideOthers
  VerifyQuiet
PROPERTIES
  ReplicaExact
  BacklogDrains
  ReplicaConverges
