\* Expected to be violated: see the README.
SPECIFICATION FleetSpec
CONSTANTS
  None = None
  Spans = {1}
  L1Batches = {3}
  L2Batch = 2
  Budgets <- LoneFile
INVARIANTS
  RerunConverges
