\* Crashes, failed puts, restarts of the WAL, new bases and a deposed writer.
SPECIFICATION FairSpec
CONSTANTS
  None = None
  Nodes = {"a", "b"}
  First = "a"
  Skips = {0, 1}
  Budgets <- FaultMixes
INVARIANTS
  FollowerExact
  FollowerKeepsUp
PROPERTIES
  ReopenAtHead
  FollowersCatchUp
CHECK_DEADLOCK FALSE
