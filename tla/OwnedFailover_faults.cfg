\* Founders that race, a stream that changes hands beside a deposed writer, and
\* followers.
SPECIFICATION FairSpec
CONSTANTS
  None = None
  Nodes = {"a", "b"}
  First = "a"
  Followers = {"file", "sink"}
  Budgets <- FaultMixes
INVARIANTS
  AckedIsRestored
  OneLineage
  FollowerExact
PROPERTIES
  NothingHidden
  TakenOver
CHECK_DEADLOCK FALSE
