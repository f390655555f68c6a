\* A WAL that is written, rolled back, restarted and truncated while it is read.
CONSTANTS
  None = None
  MaxPage = 3
  Budgets <- FaultMixes
SPECIFICATION FairSpec
INVARIANTS FollowerExact MergeExact CursorAligned
PROPERTIES Ships
CHECK_DEADLOCK FALSE
