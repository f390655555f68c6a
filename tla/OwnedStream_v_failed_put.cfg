\* Expected to be violated: see the README.
SPECIFICATION Spec
CONSTANTS
  MaxVersion = 8
  MaxSeq = 5
  Budgets <- FailedPut
INVARIANTS
  FlushIsDurable
CHECK_DEADLOCK FALSE
