\* A stop, a failed put, a failed save, a foreign checkpoint and a snapshot tick.
SPECIFICATION Spec
CONSTANTS
  MaxVersion = 10
  MaxSeq = 5
  Budgets <- CrashMixes
INVARIANTS
  ChainSound
  RestoreExact
  CursorsSound
CHECK_DEADLOCK FALSE
