\* No failed request: the stream implements the durable log, under fairness, what an
\* operation acknowledges can be restored, and restore points stay.
SPECIFICATION FairSpec
CONSTANTS
  MaxVersion = 16
  MaxSeq = 8
  Budgets <- LiveMixes
INVARIANTS
  FlushIsDurable
  NoSelfEquivocation
  RestoreExact
PROPERTIES
  ImplementsLog
  RestorePointsSurvive
