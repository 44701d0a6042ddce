SPECIFICATION LogSpec
CONSTANTS
  MaxRecords = 5
  QueueCap = 2
  Batch = 2
  MaxLength = 1
  Keeps = {0, 2}
  MaxInodes = 5
INVARIANTS
  LogKeepsNewest
  DrainedAtShutdown
\* The task has stopped.
CHECK_DEADLOCK FALSE
