\* Two pieces of output per run.
SPECIFICATION FairSpec
CONSTANTS
  MaxOutput = 2
INVARIANTS
  RerunOnlyAfterSilence
  CompleteOutput
  SlotHeldUntilClosed
PROPERTIES
  InterruptSticks
  CallEnds
\* A call ends.
CHECK_DEADLOCK FALSE
