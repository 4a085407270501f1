CONSTANTS
  Pids = {}
  None = None
  ReadCommitted = FALSE
  Fake = FALSE
  MaxBatches = 2
  MaxPoll = 1
  MaxLen = 2
  MaxEnd = 4
SPECIFICATION FairSpec
PROPERTY CutRecordsAreRead
CHECK_DEADLOCK FALSE
