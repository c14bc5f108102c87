SPECIFICATION OneFlushSpec
CONSTANTS
  Kinds = {VoteLog}
  Callbacks = {c1}
  MaxBatch = 2
  MinimumGrow = 1
  MaxRows = 3
INVARIANT InsertsKept
CHECK_DEADLOCK FALSE
