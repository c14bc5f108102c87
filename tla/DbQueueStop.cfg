SPECIFICATION SerialSpec
CONSTANTS
  Kinds = {VoteLog}
  Callbacks = {c1}
  MaxBatch = 2
  MinimumGrow = 1
  MaxRows = 2
INVARIANT TimerStopsDrained
CHECK_DEADLOCK FALSE
