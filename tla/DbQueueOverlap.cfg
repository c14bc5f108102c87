SPECIFICATION FairSpec
CONSTANTS
  Kinds = {VoteLog}
  Callbacks = {c1, c2}
  MaxBatch = 1
  MinimumGrow = 2
  MaxRows = 2
INVARIANT FlagOwned
PROPERTY NoStarvation
CHECK_DEADLOCK FALSE
