SPECIFICATION SerialSpec
CONSTANTS
  Kinds = {VoteLog, JDLYLog}
  Callbacks = {c1, c2}
  MaxBatch = 2
  MinimumGrow = 1
  MaxRows = 3
SYMMETRY Symmetry
INVARIANTS TypeOK Conservation
PROPERTY IsAsyncWriter
CHECK_DEADLOCK FALSE
