SPECIFICATION Spec
CONSTANTS
  Photos = {a}
  NoPhoto = none
  Checkers = {c1, c2}
  Pulls = {p1, p2}
  LoadTake = 1
  PullTake = 2
  TxtMax = 1
  PicTake = 1
  MaxRows = 1
  MaxEvents = 1
  MaxQueue = 1
  MaxRecoveries = 0
PROPERTIES
  PassedStays
CHECK_DEADLOCK FALSE
