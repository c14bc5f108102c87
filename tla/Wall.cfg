SPECIFICATION Spec
CONSTANTS
  Photos = {a, b}
  NoPhoto = none
  Checkers = {c1}
  Pulls = {p1}
  LoadTake = 1
  PullTake = 2
  TxtMax = 1
  PicTake = 2
  MaxRows = 2
  MaxEvents = 1
  MaxQueue = 1
  MaxRecoveries = 1
INVARIANTS
  TypeOK
  OnlyPassed
  WallsBounded
  CarouselCurrent
PROPERTIES
  SentAsConfirmed
  PassedIsShown
  PicturesTurn
CHECK_DEADLOCK FALSE
