SPECIFICATION Spec
CONSTANTS
  Phones = {p1}
  Votes = {1, 2}
  Started = TRUE
  Seconds = {2}
  LaunchPages = {"index", "login"}
  MaxViews = 2
  MaxEvents = 2
  MaxQueue = 1
  MaxCalls = 1
INVARIANTS
  TypeOK
  
CHECK_DEADLOCK FALSE
