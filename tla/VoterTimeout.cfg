SPECIFICATION Spec
CONSTANTS
  Phones = {p1}
  Votes = {1, 2}
  Started = FALSE
  Seconds = {2}
  LaunchPages = {"index"}
  MaxViews = 2
  MaxEvents = 1
  MaxQueue = 1
  MaxCalls = 1
PROPERTIES
  TimeoutMeansTimeUp
CHECK_DEADLOCK FALSE
