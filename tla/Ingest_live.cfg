SPECIFICATION FairSpec
CONSTANTS
  Parts = {1}
  Thread = thread
  Patient = TRUE
  RichConfigs = {}
  MaxRuns = 2
  MaxExpired = 0
  MaxFaults = 1
PROPERTIES CancelSticks ProgressEnds
CHECK_DEADLOCK FALSE
