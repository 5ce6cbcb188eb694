SPECIFICATION Spec
CONSTANTS
  Parts = {1}
  Thread = thread
  Patient = FALSE
  RichConfigs = {1}
  MaxRuns = 2
  MaxExpired = 1
  MaxFaults = 0
INVARIANTS TypeOK DoneIsIndexed GhostsExplained
CONSTRAINT ThreadWaits
CHECK_DEADLOCK FALSE
