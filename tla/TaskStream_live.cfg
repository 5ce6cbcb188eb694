SPECIFICATION FairSpec
CONSTANTS
  e1 = e1
  e2 = e2
  t1 = t1
  t2 = t2
  Executors = {e1, e2}
  Tasks = {t1, t2}
  Kind <- DocumentAndDebug
  QueueOf <- SplitQueues
  MaxSlots = 1
  MaxCrashes = 1
  MaxFaults = 0
PROPERTIES
  EventuallySettled
