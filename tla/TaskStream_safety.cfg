SPECIFICATION Spec
CONSTANTS
  e1 = e1
  e2 = e2
  t1 = t1
  t2 = t2
  Executors = {e1, e2}
  Tasks = {t1, t2}
  Kind <- DocAndMemory
  QueueOf <- SplitQueues
  MaxSlots = 2
  MaxCrashes = 3
  MaxFaults = 0
SYMMETRY Symmetry
INVARIANTS
  TypeOK
  Accounted
  OneHandler
  NothingStranded
  SettledIsFinal
  AttemptsBounded
  PermitsRespected
