SPECIFICATION Spec
CONSTANTS
  e1 = e1
  e2 = e2
  t1 = t1
  t2 = t2
  Executors = {e1, e2}
  Tasks = {t1}
  Kind <- OneDocument
  QueueOf <- OneQueue
  MaxSlots = 2
  MaxCrashes = 1
  MaxFaults = 2
SYMMETRY Symmetry
INVARIANTS
  Accounted
  OneHandler
PROPERTIES
  ImplementsWorkQueue
