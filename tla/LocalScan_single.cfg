SPECIFICATION Spec
CONSTANTS
  Files = {"fa", "ga", "ha"}
  Dirs = {"a"}
  Inside <- TrioInside
  StartsWith <- TrioInside
  Scheduler = sch
  Triggers = {}
  EventLoop = loop
  Registered <- DirA
  DocIds = {1, 2, 3, 4}
  RecIds = {1, 2}
  SizeOf <- Sizes
  EditsPerSecond = 1
  FileLimit = 2
  MaxVersion = 3
  MaxRequests = 0
  MayUnmount = FALSE
  MaxFailures = 1
  None = None
INVARIANTS NoOrphanRows
PROPERTIES UnchangedKept
