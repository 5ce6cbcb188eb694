SPECIFICATION FairSpec
CONSTANTS
  Files = {"fa"}
  Dirs = {"a"}
  Inside <- SoloInside
  StartsWith <- SoloInside
  Scheduler = sch
  Triggers = {}
  EventLoop = loop
  Registered <- DirA
  DocIds = {1, 2, 3, 4, 5}
  RecIds = {1, 2}
  SizeOf <- Sizes
  EditsPerSecond = 1
  FileLimit = 2
  MaxVersion = 2
  MaxRequests = 1
  MayUnmount = TRUE
  MaxFailures = 1
  None = None
INVARIANTS TypeOK CountMatchesRows DuplicatesBounded
PROPERTIES ConvergesUndisturbed Mirrors
CHECK_DEADLOCK FALSE
