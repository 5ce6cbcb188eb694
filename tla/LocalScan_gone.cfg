SPECIFICATION FairSpec
CONSTANTS
  Files = {"fa"}
  Dirs = {"a"}
  Inside <- SoloInside
  StartsWith <- SoloInside
  Scheduler = sch
  Triggers = {}
  EventLoop = loop
  Registered <- DirA
  DocIds = {1, 2}
  RecIds = {1}
  SizeOf <- Sizes
  EditsPerSecond = 1
  FileLimit = 2
  MaxVersion = 1
  MaxRequests = 0
  MayUnmount = FALSE
  MaxFailures = 0
  None = None
PROPERTIES DeletedFollow
CHECK_DEADLOCK FALSE
