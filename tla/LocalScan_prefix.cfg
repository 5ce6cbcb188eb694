SPECIFICATION Spec
CONSTANTS
  Files = {"fa", "fab"}
  Dirs = {"a", "ab"}
  Inside <- PrefixInside
  StartsWith <- PrefixStartsWith
  Scheduler = sch
  Triggers = {}
  EventLoop = loop
  Registered <- DirsAandAB
  DocIds = {1, 2, 3, 4}
  RecIds = {1, 2}
  SizeOf <- Sizes
  EditsPerSecond = 1
  FileLimit = 2
  MaxVersion = 2
  MaxRequests = 0
  MayUnmount = FALSE
  MaxFailures = 0
  None = None
PROPERTIES UnchangedKept
