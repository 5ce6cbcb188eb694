SPECIFICATION Spec
CONSTANTS
  Agents <- MCAgents
  WithInputs <- MCWithInputs
  NoAgent = "none"
  MaxHistory = 2
  MaxEdits = 1
  MaxMounts = 2
  MaxClicks = 2
  MaxRuns = 1
  MaxSaves = 1
  MaxGets = 2
  MaxFailures = 0
INVARIANTS
  TypeOK
  NoForeignSave
  HistoryConsistent
CHECK_DEADLOCK FALSE
