SPECIFICATION FairSpec
CONSTANTS
  Agents <- MCOneAgent
  WithInputs <- MCNoInputs
  NoAgent = "none"
  MaxHistory = 2
  MaxEdits = 1
  MaxMounts = 1
  MaxClicks = 3
  MaxRuns = 1
  MaxSaves = 1
  MaxGets = 2
  MaxFailures = 1
INVARIANTS
  ReplicaFollowsUnlessBehind
  SavedWithoutMessages
PROPERTY
  AutosaveReaches
CHECK_DEADLOCK FALSE
