SPECIFICATION Spec
CONSTANTS
  Kinds = {"Switch", "Agent", "Tool", "Iteration", "Loop"}
  MaxId = 3
  MaxSelected = 1
INVARIANTS
  TypeOK
  Acyclic
  EdgesStayInGroup
  DownstreamExists
  UncopiedSwitchNames
  OneToolNode
