SPECIFICATION Spec
CONSTANTS
  Displays = {1}
  Windows = {1, 2}
  NumSlots = 3
  MaxWorkspaceId = 3
  MaxPersistedId = 0
  None = None
  Topologies <- MCTopologies
  RuleDecisions <- MCNumberRules
VIEW FramelessView
INVARIANTS
  WindowsAreValid
CHECK_DEADLOCK FALSE
