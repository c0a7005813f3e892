SPECIFICATION Spec
CONSTANTS
  Displays = {1}
  Windows = {1}
  NumSlots = 2
  MaxWorkspaceId = 3
  MaxPersistedId = 0
  None = None
  Topologies <- MCTopologies
  RuleDecisions <- MCDefaultRules
VIEW ManagedView
INVARIANTS
  MovesAreAccepted
CHECK_DEADLOCK FALSE
