SPECIFICATION Spec
CONSTANTS
  Displays = {1, 2}
  Windows = {1}
  NumSlots = 2
  MaxWorkspaceId = 4
  MaxPersistedId = 1
  None = None
  Topologies <- MCTopologies
  RuleDecisions <- MCDefaultRules
VIEW ManagedView
INVARIANTS
  OwnersKeepANumber
  OnlineDisplaysShowTheirOwn
  ReturnsOnlyFromHidden
  RefusedOnlyForLostReturn
PROPERTIES
  TopologyIsLocal
  IdsAreStable
CHECK_DEADLOCK FALSE
