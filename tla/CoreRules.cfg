SPECIFICATION Spec
CONSTANTS
  Displays = {1, 2}
  Windows = {1}
  NumSlots = 2
  MaxWorkspaceId = 3
  MaxPersistedId = 1
  None = None
  Topologies <- MCTopologies
  RuleDecisions <- MCEveryRule
VIEW CatalogView
INVARIANTS
  FramesOfFloatingOnly
PROPERTIES
  ObservationsMoveNoWindow
CHECK_DEADLOCK FALSE
