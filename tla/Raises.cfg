SPECIFICATION Spec
CONSTANTS
  None = None
  Windows <- MCThreeWindows
  Responses <- MCAnyResponse
  Targets <- MCTargets
  Mortal <- MCMortal
  MaxResponses = 2
INVARIANTS
  OneSequenceAtATime
  WaitsForItsRaises
PROPERTIES
  EverythingEnds
  RaisesInOrder
  StaleSwitchesRaiseNothing
CHECK_DEADLOCK FALSE
