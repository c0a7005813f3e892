SPECIFICATION Spec
CONSTANTS
  None = None
  Windows <- MCThreeWindows
  Responses <- MCAnyResponse
  Targets <- MCTargets
  Mortal <- MCMortal
  MaxResponses = 2
INVARIANTS
  FocusHasItsHandle
CHECK_DEADLOCK FALSE
