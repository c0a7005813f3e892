\* As WindowFrames.cfg, for the animations that are dropped.
SPECIFICATION Spec
CONSTANTS
  NumWindows = 2
  Frames <- TwoTiles
  Hidden = "off"
  Midway = "midway"
  Own = "own"
  Layouts <- Plans
  Stubborn = {2}
  TxIds = 3
  Steps = 2
  MaxInputs = 2
  None = None
INVARIANT NothingLeftAnimating
CHECK_DEADLOCK FALSE
