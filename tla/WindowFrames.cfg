\* Two windows, one of which refuses frames; commands, workspace switches,
\* a change by the application and a press of the button.
SPECIFICATION Spec
CONSTANTS
  NumWindows = 2
  Frames <- TwoTiles
  Hidden = "off"
  Midway = "midway"
  Own = "own"
  Layouts <- Plans
  Stubborn = {2}
  TxIds = 3
  Steps = 2
  MaxInputs = 2
  None = None
INVARIANT SettlesAsPlanned
PROPERTY FightsEnd
CHECK_DEADLOCK FALSE
