\* Two displays, of which one is online at first, two reconfigurations or other
\* changes, one retry of every kind; or one window and one reconfiguration.
SPECIFICATION MCSpec
CONSTANTS
  NumDisplays = 2
  First = {1}
  Sets <- AnyDisplays
  Retries = 1
  Attempts = 1
  MaxInputs = 2
  Windows = {1}
  MaxChurns = 1
  None = None
INVARIANTS
  KnowsTheLastFlags
  ScreensSettle
  WindowsAreKnown
ACTION_CONSTRAINT SnapshotsAtOnce
CHECK_DEADLOCK FALSE
