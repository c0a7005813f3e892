\* One display that stays online; its spaces are switched.
SPECIFICATION Spec
CONSTANTS
  NumDisplays = 1
  First = {1}
  Sets = {}
  Retries = 1
  Attempts = 1
  MaxInputs = 4
  None = None
INVARIANT SpacesFollow
ACTION_CONSTRAINT SnapshotsAtOnce
CHECK_DEADLOCK FALSE
