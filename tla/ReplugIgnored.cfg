\* A display is unplugged, and another one plugged in later.
SPECIFICATION Spec
CONSTANTS
  NumDisplays = 2
  First = {1}
  Sets <- OneAfterAnother
  Retries = 1
  Attempts = 1
  MaxInputs = 2
  None = None
INVARIANT ReplugIsApplied
ACTION_CONSTRAINT SnapshotsAtOnce
CHECK_DEADLOCK FALSE
