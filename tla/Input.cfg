SPECIFICATION MCSpec
CONSTANTS
  alt = alt k1 = k1 c1 = c1 c2 = c2 jump = jump
  Families = {alt} Single = {} Keys = {k1} Arrow = Arrow Escape = Escape Characters = {c1, c2}
  Layouts <- MCLayouts Bindings <- MCBindings Configs <- MCConfigs ResizeMode = ResizeMode
  MaxRequests = 3 MaxFaults = 1 MaxStrokes = 3
  Fingers = {f1, f2} Columns = 2 Rows = 1 Distance = 1 Tolerance = 0 Settings <- MCSettings
  MaxEvents = 5 MaxUpdates = 1 MaxLost = 1
  a1 = a1 a2 = a2 b1 = b1 u1 = u1 u2 = u2 u3 = u3
  Spaces = {a1, a2, b1} Order <- MCOrder Home <- MCHome Uuids <- MCUuids
  SpaceConfigs <- MCSpaceConfigs MaxChanges = 2 MaxToggles = 2
  None = None
VIEW View
INVARIANTS TapListens SwipesSwitch ChoicesStand
PROPERTY InputIsHandled
CHECK_DEADLOCK FALSE
