\* Two windows on one display, the focus and the drag of which are told apart; three
\* changes of two displays with lines of two sizes, or refusals, and one click; two updates
\* and two changes of the settings of a menu bar item that has less or more room; three
\* starts with three changes in all; three messages around a timeout of two.
SPECIFICATION MCSpec
CONSTANTS
  Displays = {1}
  Windows = {1, 2}
  NumSlots = 1
  MaxWorkspaceId = 2
  MaxPersistedId = 0
  None = None
  Topologies <- MCTopologies
  RuleDecisions <- MCDefaultRules
  Order <- MCOrder
  Sights <- MCPictures
  Sizes = {"thin", "thick"}
  MaxNews = 3
  MaxClicks = 1
  Styles = {"label", "layout"}
  Wide = 5
  Narrow = 2
  Padding = 2
  Margin = 2
  Rooms = {6, 8}
  MaxUpdates = 2
  MaxEdits = 2
  MaxRooms = 1
  Numbers = {0, 1, 3}
  MaxId = 5
  MaxLives = 3
  MaxSavedChanges = 3
  Senders = {1, 2, 3}
  Messages = {"begin", "end"}
  Timeout = 2
  Early = 1
  MaxTime = 5
VIEW View
INVARIANTS
  NamesPresentWindows
  LinesAreTrue
  MenuIsCurrent
  LayoutIsRestored
  NothingIsSleptThrough
CHECK_DEADLOCK FALSE
