SPECIFICATION MCSpec
CONSTANTS
  s1 = s1 s2 = s2 s3 = s3 w1 = w1 w2 = w2 a1 = a1 d1 = d1 d2 = d2 n1 = n1 n2 = n2 n3 = n3
  h1 = h1 h2 = h2
  Displays = {d1, d2} Order <- MCOrder WindowOrder <- MCWindows Enabled = TRUE
  MaxShows = 1 MaxKeys = 2 MaxChanges = 1
  PreviewWindows = {p1, p2} Unnamed = {} Workers = {k1, k2} SyncLimit = 1 Fades = TRUE
  MaxUpdates = 2 MaxRedraws = 2
  MovedWindows = {w1, w2} App <- MCApp Rule <- MCRule MoveDisplays = {d1, d2}
  Numbered = {n1, n2, n3} Tenth = n3 Hidden <- MCHidden MaxSteps = 5 MaxMoves = 2
  None = None
VIEW View
SYMMETRY Symmetry
INVARIANTS PickIsHonoured PreviewsAppear MovesAreExplained
CHECK_DEADLOCK FALSE
