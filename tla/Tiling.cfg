SPECIFICATION MCSpec
CONSTANTS
  Windows = {w1, w2, w3}
  Parts = 4
  None = None
  NumItems = 2
  Unit = 60
  MaxUnits = 3
  MaxWeight = 3
SYMMETRY WindowSymmetry
VIEW TilingView
INVARIANTS
  TreeIsSound
  SegmentsAreRight
PROPERTIES
  HalvedKeepsItsPromise
  ChangesStayLocal
CHECK_DEADLOCK FALSE
