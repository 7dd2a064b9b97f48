SPECIFICATION Spec
CONSTANTS
  ValueSpace = 1024
  HeapSize = 7
  TrailSize = 4
  NumXRegs = 2
  MaxStack = 4
  Programs <- MCPrograms
  Values <- MCValues
INVARIANTS TypeOK TrailSound ChoicesNest
PROPERTIES BacktrackingIsPersistent PopsToPrevious UnifySolves
CHECK_DEADLOCK FALSE
