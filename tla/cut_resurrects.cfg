SPECIFICATION Spec
CONSTANTS
  ValueSpace = 1024
  HeapSize = 6
  TrailSize = 3
  NumXRegs = 2
  MaxStack = 4
  Programs <- CutThenTry
PROPERTY PopsToPrevious
CHECK_DEADLOCK FALSE
