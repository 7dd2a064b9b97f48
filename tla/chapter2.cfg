SPECIFICATION Spec
CONSTANTS
  ValueSpace = 1024
  AtomNames <- MCAtomNames
  Functors <- MCFunctors
  HeapSize = 32
  TrailSize = 4
  NumXRegs = 10
  MaxStack = 8
  Programs <- L0Programs
INVARIANT L0Unifies
CHECK_DEADLOCK FALSE
