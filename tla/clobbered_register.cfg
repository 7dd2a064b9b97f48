SPECIFICATION QuerySpec
CONSTANTS
  ValueSpace = 1024
  AtomNames <- MCAtomNames
  Functors <- MCFunctors
  HeapSize = 48
  TrailSize = 48
  NumXRegs = 10
  MaxStack = 8
  Solve <- Answers
  Reading <- ReadTerm
  NeverEnds <- Endless
  UpToNames <- Canonical
  Programs <- Clobbered
INVARIANT FreshHoldsNothing
CHECK_DEADLOCK FALSE
