SPECIFICATION FairCommandSpec
CONSTANTS
  ValueSpace = 1024
  AtomNames <- MCAtomNames
  Functors <- MCFunctors
  HeapSize = 48
  TrailSize = 48
  NumXRegs = 16
  MaxStack = 8
  Solve <- Answers
  Reading <- ReadTerm
  NeverEnds <- Endless
  UpToNames <- Canonical
  Unprinted <- Infinite
  Programs <- MCPrograms
INVARIANTS AnswersAreSLD NoMoreMeansComplete ClosedAtCalls NoDanglingRead OutputIsTrue AnswersLand PanicsAtLimits CompiledIsDisciplined UnifiesWhole
PROPERTIES CommandEnds DerefDescends
CHECK_DEADLOCK FALSE
