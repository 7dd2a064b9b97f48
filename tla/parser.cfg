SPECIFICATION FairSpec
CONSTANTS
  MaxInt = 99
  Inputs <- MCInputs
INVARIANTS TokensSuffice ReadsWhatIsWritten ReadsTheGrammar
PROPERTIES ParseEnds BracketsNest
CHECK_DEADLOCK FALSE
