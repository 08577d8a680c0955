CONSTANTS
  N = 2
  MaxDepth = 2
  MaxThrows = 1
  ScopedReads = TRUE
SPECIFICATION FairSpec
INVARIANTS NoReaderOfReclaimed
PROPERTIES LegalTransitions ClosedRunFinishes
CHECK_DEADLOCK FALSE
