CONSTANTS
  N = 2
  MaxDepth = 2
  MaxThrows = 0
  ScopedReads = FALSE
SPECIFICATION Spec
INVARIANTS NoReaderOfReclaimed
