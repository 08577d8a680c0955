CONSTANTS
  N = 3
  MaxDepth = 1
  MaxThrows = 1
  ScopedReads = FALSE
SPECIFICATION Spec
INVARIANTS ReadyExact RunCountersExact FenceFinal DebtOwned
PROPERTIES ReclaimOnlyUnreferenced
