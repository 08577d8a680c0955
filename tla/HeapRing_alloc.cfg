CONSTANTS
  Threads = {t1, t2}
  RingDepth = 2
  HeapSize = 5
  Align = 2
  Requests = {0, 1, 3}
  MaxAllocs = 2
  TimeoutTicks = 1
SPECIFICATION FairSpec
INVARIANTS SlabsSound OneOwner NoMissedWakeup
PROPERTIES AllocReturns
CHECK_DEADLOCK FALSE
