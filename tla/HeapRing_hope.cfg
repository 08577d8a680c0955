CONSTANTS
  Threads = {t1}
  RingDepth = 1
  HeapSize = 5
  Align = 2
  Requests = {0, 1, 3}
  MaxAllocs = 4
  TimeoutTicks = 1
SPECIFICATION Spec
INVARIANTS WaiterHasHope
