SPECIFICATION Spec
CONSTANTS
  n_worker = 2
  SlotsPerWorker = 2
  MaxTask = 5
INVARIANTS InOrder
CHECK_DEADLOCK FALSE
