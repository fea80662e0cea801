SPECIFICATION MCSpec
CONSTANTS
  Workers = {w1, w2, w3}
  NoWorker = NoWorker
  MaxTask = 4
  r0 = r0 r1 = r1 r2 = r2 c1 = c1 c2 = c2
INVARIANTS Inv OrderIsServed
PROPERTIES RunsInOrder
CHECK_DEADLOCK FALSE
