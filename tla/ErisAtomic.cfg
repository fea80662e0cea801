CONSTANTS
  Clients = {c1, c2}
  Scenarios <- LateAtOneShard
  c1 = c1
  c2 = c2
SPECIFICATION Spec
CHECK_DEADLOCK FALSE
INVARIANT Atomic
