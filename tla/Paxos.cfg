CONSTANTS
  N = 3
  F = 1
  Clients = {c1, c2}
  MaxReq = 1
  c1 = c1
  c2 = c2
SPECIFICATION MCSpec
CHECK_DEADLOCK FALSE
INVARIANTS CommittedAgree CompletedIsKept ExecutedOnce NoFault
