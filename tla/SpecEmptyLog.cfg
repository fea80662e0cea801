CONSTANTS
  N = 3
  F = 1
  Clients = {c1, c2}
  SyncRequests = 10
  MaxReq = 1
  Scenarios <- LeaderWithoutItsLog
  c1 = c1
  c2 = c2
SPECIFICATION Spec
CHECK_DEADLOCK FALSE
INVARIANT CommittedAgree
