CONSTANTS
  N = 3
  F = 1
  Clients = {c1}
  Scenarios <- MCGapRace
  MaxReq = 1
  MaxTransfer = 1
  c1 = c1
SPECIFICATION Spec
CHECK_DEADLOCK FALSE
INVARIANT CommittedAgree
