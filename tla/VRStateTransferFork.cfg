CONSTANTS
  N = 3
  F = 1
  Clients = {c1, c2}
  BatchSize = 1
  LeaderOnly = {}
  Down = {}
  Lost = {"reply"}
  Timers = {"viewChange"}
  MaxReq = 1
  MaxOp = 1
  MaxView = 1
  MaxRestart = 0
  MaxPending = 1
  MaxTransfer = 1
SPECIFICATION Spec
CHECK_DEADLOCK FALSE
INVARIANTS Agreement
