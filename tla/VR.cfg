CONSTANTS
  N = 3
  F = 1
  Clients = {c1, c2}
  BatchSize = 1
  LeaderOnly = {}
  Down = {}
  Lost = {"reply"}
  Timers = {"nullCommit", "stateTransfer"}
  MaxReq = 1
  MaxOp = 2
  MaxView = 0
  MaxRestart = 0
  MaxPending = 1
  MaxTransfer = 1
  c1 = c1
  c2 = c2
SPECIFICATION MCSpec
SYMMETRY ClientSymmetry
CHECK_DEADLOCK FALSE
INVARIANTS Agreement PrepareOKIsKept LeaderKeepsReplies AtMostOnce ReplyIsReplicated
PROPERTY OnlyForward
