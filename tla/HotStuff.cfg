SPECIFICATION Spec
CONSTANTS
  r1 = r1 r2 = r2 r3 = r3 r4 = r4 c1 = c1 c2 = c2
  NoClient = NoClient
  Replicas = {r1, r2, r3, r4}
  Primary = r1
  Clients = {c1}
  f = 1
  Crashed = {r4}
  BatchSize = 1
  MaxReq = 1
  MaxLog = 6
CHECK_DEADLOCK FALSE
SYMMETRY BackupSymmetry
INVARIANTS Agreement ExecutesInOrder QCIsHeld AtMostOnce CompletedIsExecuted
