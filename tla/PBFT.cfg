CONSTANTS
  r2 = r2 r3 = r3 c1 = c1 c2 = c2 c3 = c3
  Replicas = {r1, r2, r3, r4}
  Primary = r1
  Clients = {c1, c2}
  f = 1
  Crashed = {r4}
  BatchSize = 1
  MaxReq = 1
  MaxLog = 2
  MaxClose = 1
SPECIFICATION MCSpec
SYMMETRY Symmetry
CHECK_DEADLOCK FALSE
INVARIANTS Agreement CommitHasCertificate ExecutedIsReplicated BufferWaitsForGap CompletedIsExecuted
