CONSTANTS
  r1 = r1 r2 = r2 r3 = r3 r4 = r4 c1 = c1 c2 = c2 c3 = c3
  w1 = w1 w2 = w2 w3 = w3 NoWorker = NoWorker
  n_worker = 2
  SlotsPerWorker = 2
  MaxTask = 5
SPECIFICATION MCFairSpec
CHECK_DEADLOCK FALSE
INVARIANTS SpinOneSolo SpinInOrderIfSolos SpinNoTaskLost VRNoFault
PROPERTIES EveryTaskRuns JoinReturns PoolTasksRun PBFTCompletes VRCompletes
