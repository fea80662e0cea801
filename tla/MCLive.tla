------------------------------- MODULE MCLive -------------------------------
(***************************************************************************)
(* What must happen eventually, in PBFT, in VR, in the runner with a pool  *)
(* of threads, and in the spinning runners with the constants of the       *)
(* configuration.  One of them runs in each behaviour; the others stay in  *)
(* their initial states.                                                   *)
(***************************************************************************)
EXTENDS SpinRunners

CONSTANTS r1, r2, r3, r4, c1, c2, c3, w1, w2, w3, NoWorker

VARIABLES
  system,
  log, prepared, committed, commit_number, client_table, prepare_quorum, commit_quorum,
  request_buffer, request_batch, close_queued, stopped, pending, last_req, received, msgs,
  rep, client, vrMsgs,
  prologue_id, last_task, replica_mutex, epilogue, queue, place, poolTask, solo, mine, begun, none, finished

PBFT == INSTANCE PBFT WITH
  Replicas <- {r1, r2, r3, r4}, Primary <- r1, Clients <- {c1}, f <- 1, Crashed <- {r4},
  BatchSize <- 1, MaxReq <- 2, MaxLog <- 2, MaxClose <- 1

pbftVars ==
  <<log, prepared, committed, commit_number, client_table, prepare_quorum, commit_quorum,
    request_buffer, request_batch, close_queued, stopped, pending, last_req, received, msgs>>

\* The leader of view 0 is down and the others must change the view first; the requests
\* of c3 are answered by the leader alone.
VR == INSTANCE VR WITH
  N <- 3, F <- 1, Clients <- {c1, c2, c3}, BatchSize <- 2, LeaderOnly <- {c3},
  Down <- {0}, Lost <- {}, Timers <- {"viewChange", "closeBatch"},
  MaxReq <- 1, MaxOp <- 3, MaxView <- 1, MaxRestart <- 0, MaxPending <- 1, MaxTransfer <- 1,
  msgs <- vrMsgs

vrVars == <<rep, client, vrMsgs>>

Pool == INSTANCE OrderedPool WITH
  Workers <- {w1, w2, w3}, MaxTask <- 3, pc <- place, task <- poolTask, started <- begun, dropped <- none

poolVars ==
  <<prologue_id, last_task, replica_mutex, epilogue, queue, place, poolTask, solo, mine, begun, none, finished>>

MCInit ==
  /\ system \in {"pbft", "vr", "runner", "pool"}
  /\ PBFT!Init /\ VR!Init /\ Pool!Init /\ Init
  /\ system # "runner" => ordered /\ ~shutdown

MCNext ==
  \/ system = "pbft" /\ PBFT!Next /\ UNCHANGED <<system, vrVars, poolVars, vars>>
  \/ system = "vr" /\ VR!Next /\ UNCHANGED <<system, pbftVars, poolVars, vars>>
  \/ system = "runner" /\ Next /\ UNCHANGED <<system, pbftVars, vrVars, poolVars>>
  \/ system = "pool" /\ Pool!Next /\ UNCHANGED <<system, pbftVars, vrVars, vars>>

\* The fairness of each system, in its behaviours.
PBFTFairness ==
  /\ \A r \in {r1, r2, r3, r4} :
       WF_pbftVars(system = "pbft" /\ \E m \in msgs : PBFT!Handle(r, m))
  /\ WF_pbftVars(system = "pbft" /\ \E m \in msgs : PBFT!ReceiveReply(c1, m))
  /\ WF_pbftVars(system = "pbft" /\ PBFT!CloseBatchTimeout)
  /\ WF_pbftVars(system = "pbft" /\ PBFT!RunCloseBatch)

RunnerFairness ==
  /\ WF_vars(system = "runner" /\ Publish)
  /\ \A w \in WorkerIds : WF_vars(system = "runner" /\ Step(w))

PoolFairness == \A w \in {w1, w2, w3} : WF_poolVars(system = "pool" /\ Pool!Step(w))

VRFairness ==
  /\ \A r \in {1, 2} :
       /\ WF_vrVars(system = "vr" /\ VR!ReceiveRequest(r))
       /\ WF_vrVars(system = "vr" /\ VR!ReceivePrepare(r))
       /\ WF_vrVars(system = "vr" /\ VR!ReceivePrepareOK(r))
       /\ WF_vrVars(system = "vr" /\ VR!ReceiveCommit(r))
       /\ WF_vrVars(system = "vr" /\ VR!ReceiveRequestStateTransfer(r))
       /\ WF_vrVars(system = "vr" /\ VR!ReceiveStateTransfer(r))
       /\ WF_vrVars(system = "vr" /\ VR!ReceiveStartViewChange(r))
       /\ WF_vrVars(system = "vr" /\ VR!ReceiveDoViewChange(r))
       /\ WF_vrVars(system = "vr" /\ VR!ReceiveStartView(r))
       /\ WF_vrVars(system = "vr" /\ VR!ViewChangeTimeout(r))
       /\ WF_vrVars(system = "vr" /\ VR!CloseBatchTimeout(r))
  /\ \A c \in {c1, c2, c3} : WF_vrVars(system = "vr" /\ VR!HandleReply(c))

MCFairSpec ==
  /\ MCInit /\ [][MCNext]_<<system, pbftVars, vrVars, poolVars, vars>>
  /\ PBFTFairness /\ VRFairness /\ PoolFairness /\ RunnerFairness

PBFTCompletes == PBFT!Completes
VRCompletes == VR!Completes
VRNoFault == VR!NoFault
PoolTasksRun == Pool!EveryTaskRuns
=============================================================================
