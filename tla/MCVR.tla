-------------------------------- MODULE MCVR --------------------------------
(***************************************************************************)
(* Three settings of VR, one of them in each behaviour: the constants of   *)
(* the configuration, where PREPAREs and COMMITs overtake each other and   *)
(* backups fetch state; a view change; and a restart.                      *)
(***************************************************************************)
EXTENDS VR

VARIABLE setting

ViewChange == INSTANCE VR WITH
  Lost <- {"requestStateTransfer"}, Timers <- {"viewChange"}, MaxView <- 1,
  MaxPending <- 0, MaxTransfer <- 0

\* COMMITs are lost: a leader executes on its quorum, a replica that recovers on what the
\* leader answers.
Recovery == INSTANCE VR WITH
  Lost <- {"requestStateTransfer", "commit"}, Timers <- {}, MaxRestart <- 1,
  MaxPending <- 0, MaxTransfer <- 0

MCInit == setting \in {"transfer", "viewChange", "recovery"} /\ Init

MCNext ==
  /\ \/ setting = "transfer" /\ Next
     \/ setting = "viewChange" /\ ViewChange!Next
     \/ setting = "recovery" /\ Recovery!Next
  /\ UNCHANGED setting

MCSpec == MCInit /\ [][MCNext]_<<vars, setting>>

ClientSymmetry == Permutations(Clients)
=============================================================================
