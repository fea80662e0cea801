------------------------------- MODULE MCPBFT -------------------------------
(***************************************************************************)
(* Two settings of PBFT, one of them in each behaviour: the constants of   *)
(* the configuration, where each request is a batch and three replicas are *)
(* up; and batches of two requests of three clients, closed by the timer   *)
(* too, at the primary and one backup.                                     *)
(***************************************************************************)
EXTENDS PBFT, TLC

CONSTANTS r2, r3, c1, c2, c3

VARIABLE batches

Batches == INSTANCE PBFT WITH
  Clients <- Clients \cup {c3}, BatchSize <- 2, Crashed <- {r2, r3},
  MaxLog <- 3

MCInit == batches \in BOOLEAN /\ (IF batches THEN Batches!Init ELSE Init)

MCNext ==
  \/ ~batches /\ Next /\ UNCHANGED batches
  \/ batches /\ Batches!Next /\ UNCHANGED batches

MCSpec == MCInit /\ [][MCNext]_<<vars, batches>>

\* In both settings r2 and r3 play the same part, and so do c1 and c2.
Symmetry == Permutations({r2, r3}) \cup Permutations({c1, c2})
=============================================================================
