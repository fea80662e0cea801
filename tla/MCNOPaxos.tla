----------------------------- MODULE MCNOPaxos -----------------------------
(***************************************************************************)
(* The scenario of the TLC configuration of NOPaxos on its own.            *)
(***************************************************************************)
EXTENDS NOPaxos

\* A gap agreement of the old leader races the view change.
MCGapRace ==
  {[timers |-> {"gapRequest", "leaderSyncHeard"}, down |-> {}, maxSess |-> 0, maxView |-> 1,
    maxMsg |-> 2]}
=============================================================================
