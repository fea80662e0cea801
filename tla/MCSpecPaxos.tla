---------------------------- MODULE MCSpecPaxos -----------------------------
(***************************************************************************)
(* The scenario of the TLC configuration of SpecPaxos on its own.          *)
(***************************************************************************)
EXTENDS SpecPaxos

CONSTANTS c1, c2

\* No replica but those of to receives a message of this type.
OnlyTo(type, to) == {type} \X (Replicas \ to)

\* Replica 1 commits the request of c1 as the leader of view 1, by the IN-VIEW of replica
\* 2; that begins view 2 without a DoViewChange of its own, while replica 0 was in view 0
\* all the time and has seen the request of c2 only.
LeaderWithoutItsLog ==
  {[timers |-> {<<"viewChange", 2>>}, down |-> {}, maxView |-> 2, fudge |-> 25,
    lost |-> OnlyTo(c1, {1}) \cup OnlyTo(c2, {0}) \cup OnlyTo("requestViewChange", {})
               \cup OnlyTo("inView", {1, 2}) \cup OnlyTo("sync", {})]}
=============================================================================
