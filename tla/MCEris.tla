------------------------------- MODULE MCEris -------------------------------
(***************************************************************************)
(* Two Eris shards of one replica, of which shard 0 has lost a transaction *)
(* of both shards that reaches shard 1 late.                               *)
(***************************************************************************)
EXTENDS Eris

CONSTANTS c1, c2

Sends(groups) == [groups |-> groups, type |-> "INDEPENDENT", refuse |-> {}]

LateAtOneShard ==
  { [n |-> 1, shards |-> 2, plan |-> (c1 :> Sends({0, 1})) @@ (c2 :> Sends({0})),
     timers |-> {"startGap", "gap"} \X {<<0, 0>>}, down |-> {}, lost |-> {<<c1, <<0, 0>>>>},
     sends |-> 0 :> 2, sequencers |-> {0}] }
=============================================================================
