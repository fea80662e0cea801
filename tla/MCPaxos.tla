------------------------------ MODULE MCPaxos -------------------------------
(***************************************************************************)
(* NOPaxos, Speculative Paxos and Fast Paxos, one of them in each          *)
(* behaviour, by its scenario.                                             *)
(***************************************************************************)
EXTENDS Naturals

CONSTANTS N, F, Clients, MaxReq, c1, c2

VARIABLES rep, client, seq, msgs, scenario

Replicas == 0 .. N - 1

NO(timers, down, maxSess, maxView, maxMsg) ==
  [system |-> "nopaxos", timers |-> timers, down |-> down, maxSess |-> maxSess,
   maxView |-> maxView, maxMsg |-> maxMsg]

NOPaxosScenarios ==
  {\* a request lost by some replicas: gap requests and gap agreement
   NO({"gapRequest"}, {}, 0, 0, 2),
   \* synchronisation, with and without gaps, one replica down
   NO({"sync", "gapRequest"}, {2}, 0, 0, 2),
   \* a silent leader is replaced, all replicas up
   NO({"leaderSyncHeard"}, {}, 0, 1, 1),
   \* a silent leader is replaced after a gap agreement
   NO({"gapRequest", "leaderSyncHeard", "viewChange"}, {2}, 0, 1, 2),
   \* a new sequencer starts a new session
   NO({}, {}, 1, 0, 1)}

\* No replica but those of to receives a message of this type.
OnlyTo(type, to) == {type} \X (Replicas \ to)

SP(timers, down, lost, maxView, fudge) ==
  [system |-> "spec", timers |-> timers, down |-> down, lost |-> lost, maxView |-> maxView,
   fudge |-> fudge]

SpecScenarios ==
  {\* one view: synchronisation, one request missing at a replica
   SP({<<"sync", 0>>}, {}, {<<c2, 1>>}, 0, 25),
   \* a client that meets diverging logs requests the view change
   SP({}, {}, OnlyTo(c2, {2}) \cup OnlyTo("requestViewChange", {2})
                \cup {<<"startViewChange", 0>>}, 1, 25),
   \* the leader of view 0 commits while the others change the view
   SP({<<"sync", 0>>, <<"viewChange", 1>>}, {},
      {<<c1, 1>>} \cup OnlyTo(c2, {1}) \cup OnlyTo("requestViewChange", {})
                \cup {<<"startViewChange", 0>>, <<"startView", 0>>, <<"sync", 1>>}, 1, 25),
   \* the leader gives up on its SYNC
   SP({<<"failedSync", 0>>}, {}, OnlyTo(c2, {}) \cup {<<c1, 1>>, <<"startViewChange", 2>>},
      1, 25),
   \* one replica down: view changes that fail and are repeated, with messages
   \* that carry the whole log and with messages that do not
   SP({<<"viewChange", 1>>}, {0}, {<<c2, 2>>}, 2, 25),
   SP({<<"viewChange", 1>>}, {0}, {<<c2, 2>>}, 2, 0),
   SP({<<"viewChange", 2>>}, {}, {<<c1, 1>>, <<"startViewChange", 0>>, <<"inView", 1>>}
                \cup OnlyTo(c2, {2}), 1, 0)}

FP(timers, down, lost) == [system |-> "fast", timers |-> timers, down |-> down, lost |-> lost]

FastScenarios ==
  {\* the fast path with and without conflicts, at the leader
   FP({}, {}, {"requestStateTransfer", "commit"} \X Replicas),
   \* one replica down: the slow path and state transfer
   FP({"resendPrepare", "stateTransfer"}, {2}, {}),
   \* followers that miss requests, and one that misses the COMMITs
   FP({}, {}, {<<c2, 2>>, <<c2, 1>>, <<c1, 1>>, <<"commit", 1>>})}

NOPaxos == INSTANCE NOPaxos WITH Scenarios <- NOPaxosScenarios, MaxTransfer <- 1
Spec == INSTANCE SpecPaxos WITH Scenarios <- SpecScenarios, SyncRequests <- 10
Fast == INSTANCE FastPaxos WITH Scenarios <- FastScenarios

MCInit == NOPaxos!Init \/ (seq = 0 /\ (Spec!Init \/ Fast!Init))

Is(system) == scenario.system = system

\* The clients are alike where no scenario tells them apart: c1 begins.
C1Begins == client'[c2].lastReqId > 0 => client'[c1].lastReqId > 0

MCNext ==
  \/ Is("nopaxos") /\ NOPaxos!Next /\ C1Begins
  \/ Is("spec") /\ Spec!Next /\ UNCHANGED seq
  \/ Is("fast") /\ Fast!Next /\ UNCHANGED seq

MCSpec == MCInit /\ [][MCNext]_<<rep, client, seq, msgs, scenario>>

-----------------------------------------------------------------------------
\* Two replicas never commit different values under one operation number: what
\* synchronisation, gap agreement and the merged log of a view change commit, what SYNC
\* and IN-VIEW do, and any mixture of fast path, slow path and state transfer.  Logs of
\* Speculative Paxos diverge before its last view change here: what one view change has
\* committed is not safe in the next if a diverging log is left (MCSpecPaxos).
CommittedAgree ==
  CASE Is("nopaxos") -> NOPaxos!CommittedAgree
    [] Is("spec") -> Spec!CommittedAgree
    [] Is("fast") -> Fast!CommittedAgree

\* An operation that its client has seen complete keeps its number at every later leader
\* of NOPaxos and Speculative Paxos; what a Fast Paxos leader committed last is held by a
\* quorum.
CompletedIsKept ==
  CASE Is("nopaxos") -> NOPaxos!CompletedIsKept
    [] Is("spec") -> Spec!CompletedIsKept
    [] Is("fast") -> Fast!LastCommittedIsHeld

\* A NOPaxos replica executes a request once, and the client table of Speculative Paxos
\* follows its log through every rollback.
ExecutedOnce ==
  /\ Is("nopaxos") => NOPaxos!ExecutedOnce
  /\ Is("spec") => Spec!ClientTableFollowsLog

\* No ASSERT fails and no RPanic is reached: in NOPaxos before a view change starts, in
\* Speculative Paxos while its messages carry the whole log, in Fast Paxos ever.
NoFault ==
  CASE Is("nopaxos") -> NOPaxos!NoFaultBeforeViewChange
    [] Is("spec") -> Spec!NoReplicaFault
    [] Is("fast") -> Fast!NoFault
=============================================================================
