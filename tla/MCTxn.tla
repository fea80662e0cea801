------------------------------- MODULE MCTxn --------------------------------
(***************************************************************************)
(* The lock server on its own, and the Eris, Spanner, Granola and TAPIR    *)
(* back ends.  The system of a behaviour is in its scenario; the variables *)
(* of the others stay as they are.                                         *)
(***************************************************************************)
EXTENDS LockServer, TLC

CONSTANTS Keys, Nobody, MAX_RETRIES, c1, c2, c3, keyA, keyB

VARIABLES server, client, msgs, scenario, fc, seq

-----------------------------------------------------------------------------
(* Scenarios.  Transactions X read and write one key; of RW and WR, each   *)
(* reads at one shard what the other one writes, and writes at another.    *)

Op(reads, writes) == [reads |-> reads, writes |-> writes]
X(c) == c :> (0 :> Op({keyA}, {keyA}))
RW(c) == c :> ((0 :> Op({keyA}, {})) @@ (1 :> Op({}, {keyB})))
WR(c) == c :> ((0 :> Op({}, {keyA})) @@ (1 :> Op({keyB}, {})))

\* Three replicas of a shard; after is c :> those that end before c begins, or << >>.
Run(system, plan, after, timers, down, lost, urgent) ==
  [system |-> system, n |-> 3, locking |-> TRUE, plan |-> plan, timers |-> timers,
   down |-> down, lost |-> lost, urgent |-> urgent,
   after |-> [c \in Txns |-> IF c \in DOMAIN after THEN after[c] ELSE {}]]

\* Of each shard, one follower is down; none is told what was committed.
OneDown == {0, 1} \X {2}
NoFollower(types) == types \X ({0, 1} \X {1})

Replication == {"prepare", "prepareOK"}

S(plan, after, timers, lost, urgent) == Run("spanner", plan, after, timers, OneDown, lost, urgent)

SpannerScenarios ==
  { \* Two transactions that read what the other one writes, at two shards.
    S(RW(c1) @@ WR(c2), << >>, {}, NoFollower({"commit"}), Replication),
    \* Two that read and write the same key, with all messages of the replicas, and
    \* with requests and PREPAREs sent again.
    S(X(c1) @@ X(c2), << >>, {<<"request", c1>>, <<"resendPrepare", <<0, 0>>>>}, {}, {}),
    \* A reader, a writer and, after the reader, a transaction that does both.
    S((c1 :> (0 :> Op({keyA}, {}))) @@ (c2 :> (0 :> Op({}, {keyA}))) @@ X(c3),
      (c3 :> {c1}), {}, NoFollower({"commit"}), Replication) }

G(plan, after, timers, lost, urgent) == Run("granola", plan, after, timers, OneDown, lost, urgent)

Quiet == NoFollower({"commit", "finalTimestamp"})

GranolaScenarios ==
  { \* Two transactions that read what the other one writes, with the request for a vote.
    G(RW(c1) @@ WR(c2), << >>, {<<"vote", <<0, 0>>>>}, Quiet, Replication),
    \* Independent transactions, with all messages of the replicas.
    [G(RW(c1) @@ WR(c2) @@ X(c3), (c3 :> {c1}), {}, {}, Replication) EXCEPT !.locking = FALSE],
    \* Transactions of one shard and of two at the same key, with a request sent again.
    G(RW(c1) @@ X(c2), << >>, {<<"request", c1>>}, {}, Replication),
    \* Transactions of one shard, PREPAREs sent again; and with all messages.
    G(X(c1) @@ X(c2) @@ X(c3), (c3 :> {c1}), {<<"resendPrepare", <<0, 0>>>>}, Quiet, {}),
    G(X(c1) @@ X(c2), << >>, {<<"resendPrepare", <<0, 0>>>>}, {}, {}) }

T(plan, timers, down, lost, urgent) == Run("tapir", plan, << >>, timers, down, lost, urgent)

Replies == {"inconsistentReply", "consensusReply", "confirm", "finalizeConsensus", "proposeInconsistent"}
NoConfirms == ({"finalizeConsensus"} \X ({0, 1} \X (0 .. 2))) \cup ({"confirm"} \X Txns)
NoCommits(g) == {"finalizeInconsistent"} \X ({g} \X (0 .. 2))

TapirScenarios ==
  { \* Two transactions that read and write the same key, with slow paths.
    T(X(c1) @@ X(c2), {<<"slowPath", c1>>, <<"slowPath", c2>>, <<"propose", c1>>}, {},
      NoConfirms, Replies),
    \* Two transactions that read what the other one writes, at two shards of one replica
    \* each, by the slow path, and one of a single shard after the first of them.
    [T(RW(c1) @@ WR(c2) @@ X(c3), {"slowPath"} \X Txns, {}, {}, Replies)
       EXCEPT !.n = 1, !.after[c3] = {c1}],
    \* A transaction of two shards of three replicas each, by the fast path, and after it one
    \* that reads what it wrote, while its COMMIT reaches the replicas one by one.
    [T(WR(c1) @@ X(c2), {}, {}, NoConfirms \cup NoCommits(1), Replies) EXCEPT !.after[c2] = {c1}],
    \* A replica is down; all messages.
    T(X(c1), {<<"slowPath", c1>>, <<"finalize", c1>>}, {<<0, 2>>}, {}, {}) }

\* Client c sends one transaction of type t to groups; the shards of refuse vote no.
P(groups, t, refuse) == [groups |-> groups, type |-> t, refuse |-> refuse]
One == P({0}, "INDEPENDENT", {})
Both == P({0, 1}, "INDEPENDENT", {})
General == P({0, 1}, "PREPARE", {})

E(n, shards, plan, timers, lost, sends) ==
  [system |-> "eris", n |-> n, shards |-> shards, plan |-> plan, timers |-> timers, down |-> {},
   lost |-> lost, sends |-> sends, sequencers |-> DOMAIN sends]

\* The timers of gaps at one replica.
Gap(id) == {"startGap", "gap"} \X {id}

ErisScenarios ==
  { \* A gap at the leader, which the coordinator resolves.
    E(3, 1, (c1 :> One) @@ (c2 :> One), Gap(<<0, 0>>), {<<c1, <<0, 2>>>>, <<"gapRequest", <<0, 1>>>>},
      0 :> 2),
    \* A gap at another replica.
    E(3, 1, (c1 :> One) @@ (c2 :> One), Gap(<<0, 1>>), {<<c1, <<0, 1>>>>}, 0 :> 2),
    \* General transactions of two shards, one of which is refused.
    E(1, 2, (c1 :> General) @@ (c2 :> Both) @@ (c3 :> P({0}, "PREPARE", {0})), {}, {}, 0 :> 5),
    \* A transaction that is sent again; and one that no replica has.
    E(1, 1, (c1 :> One) @@ (c2 :> One), Gap(<<0, 0>>) \cup {<<"request", c1>>}, {}, 0 :> 3),
    E(1, 2, (c1 :> One) @@ (c2 :> One), Gap(<<0, 0>>) \cup {<<"fcTxnInfo", <<0, 0>>>>},
      {<<c1, <<0, 0>>>>}, 0 :> 2),
    \* The same when one shard has the transaction and does not hear of the coordinator.
    E(1, 2, (c1 :> Both) @@ (c2 :> Both), Gap(<<0, 0>>) \cup {<<"request", c1>>},
      {<<"txnCheck", <<1, 0>>>>}, 0 :> 3),
    \* The next sequencer, for one shard of three replicas, and for two shards of which
    \* one misses what the other has.
    E(3, 1, (c1 :> One) @@ (c2 :> One), {<<"sync", <<0, 0>>>>}, {<<c1, <<0, 1>>>>},
      (0 :> 1) @@ (1 :> 1)),
    E(3, 1, (c1 :> One) @@ (c2 :> One) @@ (c3 :> One), {},
      {<<c2, <<0, 0>>>>, <<c2, <<0, 1>>>>, <<c3, <<0, 1>>>>}, (0 :> 2) @@ (1 :> 1)),
    E(1, 2, (c1 :> Both) @@ (c2 :> Both) @@ (c3 :> One),
      {"epochChangeReq", "epochChangeAck", "ecStateTransfer", "ecStateTransferAck"}
         \X {<<0, 0>>},
      {<<c2, <<0, 0>>>>}, (0 :> 2) @@ (1 :> 1)),
    \* View changes: the leader fetches what it lacks; it has what others lack; and it
    \* has what another replica promised to drop.
    E(3, 1, (c1 :> One) @@ (c2 :> One),
      {<<"leaderSyncHeard", <<0, 1>>>>, <<"viewChange", <<0, 0>>>>, <<"stateTransfer", <<0, 1>>>>},
      {<<c1, <<0, 1>>>>, <<c2, <<0, 1>>>>, <<c2, <<0, 2>>>>}, 0 :> 2),
    E(3, 1, (c1 :> One) @@ (c2 :> One), {<<"leaderSyncHeard", <<0, 2>>>>},
      {<<c1, <<0, 1>>>>, <<c1, <<0, 0>>>>}, 0 :> 2),
    E(3, 1, (c1 :> One) @@ (c2 :> One),
      {<<"leaderSyncHeard", <<0, 2>>>>, <<"fcQueries", <<0, 2>>>>} \cup Gap(<<0, 1>>),
      {<<c1, <<0, 1>>>>, <<c1, <<0, 0>>>>, <<c2, <<0, 2>>>>, <<"viewChangeRequest", <<0, 2>>>>,
       <<"gapRequest", <<0, 0>>>>, <<"gapRequest", <<0, 2>>>>, <<"startView", <<0, 0>>>>},
      0 :> 2) }

-----------------------------------------------------------------------------
Spanner == INSTANCE Spanner WITH Scenarios <- SpannerScenarios
Granola == INSTANCE Granola WITH Scenarios <- GranolaScenarios
Tapir == INSTANCE Tapir WITH Scenarios <- TapirScenarios
Eris == INSTANCE Eris WITH Clients <- Txns, Scenarios <- ErisScenarios

txnVars == <<server, client, msgs, scenario>>
erisVars == <<fc, seq>>

NoLock == lock = Free /\ retryLock = TRUE /\ dead = FALSE

LocksOnly == [system |-> "locks"]

NoEris == fc = << >> /\ seq = << >>

Init ==
  \/ InitLock /\ scenario = LocksOnly /\ server = << >> /\ client = << >> /\ msgs = {} /\ NoEris
  \/ NoLock /\ NoEris /\ (Spanner!Init \/ Granola!Init \/ Tapir!Init)
  \/ NoLock /\ Eris!Init

Is(system) == scenario.system = system

Next ==
  \/ Is("locks") /\ NextLock /\ UNCHANGED <<txnVars, erisVars>>
  \/ Is("spanner") /\ Spanner!Next /\ UNCHANGED <<lockVars, erisVars>>
  \/ Is("granola") /\ Granola!Next /\ UNCHANGED <<lockVars, erisVars>>
  \/ Is("tapir") /\ Tapir!Next /\ UNCHANGED <<lockVars, erisVars>>
  \/ Is("eris") /\ Eris!Next /\ UNCHANGED lockVars

Spec == Init /\ [][Next]_<<lockVars, txnVars, erisVars>>

-----------------------------------------------------------------------------
\* There is one order of the transactions that each back end commits in which each reads
\* what its client was answered at all its shards, and none is before one that ended
\* before it began; for the independent transactions of Granola there is one at each
\* shard.  Eris shards execute the transactions they share in one order.
Serializable ==
  CASE Is("spanner") -> Spanner!Serializable
    [] Is("granola") -> Granola!Serializable
    [] Is("tapir") -> Tapir!Serializable
    [] Is("eris") -> Eris!Serializable
    [] OTHER -> TRUE

\* The replicas of a shard agree: a Spanner or Granola replica has committed what the
\* leader has under the same number, TAPIR replicas that have carried out the same
\* COMMITs store the same, and what Eris replicas have executed or committed is the same.
ReplicasAgree ==
  CASE Is("spanner") -> Spanner!ReplicasAgree
    [] Is("granola") -> Granola!ReplicasAgree
    [] Is("tapir") -> Tapir!ReplicasConverge
    [] Is("eris") -> Eris!ShardAgrees
    [] OTHER -> TRUE

\* The leaders of two shards of Granola decide a transaction with locks alike, and a
\* number that is dropped at one Eris replica is neither found nor executed at another of its shard.
FateAgrees ==
  /\ Is("granola") => Granola!FateAgrees
  /\ Is("eris") => Eris!FateAgrees

\* What an Eris client has been answered by a shard stays in the log of the shard's
\* leader through view and epoch changes.
CompletedIsKept == Is("eris") => Eris!CompletedIsKept

\* No ASSERT of a Spanner, Granola or Eris server fails, nor the one of GranolaClient
\* that all shards answer the same; of Eris, except where its NoFault says so.
NoFault ==
  /\ Is("spanner") => Spanner!NoFault
  /\ Is("granola") => Granola!NoFault
  /\ Is("eris") => Eris!NoFault
=============================================================================
