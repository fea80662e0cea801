# dsnet in TLA+

dsnet is a C++ collection of replication protocols (`replication/`), transaction
protocols (`transaction/`, `nistore/`) and what they share: a log, quorum sets,
task runners (`common/`), transports and configuration (`lib/`). This directory
holds TLA+ models of its core, TLC configurations that check them on small
instances, and TLAPS proofs of the results that hold for every instance.

1. [Inventory](#inventory) — 2. [Modules](#modules) — 3. [PBFT](#pbft) —
4. [VR](#viewstamped-replication) — 5. [HotStuff](#hotstuff) — 6. [MinBFT](#minbft) —
7. [TomBFT](#tombft) — 8. [Network-ordered and speculative Paxos](#network-ordered-and-speculative-paxos) —
9. [Transactions](#transactions) — 10. [Runners](#runners) — 11. [Runs](#runs) —
12. [Fairness](#fairness) — 13. [Proofs](#proofs) — 14. [Findings](#findings) —
15. [Not modelled](#not-modelled) — 16. [Plan](#plan)

## Inventory

| Part | State | Operations | What is hard |
|---|---|---|---|
| PBFT `replication/pbft` | log, digests, prepare and commit quorums, request buffer, client table, open batch | request, PREPREPARE, PREPARE, COMMIT, batch timer; client invoke, resend, reply | reordered PREPREPAREs; quorums complete before the batch is there; early returns that skip a broadcast; the batch timer races the handlers |
| HotStuff `replication/hotstuff` | log, generic and locked QC, block buffer, votes, client table, open block | request, GENERIC, VOTE, block timer, vote timer | blocks overtake each other; QCs skip blocks; resent votes; aborts where state transfer is missing |
| MinBFT `replication/minbft` | log, batches by counter value, commit quorums, client table, `next_ui` and `ui_queue` per sender | request, PREPARE, COMMIT, batch timer | a sender's messages are handled in the order of its counter: what comes early waits, old duplicates wait too; the runner keeps no order |
| TomBFT `replication/tombft` | buffer of numbered packets, offset and high of the session, votes for a view change and an epoch | packet, VIEWCHANGE, EPOCHSTART; with signatures or HMACs | gaps in the numbers; numbers begin again with each session of the switch |
| VR `replication/vr` | status, view, log, last op/committed, client table, five quorum sets, pending prepares, batch | 11 messages, 7 timers, recovery | view change, state transfer into a newer view, recovery with an empty disk |
| Spec. Paxos, NOPaxos, Fast Paxos | log with speculative entries, gaps, views | merge, gap agreement, synchronization | rollback, merged logs, sequencer failover |
| Eris, Granola, Spanner, TAPIR | per-shard logs, locks, timestamps, promises | prepare, vote, commit, drop agreement | dropped transactions, votes of other shards, clients that time out |
| Lock server and stores `transaction/common/backend`, `nistore` | locks with wait queues, versions | acquire, release, validate | waiters of a released lock, upgrades, write skew |
| Runner `common/runner.{h,cc}` | slots, mutex, counters, per-task epilogue | RunPrologue, the worker loop, RunEpilogue, destructor | order of handlers across threads, lost wakeups, reused slots |
| Log, quorum sets, signatures `common/` | vector of entries, map of messages | append, truncate, install | preconditions asserted at run time |
| Transports, configuration, sequencer, time server, benchmarks | sockets, counters | I/O | - |

Interaction. A transport calls `ReceiveMessage` of the replica. The BFT
replicas submit each message to their *runner*: the prologue (parse, verify)
runs on any thread, the solo (the handler) runs alone, the epilogue (sign,
send) runs on any thread. The other protocols run their handlers in the
transport's thread. Handlers change the log and the tables, and send messages.
Timers call back in the transport's thread, and in the BFT replicas only
*submit* a task, so that other handlers run in between. A replica executes
through `AppReplica::ReplicaUpcall` (or `LeaderUpcall`, which may answer without
replication in VR).

What makes the parts correct: replicas never execute different requests under
one number; a promise sent (PREPAREOK, PREPARE, COMMIT, a vote) is backed by the
sender's state; what a client is told was replicated on a quorum and survives
what follows; no request runs twice; handlers of one replica exclude each other
and keep their order; whatever is submitted, locked or requested is eventually
served. The hazards, each at its line, and the properties that would catch them
are listed in `PROJECT.json`.

## Modules

| Module | Part | Uses |
|---|---|---|
| `PBFT` | PBFT replica and client | |
| `VR` | VR replica and client | `Log` |
| `Log` | `common/log.cc`, `log-impl.h` | |
| `HotStuff` | HotStuff replica and client | |
| `MinBFT` | MinBFT replica and client | |
| `TomBFT` | both TomBFT replicas, client, sequencer | |
| `ReplicatedLog` | what a replicated state machine promises (abstract) | `PBFT`, `HotStuff` and `MinBFT` implement it |
| `SoloOrder` | what an ordered runner promises (abstract) | `OrderedPool` implements it |
| `OrderedPool` | `CTPLOrderedRunner` | `SoloOrder` |
| `SpinRunners` | `SpinOrderedRunner`, `SpinRunner` | |
| `Handlers` | how a handler applies to a replica's record and what it sends | |
| `NOPaxos`, `SpecPaxos`, `FastPaxos` | replica and client of each | `Handlers`, `Log` |
| `Locks`, `LockServer` | `lockserver.cc` for many keys, and one lock with its requesters | `Locks` |
| `KVTxnServer`, `Serial` | the key-value server transactions call; serial orders | `Locks` |
| `Spanner`, `Granola`, `Tapir` | servers and clients of each | `Handlers`, `KVTxnServer`, `Serial` |
| `Eris` | replicas, failure coordinator, client, sequencer | `Handlers` |
| `ProofFacts` | lemmas on sequences, sets and quorums for the proofs | |
| `PBFTProofs`, `VRProofs`, `HotStuffProofs`, `MinBFTProofs`, `TomBFTProofs`, `SpinRunnersProofs`, `PoolAndLockProofs` | proofs | the module each is named for; the last has `OrderedPool` and `LockServer` |
| `MCPBFT`, `MCVR`, `MCHotStuff`, `MCLive`, `MCPool`, `MCPaxos`, `MCTxn`, `MCNOPaxos`, `MCSpecPaxos`, `MCEris` | instances, scenarios and symmetry for TLC | |

The protocols rely on the runners: a protocol's action is one whole handler, with
what it sends, which is sound because solos exclude each other (`RunsInOrder`,
`SpinOneSolo`). PBFT's runner keeps the order of messages, those of HotStuff and MinBFT do
not; all are covered by a network that reorders.

Common conventions. A request is its client and its number. The network is a set
`msgs`: a message stays in it once sent and can be handled late, any number of times, or
never, so retransmissions of an identical message add no behaviour and lost
messages need no action. Where the state space forbids that, messages on which no receiver would
act are dropped (`Effective`, in `SpecPaxos` and the transaction modules), a receiver takes a message out
of `msgs` (`Taken`, in the transaction modules: a message is duplicated there by the code's resends only),
and messages are lost by rule (`lost` in a scenario) or handled before others (`urgent`); the
rule is stated with the definition or the scenario. A process that reaches `abort`, a failed `ASSERT` or a null dereference stops and
loses what its handler was about to send. Bounds are constants named `Max...` and appear
only in guards. Where a handler is long, it is an operator from the replica's record and a
message to the record after it, with the messages it sends in the field `out`; `Handlers`
composes such operators the way the code calls one from another. Operators whose names
extend that of a definition in the source (`CloseBatchOff`, `TurnLate`) are wrong
variants of it, used to show that the properties can fail.

## PBFT

`replication/pbft/replica.cc` is the normal case of PBFT with batching; it has no
view change, so `view_number` is 0 and the primary is a constant.

State: `log`, `prepared`/`committed` (the entry states), `commit_number`,
`client_table`, `prepare_quorum`/`commit_quorum` (sets of op, digest, sender),
`request_buffer`, the primary's `request_batch`, `close_queued` (`CloseBatch` tasks
the timer has submitted), and the client's `pending`, `last_req`, `received`. A
digest is the sequence of requests hashed, because the hash chain of `log.cc` covers
exactly client and request number of each entry.

Actions: `Invoke`, `ResendRequest`, `ReceiveReply` (client.cc); `HandleRequest`,
`HandlePreprepare`, `HandlePrepare`, `HandleCommit`; `CloseBatchTimeout` (the timer,
which submits) and `RunCloseBatch` (the task). Only one epilogue runs per handler, the
last registered one, as in the runner; that is why some broadcasts are swallowed.

Properties: `Agreement`; `PrimaryOrder` (every PREPREPARE, buffer and log is a piece
of the primary's log); `BufferWaitsForGap`; `CommitHasCertificate` and
`ExecutedIsReplicated` (the quorums behind a COMMIT and an execution);
`CompletedIsExecuted`; `Completes`.

`Replicated == INSTANCE ReplicatedLog` maps the primary's log to the order and the executed
prefixes to executions: `ReplicatesLog` (see [Proofs](#proofs)).

`Completes` names its exceptions because the code has them: a process aborts when a
quorum completes for an op number its log lacks, when a client's table entry has no
address, or when the never-stopped resend timer fires without a request; and a
replica can skip its own PREPARE (`HandlePreprepare` returns early when another
backup's PREPARE came first) or its own COMMIT (COMMITs came before PREPAREs). With
none of these a request completes.

## Viewstamped replication

`replication/vr/replica.cc` in full except unlogged requests: normal operation with
batching, null commits, state transfer, view change, recovery.

State: `rep[r]` is the record of one `VRReplica` object; `client[c]` the client;
`msgs` the network. A handler is an operator from record and message to record, with
the messages in the field `out`; `Receive...` actions apply it. Which timers are
active follows from the state; the constant `Timers` says which ones may expire in a
run. `fault` records where a process died. `MinCommitted` and `Unspecified` model
`min_element` of an empty map (replica.cc:1044), whose result is arbitrary.

Properties: `Agreement`, `AtMostOnce`, `ReplyIsReplicated`,
`LeaderKeepsReplies`, `PrepareOKIsKept`, `NoFault`, the action property `OnlyForward`,
and `Completes` with the first leader down.

Each property is checked in the runs whose part of the protocol keeps it. Where it is
missing from a run the code breaks it there; see [Findings](#findings).

## HotStuff

`replication/hotstuff/replica.cc` is chained HotStuff under a fixed primary. A block
begins with a NOOP whose op number stands for the block's hash. State: `log`,
`generic_qc` and `locked_qc` (their op numbers), `block_buffer`, `client_table`,
`executed` (op numbers, the entries in LOG_STATE_COMMITTED), the primary's `high_qc`
and `pending_op` (where its open block begins). Actions: `Invoke`, `ReceiveReply`,
`HandleRequest`, `HandleVote`, `HandleGeneric`, `CloseBatchTimeout`, `ResendVote`.
A second copy of a GENERIC, or an execution beyond the log, aborts the backup, as in
the code. `high_qc` forgets votes up to the current QC, which the code keeps but never
reads.

Properties: `Agreement` (logs and buffered blocks have the same entry at every op number
they share), `ExecutesInOrder` (from its first QC on, a replica executes without gap or
repetition, whatever blocks its QCs skip), `QCIsHeld` (resent votes never certify a
block that fewer than 2f backups hold), `AtMostOnce`, `CompletedIsExecuted`, and
`ReplicatesLog`, the same promise as PBFT's with NOOPs as fillers.

## MinBFT

`replication/minbft/replica.cc` is the normal case of MinBFT with batching; `view_number` is 0.
Every PREPARE and COMMIT takes the next value of its sender's trusted counter (its UI), and
a solo handles a sender's messages in that order (replica.cc:139-160). State per replica: `log`, `batches`
(`low_op`, `high_op` by UI), `commit_quorum`, `committed`, `commit_number`, `client_table`,
`next_ui`, `ui_queue`, `epilogue_list`; the primary's `request_batch`. `sent[r]` is what r
broadcast, by UI: it is the network. A solo that drains the queue takes one step per message,
with `draining` set, so that nothing else of that replica runs in between.

Properties: `Agreement`, `AtMostOnce`, `ExecutedIsReplicated` (f+1 logs hold it),
`CompletedIsExecuted`, `NoneStops` (with f = 1, `AddCommit` never meets a batch it does not
know; from f = 2 on it can, and aborts), `WaitsBehindDuplicate` (outside of a solo the next
message of a sender waits only behind a duplicate: the drain looks at the lowest UI in the queue,
and stops at one that was handled before).
`ReplicatesLog` states that MinBFT implements `ReplicatedLog`, with the primary's log as the order.

## TomBFT

A switch numbers the requests of a session and multicasts them. `TOMBFTReplica` relies on the
signature of some packets, which vouches for those before; `TOMBFTHMACReplica` on an HMAC of each, and
it changes epochs when a new session begins. Actions: the client's, the sequencer's (`Sequence`,
`NewSession`), `ReceiveRequest`, `HandleViewChange`, `HandleViewStart`, `HandleEpochStart`. `offset` has no initializer:
both a zero and a large value are initial. The two comments "assume no failed replica, all ordered"
(replica.cc:143, 209) are the model's assumption about when a session ends.

Properties: `LogsAreOfTheOrder` (logs are one contiguous piece of the order each),
`ExecutedOnce`, `CompletedIsExecuted`.

## Network-ordered and speculative Paxos

`NOPaxos` has gap requests and gap agreement, synchronisation, view changes, and new sessions of the
sequencer; `SpecPaxos` speculative execution, synchronisation, the merge of diverging logs
(`MergeLogs`) in a view change, and rollback; `FastPaxos` the fast path at the leader, the slow path, and
state transfer. A behaviour begins with the choice of a scenario: which timers may expire and at whom,
which replicas are down, which messages are lost, how many views and sessions there may be.

Properties: `CommittedAgree`; `CompletedIsKept` (what a client saw complete keeps its number at every
later leader; for Fast Paxos that the last operation committed is held by a quorum, since
committing operation n on the fast path also commits earlier ones the same quorum need not
confirm); `ExecutedOnce` (NOPaxos; for Speculative Paxos that the client table follows the log
through every rollback); `NoFault`, as far as the code keeps it (NOPaxos before a view change,
Speculative Paxos while messages carry the whole log).

A new leader of Speculative Paxos may meet a diverging or truncated log before it has made its own
DoViewChange. `NeedFillDVCGap` (spec/replica.cc:1308-1327) then keeps a default-constructed message under
the leader's index: an empty log of view 0, which counts to the quorum (`EmptyDoViewChange`). The scenarios of `paxos`
reach the merge with it. In a first view change it is harmless: with three replicas a fast quorum is all of them, so
whatever completed or was committed by SYNC is in the other log that is merged. In a second one it loses what the
view before has committed, which `spec_empty_log` shows.

## Transactions

`LockServer` is one lock with every operation of `lockserver.cc`, in retry mode and without;
`Locks` the same rules for the keys of a server; `KVTxnServer` prepare, commit and abort
of the key-value server. `Spanner`, `Granola`, `Tapir` and `Eris` contain every handler and timer
of their servers and clients. A key's value is the transaction that wrote it last, so that what a client
reads determines whom it saw; every key is found, since a key that nobody has written has a value too.

`Serializable` is about all shards at once, except for the independent transactions of Granola (the
server without locks), where each shard has an order of its own: a leader takes the timestamp that it has
proposed itself for the final one ("XXX Determine the final timestamp here", granola/server.cc:543), and two
shards can order two transactions differently. `FateAgrees` is about Granola with locks: without them there is no
decision, and every transaction is carried out. Cross-shard TAPIR is in two scenarios in which all transactions
can commit: write skew at two shards of one replica each, by the slow path (the fast path's quorum is two there),
with a third transaction that begins after one of the two; and a transaction of two shards of three replicas by
the fast path, followed by one that reads what it wrote.

Properties: `Exclusive` (a write lock has one holder), `QueueIsOfWaiters`, `HeadIsNotOvertaken` (nobody
gets the lock before a writer at the queue's head; with retries); `Serializable` (one order explains all
answers and respects real time; Eris: shards execute shared transactions in one order), `ReplicasAgree`,
`FateAgrees` (leaders of two shards of Granola with locks decide alike; an Eris number is not both dropped
and executed in a shard), `CompletedIsKept` (Eris), `NoFault`.

## Runners

`SoloOrder` is the promise: tasks are submitted, dropped (no solo) or started, one at
a time, in submission order.

`OrderedPool` is `CTPLOrderedRunner::RunPrologue`, one step per critical section: pop
from the pool's queue (external, `lib/ctpl.h`), prologue, lock and test, solo, `Done`
(count the task, copy the epilogue, unlock), notify, epilogue. Spurious wakeups are
included. `RunsInOrder` states that it implements `SoloOrder`, with `running` mapped
to the task of the thread inside its solo; `EpilogueIsOwn` that the shared `epilogue`
field never mixes two tasks; `EveryTaskRuns` that no wakeup is
lost.

`SpinRunners` is the slot ring of `SpinOrderedRunner` and of its subclass
`SpinRunner`; the variable `ordered` is the dynamic type. Each access to shared state
is a step. `shutdown` is not initialized by the C++14 build, so both values are
initial. Properties: `SpinOneSolo`, `SpinNoTaskLost` (no slot is overwritten, no task taken
twice), `SpinInOrderIfSolos`, `EveryTaskRuns` (ordered runner only: a
compare-and-swap gives no turn to anyone), `JoinReturns`.

## Runs

TLC chooses the system and its setting in the initial state, so that one run asks its question of
several of them. A property of a run then stands for those of its systems:

| Run | Property | Stands for |
|---|---|---|
| `live` | `PBFTCompletes`; `VRCompletes`, `VRNoFault` | `PBFT!Completes`; `VR!Completes`, `VR!NoFault` |
| `live` | `PoolTasksRun`; `EveryTaskRuns`, `JoinReturns` | `OrderedPool!EveryTaskRuns`; those of `SpinRunners` |
| `live` | `SpinOneSolo`, `SpinInOrderIfSolos`, `SpinNoTaskLost` | the properties of these names in `SpinRunners` |
| `pool` | `OrderIsServed` | `MinBFT`: `Agreement`, `AtMostOnce`, `ExecutedIsReplicated`, `CompletedIsExecuted`, `NoneStops`, `WaitsBehindDuplicate`; `TomBFT`: `LogsAreOfTheOrder`, `ExecutedOnce`, `CompletedIsExecuted` |
| `paxos` | `CompletedIsKept` | that of `NOPaxos` and `SpecPaxos`; `FastPaxos!LastCommittedIsHeld` |
| `paxos` | `ExecutedOnce` | that of `NOPaxos`; `SpecPaxos!ClientTableFollowsLog` |
| `paxos` | `NoFault` | `NOPaxos!NoFaultBeforeViewChange`, `SpecPaxos!NoReplicaFault`, `FastPaxos!NoFault` |
| `txn` | `Serializable` | those of `Spanner`, `Granola`, `Tapir` and `Eris` |
| `txn` | `ReplicasAgree` | those of `Spanner` and `Granola`; `Tapir!ReplicasConverge`, `Eris!ShardAgrees` |

| Run | Instance | Shows |
|---|---|---|
| `pbft` | 3 of 4 replicas up, 2 clients with a request each, batches of one; and the primary and one backup, 3 clients, batches of two, closed by the timer too | agreement, certificates, buffers and replies with PREPREPAREs, PREPAREs and COMMITs in any order; empty, partial and full batches |
| `vr` | 3 replicas, 2 requests: one view with state transfer and null commits; one view change at any point; one restart at any point | acknowledgements and replies are kept, nothing executed is removed or repeated |
| `hotstuff` | 4 replicas, one down, one request, log of 6 entries | 3 blocks after the request: the shortest history in which primary and backups execute; blocks and votes reordered, duplicated, lost |
| `pool` | the ordered pool with 3 threads and 4 tasks; MinBFT with 3 replicas, 2 requests of one client with one pair of replicas reordered, or batches of two of two clients; TomBFT with 3 of 4 replicas, 2 requests, 3 packets, 2 sessions | who makes the order: refinement of `SoloOrder`; `OrderIsServed` |
| `paxos` | NOPaxos in 5 scenarios, Speculative Paxos in 7, Fast Paxos in 3 | committed logs agree, what completed is kept; logs of Speculative Paxos diverge before its last view change |
| `txn` | the lock server; Spanner in 3 scenarios, Granola in 5, TAPIR in 4, Eris in 12; up to 3 transactions, 2 shards, 3 replicas | serializability (Granola without locks: at each shard), agreement of replicas and shards |
| `live` | PBFT with two requests of a client; VR with the leader of view 0 down, batches of two, one client answered by the leader alone; the ordered pool with 3 tasks; spinning runners with 2 workers, 4 slots, 5 tasks, shutdown at any point | completion, no lost wakeup, the ring wraps |
| `vr_transfer_fork` | one view change with state transfer | **violation** of `Agreement` |
| `spin_null_solo` | the spinning runners of `live` | **violation** of `InOrder` |
| `nopaxos_gap_race` | a view change while a gap is uncommitted | **violation** of `CommittedAgree` |
| `spec_empty_log` | two view changes; the leader of the second has no DoViewChange of its own | **violation** of `CommittedAgree` |
| `eris_promise_of_one_shard` | two shards of one replica, a transaction late at one | **violation** of `Atomic` |

Why the bounds suffice. With f = 1 a quorum is the smallest that can be miscounted; one replica down
makes every quorum the smallest possible. Two requests are the least that can be reordered; a third one
only where a full batch is to be followed by a partial one, or a transaction by one that begins after it
ended. In `hotstuff` the request is executed by the primary at its fourth QC and by a backup when a block
carries that QC, so the log needs six entries. One view change and one restart are what the state space
allows in VR; the defect at vr/replica.cc:936 needs four views and is out of reach. In MinBFT
`Reordered` says whose messages overtake each other at whom (once a third message waits nothing new can
happen with two requests, hence `MaxQueued` 2) and `Hear` whom requests reach: a backup that knows a
request by its PREPARE only is the interesting one. The pool and ring instances have more tasks than
threads and slots, so that both are reused. The scenarios of `paxos` and `txn` each let one cause of
trouble happen at any point; their comments name it. Symmetry is over clients or over live backups, and
only in runs without liveness properties. `CHECK_DEADLOCK FALSE` is set because every instance ends
when its bounded requests are answered.

## Fairness

All fairness is stated in `MCLive` and conditioned on the system of the behaviour.

* `PBFTFairness`: weak fairness of each replica's and client's message handling, of
  the batch timer and of the task it submits. Replicas never retransmit, so delivery
  itself is assumed: this is the transport without loss, and `Completes` says what the
  code owes then.
* `VRFairness`: weak fairness of each handler of a replica that is up, and of its
  view-change and batch timers. Justified by the resends of the code (requests, PREPAREs, null
  commits, state transfer requests, view-change messages). Restarts are never owed.
* `PoolFairness`, `RunnerFairness`: each thread's next step is weakly
  fair (the operating system schedules it; prologues and solos return). Winning a
  particular compare-and-swap is not assumed, so `EveryTaskRuns` speaks of the ordered
  spinning runner only.

## Proofs

TLAPS proves what follows for every number of replicas, clients, threads, slots, tasks and requests,
every batch size and every bound. The assumptions are the sizes of the groups: PBFT and HotStuff have
3f+1 replicas with the primary among them, and batches of at least one; MinBFT has 2f+1 (`Group`); a
spinning runner has a worker and a slot each (`Sizes`). `Group` and `Sizes` are hypotheses of the
theorems, not ASSUMEs, because the runs have these modules as instances.

**PBFT.**
* The first part of `PBFTProofs`: `TypeCorrect`, `OrderCorrect`, `AgreementHolds`. `Agreement` is not
  inductive: two logs may agree while a PREPREPARE in flight contradicts both.
  The strengthening is `PrimaryOrder`: the unsent batch is the end of the primary's
  log, each PREPREPARE is a piece of it at its op number, each log is a prefix of it,
  each buffered request is its entry. Agreement thus needs no quorum: it comes from the
  correct, fixed primary.
* Its second part adds what the quorums give. `QuorumInv` says that every vote is of a batch that
  was sent, what a replica counts another one sent, and who sends COMMIT has the batch
  (`VotesInv`); batches never overlap in part, and backups append, buffer and drain
  them whole (`BatchesInv`); the COMMITTED entries have COMMITs of 2f others, and what is executed is
  COMMITTED (`CommittedInv`); replies, sent or kept, are of executed requests (`RepliesInv`). From it
  `CommitHasCertificateHolds`, `BufferWaitsForGapHolds`, `ExecutedIsReplicatedHolds`,
  `CompletedIsExecutedHolds`.
* `ReplicatesLogHolds`: PBFT implements `ReplicatedLog`. The order is the primary's log, a
  replica has executed the prefix up to its `commit_number`. Each handler is an `Order` (the
  primary logs a request), an `Execute` (quorum complete), an `Answer` (f+1 replies), an `Invoke`, or a
  stutter; `Answer` needs `CompletedIsExecuted`, and `Execute` that executions are pieces of the one
  log.

**VR.** `VRProofs`, over the size of the group alone (2F+1), for every batch size and every bound.
* In all views: `TypeCorrect`, and `OnlyForwardHolds` (a replica that does not restart never goes back to
  an earlier view and never takes back an execution). A handler of VR is a chain of operations on one
  record; `Keeps` is what each of them leaves alone, `Forward` what a handler may change, and a loop
  of the code is unfolded round by round: `Loop` is a function of the number of rounds, so the lemmas named
  `Rounds` turn it into a sequence of records, and `RoundInduction` carries a fact along that sequence. The
  only strengthening is that a recovering replica is in view 0 (`RecoversFromZero`), since
  `HandleRecoveryResponse` enters the highest view it is told.
* As long as no replica has left view 0 or restarted (`FirstView`): `AgreementInFirstView`,
  `AtMostOnceInFirstView`, `RepliesReplicatedInFirstView`, `LeaderKeepsRepliesInFirstView`,
  `PrepareOKsKeptInFirstView`, `NoFaultInFirstView`. The condition is not one of convenience: `Agreement` is false of the
  code once a view change meets a state transfer (`vr_transfer_fork`), and wrong after a restart and a
  view change. `FirstView` covers what the normal case is made of: batches, lost, repeated and reordered
  PREPAREs, PREPAREOKs and COMMITs, the PREPAREs kept during a state transfer, and state transfers
  between any two replicas. The inductive invariant `FirstViewInv`: the leader's log is the one order,
  every backup's log is a prefix of it, and so are the batches of PREPAREs, sent or pending, and the dumps of
  state transfers; a PREPAREOK names an operation its sender's log has, now and for ever; the leader's
  client table knows the last number it logged for each client, so that no request is logged twice, and its
  stored replies point to what it has executed; behind the leader's commit number there are F backups that hold
  it (`Holders`). `FirstViewBefore` is why a condition on the present state is enough: views and
  restarts only count up.
* `NoFaultInFirstView`: no ASSERT, RPanic or null dereference is reached. `FirstViewInv` does not give it;
  `FaultInv` adds what the asserting code relies on. A client's numbers rise along the leader's log (`Rising`),
  and a backup's client table is not ahead of its log (`Known`), although it is filled by PREPAREs,
  acknowledgements and executions in any order: `UpdateClientTable` never sees an older number. The last
  closed batch ends within the log, and every caller of `CloseBatch` has something to send. A REQUESTSTATETRANSFER
  names no more than its sender has executed, so that the answer, whenever it arrives, starts at an operation
  the receiver does not miss the one before of (`Wanted`: this is why executions must never be taken
  back), and it reaches the operation it says is committed (`Covers`). Inside a handler the table runs ahead of
  the rounds still to come, so the lemmas carry the operation reached (`Fine`) and return to the end
  of the log when the handler does (`Sound`; `Ready` is the leader's part).

**HotStuff.** `HotStuffProofs!IInv`: logs and buffered blocks are pieces of the primary's log and
begin where a block begins (`BlocksFromLog`); QCs are op numbers of NOOPs, the locked one before the generic
one (`QCsInOrder`); every vote that may still count has a sender that holds its block, although votes
are sent before the gap test (`VotesAreHeld`); what is executed has no gap from the first QC on
(`ExecutedInv`); the client table knows the last logged number, hence no request is
logged twice (`TableInv`). From it `AgreementHolds`, `ExecutesInOrderHolds`, `QCIsHeldHolds`,
`AtMostOnceHolds`, `CompletedIsExecutedHolds`, and `ReplicatesLogHolds` with NOOPs as fillers and
executions that may begin late.

**MinBFT.** `MinBFTProofs!IInv`: the primary's counter values and its batches alternate with the
log (`PrimaryInv`); `next_ui` and `ui_queue` stay within what the sender sent (`UIInv`); a backup has
exactly the batches of the PREPAREs before `next_ui`, its log is that prefix (`BackupInv`); votes are of
batches their sender has, and the COMMITs that a replica counted are those of messages before its
`next_ui` (`VoteInv`); executed entries lie in batches with a quorum (`ExecInv`); the client table follows
the log and replies follow executions (`TableInv`, `RepliesInv`); during a drain what was handled is
gone from the queue (`DrainInv`). From it `AgreementHolds`, `AtMostOnceHolds`, `ExecutedIsReplicatedHolds`,
`CompletedIsExecutedHolds`, `NoneStopsHolds`, `WaitsBehindDuplicateHolds`. The run `pool` states them
as conjuncts of `OrderIsServed`.
`ReplicatesLogHolds` is the refinement of `ReplicatedLog` for f > 0: a replica executes pieces of
its log that are pieces of the primary's, and closing a batch executes nothing by itself, since no COMMIT
for the new UI was counted before (`CloseBatchExecutesNone`). With f = 0 the primary is its own quorum and
orders and executes in one step, which is two steps of `ReplicatedLog`; such a group tolerates nothing.

**TomBFT.** `TomBFTProofs!IInv`, for both kinds of replica: a replica's table says what it has executed and its
replies are of that (`Sound`), in all sessions; up to the second session, the log is the piece of the order
that ends at `offset` plus its length, before the epoch change at the end of the last session, and what is
buffered are packets of the session (`Placed`); a replica in an epoch change comes from the first session
and all votes are for the second (`SoundVote`). Each handler is shown to be a `Step` with all that it calls, innermost
first: a turn of `TryExecute`, the loop by induction on its turns, `InsertEpochStart`, `SendEpochStart`,
`InsertViewChange`, `StartEpochChange`, the two `HandleRequest`s. `offset` may begin anywhere: the first packet
sets it before it is used to execute. From it `ExecutedOnceHolds` and `CompletedIsExecutedHolds` in all
sessions and `LogsAreOfTheOrderHolds` up to the second one. The run `pool` states them as conjuncts of
`OrderIsServed`. From the third session on the order can be lost, see [Findings](#findings).

**Runners.**
* `PoolAndLockProofs`, first part: `Inductive`, `OwnEpilogue`, `RunsInOrderHolds`. `Inv` says which
  tasks the queue and the threads hold, who owns the mutex and that it is its turn, that every task up to
  `last_task` was started or dropped, and what the shared epilogue may hold. From it each step of the pool
  is a step of `SoloOrder` or a stutter.
* `SpinRunnersProofs`: every task is in the slot its number names (task mod slots, with the arithmetic of
  the ring proved as lemmas, for a divisor that is a constant), from publication until the worker takes
  it; `next_solo` is the slot of the worker inside its solo; the tasks started are counted by laps. From it
  `SpinOneSoloHolds`, `SpinNoTaskLostHolds`, `SpinInOrderIfSolosHolds`.

**Locks.** `PoolAndLockProofs`, second part: `Exclusive`, `QueueIsOfWaiters` and the action property
`HeadIsNotOvertaken`, with `retryLock` and without. The lock is shown good field by field after each
operation. For the loop of `TryAcquireForWaiters`, a recursive function of the number of turns, the
argument is an induction on the turns: each keeps the lock good; the first gives the lock to the head of
the queue, for writing, or ends the loop; and a lock that is held for writing gets no other holder. That
the loop reads the front of an empty queue, and may fail an ASSERT then, is in the model (`dead`) and
does not disturb the three.

`ProofFacts` has the shared lemmas: greatest elements of finite sets of numbers, concatenations, two
quorums, one message per sender, the value of an updated function, induction on the rounds of a loop.

TLC agreed with each of these statements first: the inductive invariants and the three refinements of
`ReplicatedLog` were checked on the instances of the runs (HotStuff 177,695 states, PBFT 492,592,
MinBFT 532,613 and 233,148, TomBFT 89,286, VR 393,397 and, with batches of two, up to 65,378).

Only model-checked:
* All liveness: the prover has no fairness or ENABLED.
* VR after a view change or a restart: its five safety properties and `NoFault` are theorems in the first view
  only. Some are false beyond it; the run `vr` checks the five with one view change, and with one restart, and
  without the state transfers that break them, the run `live` checks `VRNoFault` through a view change.
* NOPaxos, Speculative and Fast Paxos, Eris, Spanner, Granola, TAPIR: their handlers are compositions of
  operators given as parameters, and recursions over logs; what these compute for all inputs would need
  induction over data.
* PBFT's `AtMostOnce` is no property at all: pbft/replica.cc:413 breaks it from two requests per client on.

## Findings

Five disagreements have a run of their own.

* `vr_transfer_fork` (vr/replica.cc:880): `HandleStateTransfer` enters a newer view
  without dropping entries of the old view that lie behind the last one transferred. The
  old leader keeps such an entry, acknowledges it in the new view, and executes it under
  a number at which the others execute the new leader's request.
* `spin_null_solo` (runner.cc:247): a prologue that returns `nullptr`, as every replica's
  does for a message that fails verification, never calls `SoloDone`. `next_solo` stays
  on its slot; the workers behind it spin for ever, or a lap later the task in that slot
  runs ahead of theirs. `CTPLOrderedRunner` counts such a task.
* `nopaxos_gap_race` (nopaxos/replica.cc:696): an old leader keeps its uncommitted gap when the merged log
  has no gap at all, and commits it where the new leader has committed a request.
* `spec_empty_log` (spec/replica.cc:1324): a leader without a DoViewChange of its own merges an empty log of view 0
  in its place. Its own log, of view 1, is not among those merged, and a log of view 0 replaces what view 1
  has committed by IN-VIEW.
* `eris_promise_of_one_shard` (eris/server.cc:1054): a promise to drop another shard's number is only
  looked up under the own shard's number, so the transaction runs at one shard and is dropped at another.

Others are reachable in the models and are the reason why a property is not stated
where one might expect it, or has an exception:

* PBFT: :270 the own PREPARE is skipped, contrary to the comment at line 304;
  :378 likewise the own COMMIT; :413 `request_number` moves backwards, so a resent
  request can be executed twice; client.cc:20 the resend timer is never stopped.
* VR: :971 a recovering replica, whose log is empty, takes part in a view
  change; committed requests can be replaced. :1197 and :1032 logs are installed without
  `UpdateClientTable`, so a retransmitted request is executed twice after a recovery.
  :284 `EnterView` reads `lastOp` before its callers set it, and the next leader aborts
  in `CloseBatch` (:395). :1107 a STARTVIEW with an empty log meets a non-empty one and
  `Log::Append` aborts. :1044 `min_element` of an empty map.
* HotStuff: :308 a replica whose first QC is not that of block 1 never executes
  the blocks before it; :241 votes are sent before the gap test, so blocks below a QC
  may be held by fewer than 2f backups; :157 the answer to a duplicated request is
  wrapped in a message type the client does not parse.
* MinBFT: :139-157 a duplicate of an old message stays in `ui_queue` for ever and every later message of
  its sender behind it; :127 a replica that executed a request before receiving it sets `ready` back when it
  arrives, and never answers it; :301 no reply when the client has no entry; :252 a COMMIT before the PREPARE
  is not implemented (met from f = 2 on); the timer's `CloseBatch` leaves what it registered to the next solo.
* TomBFT: `offset` is read before it is set; the first packet a replica gets is taken as first of the
  order; packets are buffered during an epoch change whatever their session (:375); VIEWCHANGE and
  EPOCHSTART that arrive before the receiver changes its epoch are forgotten; session numbers are cut to a
  byte. From the third session on `LogsAreOfTheOrder` is false (TLC finds it with `MaxSession = 3`; `pool` has
  two): VIEWCHANGEs and EPOCHSTARTs of the change before it, delivered again, count ("TODO check view
  number", replica.cc:172, and :238), a replica ends the change in the session it was in, with a new
  `offset`, and logs packets that it has already logged.
* Speculative Paxos: :748 `lastNormalView` is the view of the last entry, not the last view in which the replica
  was normal: a log that a view has confirmed without adding to it is merged with a diverging one that never was in that
  view, and may lose what was committed (the scenario of `spec_empty_log` reaches this too, one step later); :1324
  logs longer than the part that a message carries; client.cc:229 asserts the view of matching hashes. NOPaxos: :535 a session and a view that change at once.
* Eris: `shouldDrop` is not recorded in `droppedTxns`; a query whose answer goes to another shard never
  ends a view change; `viewChangeQuorum` needs all other replicas; new leaders do not reply to what an
  old view logged; an epoch change that rewinds keeps `shardToMsgnum`; fcor.cc:444 throws on an empty log;
  `status == !STATUS_VIEW_CHANGE` in `CompleteFCQuery`; the comparator of `pendingRequests` (server.h:151-156)
  is no strict weak order across sessions. The model sorts by session and number, which makes no difference
  within the bounds of the run.
* Locks: lockserver.cc:199-203 an upgrade without `retryLock` loses a wakeup; :273 the front of an empty
  queue; with retries, a waiter that joins a read lock or aborts stays in the queue.
* Spanner and Granola: transaction numbers of clients collide; the leader resends its last PREPARE only. A
  Granola client that gives up sends no ABORT (a Spanner client does, spanner/client.cc:175-190). Granola:
  server.cc:543 the proposed timestamp is final, so that independent transactions of two shards are not serializable
  (TLC finds it in 21 steps if `Serializable` is stated for all shards at once).
* TAPIR: irclient.cc:537 `PrepareDecide` gets the set of different results, so that equal OKs count once; with one
  of three replicas down a majority of OKs decides RETRY, contrary to the comment at line 539. `Record::Add` stores a result in a copy (record.cc:54-62), so a PREPARE proposed again has none;
  a late PROPOSE after its COMMIT leaves a lock; irclient.cc:503 counts different results together.

## Not modelled

* Byzantine replicas and forged signatures: messages come from correct or stopped
  processes, and the code's protection against others (it checks few of the certificates it
  receives) is not examined.
* Unlogged requests of VR and of the Paxos family: they touch no replicated state.
* `NoRunner` (sequential), `CTPLRunner` and `CTPLPipelineRunner` (no user); the
  destruction of runners apart from `SpinRunners!Destroy`.
* HotStuff's start-up: the model begins after the constructors' first tasks.
* TomBFT's queries: the timer of `StartQuery` is never started.
* Eris's replicated coordinator is one process that executes each request once; the rollback of executed
  operations, which the code leaves open, stops the replica.
* Message encoding, sizes (the 1460-byte limit of HotStuff), logging, latency
  measurement, sockets, configuration.
* `signedunrep`, `unreplicated` and the unreplicated transactions: one server, whose concurrency is that of
  the runner or the lock server. `nistore`: `server.h:46` keeps its `TxnStore` by value, so the OCC and lock
  stores are sliced and every operation is the empty one of the base class. Applications (key-value
  client, TPC-C, b-tree), time server, benchmarks, deployment.

## Plan

Done: the core protocols, both abstract specifications, and the theorems above. Left:

1. VR: `AtMostOnce`, `ReplyIsReplicated` and `NoFault` beyond the first view, without restarts and with
   the state transfers of one view only.
2. TAPIR's repeated PREPAREs; view and session changes of NOPaxos at once.
