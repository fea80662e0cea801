-------------------------------- MODULE VR --------------------------------
(***************************************************************************)
(* The viewstamped-replication replica and client of replication/vr:       *)
(* normal operation with batching, state transfer, view change, and the    *)
(* recovery of a replica that restarts with nothing on disk.               *)
(*                                                                         *)
(* The state of one replica object is one record of rep.  A handler of the *)
(* code is an operator from that record (and a message) to the record the  *)
(* handler leaves, with the messages it sent in the field out; the actions *)
(* at the end of the module apply a handler and put out into the network.  *)
(* A failing ASSERT, an RPanic and a null dereference end the process: the *)
(* status becomes "crashed", fault names the place, and no later statement *)
(* of the handler runs (operator Then).                                    *)
(*                                                                         *)
(* The network loses, duplicates and reorders messages: a message stays in *)
(* msgs once sent and can be handled later any number of times, or never.  *)
(* The retransmissions of the code (ResendPrepare, ResendRequest,          *)
(* SendRecoveryMessages from recoveryTimeout) therefore add no behaviour.  *)
(* Which timers run follows from the rest of the state: viewChangeTimeout  *)
(* runs during a view change and at a backup, nullCommitTimeout at a       *)
(* leader, closeBatchTimeout at a leader that holds a partial batch.       *)
(***************************************************************************)
EXTENDS Log, SequencesExt

CONSTANTS
  N,           \* configuration.n: the replicas are 0 .. N-1
  F,           \* configuration.f
  Clients,     \* the clients
  BatchSize,   \* batchSize, the constructor's argument
  LeaderOnly,  \* clients whose requests LeaderUpcall answers without replication
  Down,        \* replicas that are down from the start
  Lost,        \* kinds of message the network always loses
  Timers,      \* timers that expire (the others outlast the run)
  MaxReq,      \* bound: requests one client invokes
  MaxOp,       \* bound: operation numbers a leader assigns
  MaxView,     \* bound: views that viewChangeTimeout starts
  MaxRestart,  \* bound: restarts of all replicas together
  MaxPending,  \* bound: length of pendingPrepares
  MaxTransfer  \* bound: different STATETRANSFER messages sent

ReplicaIds == 0 .. N - 1

ASSUME SizeAssumption  == F \in Nat /\ N = 2 * F + 1
ASSUME BatchAssumption == BatchSize \in Nat \ {0}
ASSUME SetAssumption   == Down \subseteq ReplicaIds /\ LeaderOnly \subseteq Clients
ASSUME BoundAssumption == {MaxReq, MaxOp, MaxView, MaxRestart, MaxPending,
                            MaxTransfer} \subseteq Nat

VARIABLES
  rep,     \* rep[r]: the fields of the VRReplica object of replica r
  client,  \* client[c]: lastReqId, and the pending request's number or 0
  msgs     \* every message ever sent

vars == <<rep, client, msgs>>


\* Configuration::GetLeaderIndex and VRReplica::AmLeader.
GetLeaderIndex(view) == view % N
AmLeader(s) == GetLeaderIndex(s.view) = s.id

Others(s) == ReplicaIds \ {s.id}

NoQuorum == [op \in 1 .. MaxOp |-> {}]

-----------------------------------------------------------------------------
\* Helpers of the handlers.

Crash(s, where) == [s EXCEPT !.status = "crashed", !.fault = where]

\* Sequencing: the next statement runs only if the process is still there.
\* (s is bound in a set so that TLC evaluates it once.)
Then(s, Op(_)) ==
    CHOOSE t \in {IF u.status = "crashed" THEN u ELSE Op(u) : u \in {s}} : TRUE

\* A for loop: its rounds change s, one for each item, in order.  (FoldLeft as
\* a function of the number of rounds, which is what the proofs unfold.)
Loop(Round(_, _), s, items) ==
    LET after[k \in 0 .. Len(items)] ==
            IF k = 0 THEN s ELSE Round(after[k - 1], items[k])
    IN  after[Len(items)]

Send(s, m) == [s EXCEPT !.out = @ \cup {m}]

\* The numbers from a to b, in order.
Interval(a, b) == IF b < a THEN << >> ELSE [k \in 1 .. b - a + 1 |-> a + k - 1]

PrepareOK(s, view, op) ==
    [type |-> "prepareOK", to |-> {GetLeaderIndex(s.view)}, from |-> s.id,
     view |-> view, op |-> op]

Reply(req, op) == [type |-> "reply", to |-> {}, req |-> req, op |-> op]

\* QuorumSet::AddAndCheckForQuorum, the part that stores: the message replaces
\* an older one of the same replica.  Messages stored under another view are
\* never looked at again and are dropped here.
Store(set, m) == {x \in set : x.view = m.view /\ x.from # m.from} \cup {m}

\* Append an entry under the next operation number: Log::Append asserts that
\* the log ends where lastOp says it does.
Push(s, entry) ==
    IF MayAppend(s.log, s.lastOp + 1)
    THEN [s EXCEPT !.lastOp = @ + 1, !.log = Append(@, entry)]
    ELSE Crash(s, "Append")

\* Mutant: the client table forgets requests that are not executed yet.
UpdateClientTableNever(s, req) == s

UpdateClientTable(s, req) ==
    LET old == s.clientTable[req.client] IN
    IF old.id > req.id THEN Crash(s, "UpdateClientTable")
    ELSE IF old.id = req.id THEN s
    ELSE [s EXCEPT !.clientTable[req.client] =
                      [id |-> req.id, replied |-> FALSE, op |-> 0]]

\* One round of CommitUpTo's loop.  The reply is sent only to a client whose
\* address this replica has learned from a request.
ExecuteNext(s, op) ==
    IF ~Found(s.log, op) THEN Crash(s, "CommitUpTo")
    ELSE LET req == s.log[op].req IN
         [s EXCEPT !.lastCommitted = op,
                   !.executed = Append(@, req),
                   !.clientTable[req.client] =
                      IF @.id <= req.id
                      THEN [id |-> req.id, replied |-> TRUE, op |-> op] ELSE @,
                   !.out = IF req.client \in s.addresses
                           THEN @ \cup {Reply(req, op)} ELSE @]

CommitUpTo(s, upto) ==
    Loop(LAMBDA t, op : Then(t, LAMBDA u : ExecuteNext(u, op)),
             s, Interval(s.lastCommitted + 1, upto))

\* One round of SendPrepareOKs' loop.
AckNext(s, op) ==
    IF op <= s.lastCommitted THEN s
    ELSE IF ~Found(s.log, op) THEN Crash(s, "SendPrepareOKs")
    ELSE Then(UpdateClientTable(s, s.log[op].req),
              LAMBDA t : Send(t, PrepareOK(t, t.view, op)))

SendPrepareOKs(s, oldLastOp) ==
    Loop(LAMBDA t, op : Then(t, LAMBDA u : AckNext(u, op)),
             s, Interval(oldLastOp, s.lastOp))

RequestStateTransfer(s) ==
    IF /\ s.lastRequest.op # 0
       /\ s.lastRequest = [view |-> s.view, op |-> s.lastCommitted]
    THEN s
    ELSE Send([s EXCEPT !.lastRequest = [view |-> s.view, op |-> s.lastCommitted]],
              [type |-> "requestStateTransfer", to |-> Others(s), from |-> s.id,
               view |-> s.view, op |-> s.lastCommitted])

EnterView(s, view) ==
    [s EXCEPT !.view = view, !.status = "normal",
              !.lastBatchEnd = s.lastOp, !.batchComplete = TRUE,
              !.prepareOKs = NoQuorum, !.startViewChanges = {},
              !.doViewChanges = {}, !.recoveryResponses = {}]

StartViewChange(s, view) ==
    Send([s EXCEPT !.view = view, !.status = "viewChange"],
         [type |-> "startViewChange", to |-> Others(s), from |-> s.id,
          view |-> view, lastCommitted |-> s.lastCommitted])

SendCommit(s) ==
    Send(s, [type |-> "commit", to |-> Others(s), view |-> s.view,
             op |-> s.lastCommitted])

CloseBatch(s) ==
    IF ~(AmLeader(s) /\ s.lastBatchEnd < s.lastOp) THEN Crash(s, "CloseBatch")
    ELSE IF \E op \in s.lastBatchEnd + 1 .. s.lastOp :
               ~Found(s.log, op) \/ s.log[op].view # s.view
    THEN Crash(s, "CloseBatchEntry")
    ELSE Send([s EXCEPT !.lastBatchEnd = s.lastOp, !.batchComplete = FALSE],
              [type |-> "prepare", to |-> Others(s), view |-> s.view,
               op |-> s.lastOp, batchStart |-> s.lastBatchEnd + 1,
               reqs |-> [k \in 1 .. s.lastOp - s.lastBatchEnd |->
                            s.log[s.lastBatchEnd + k].req]])

-----------------------------------------------------------------------------
\* Normal operation.

\* A new request: LeaderUpcall decides whether it is replicated.
AcceptRequest(s, req) ==
    IF req.client \in LeaderOnly
    THEN Send([s EXCEPT !.clientTable[req.client] =
                           [id |-> req.id, replied |-> TRUE, op |-> 0]],
              Reply(req, 0))
    ELSE Then(Push(s, [view |-> s.view, req |-> req]),
              LAMBDA t : IF \/ t.batchComplete
                            \/ t.lastOp - t.lastBatchEnd + 1 > BatchSize
                         THEN CloseBatch(t) ELSE t)

HandleRequest(s, m) ==
    IF s.status # "normal" \/ ~AmLeader(s) THEN s
    ELSE LET known == s.clientTable[m.req.client]
             t == [s EXCEPT !.addresses = @ \cup {m.req.client}]
         IN  IF m.req.id < known.id THEN t
             ELSE IF m.req.id = known.id
             THEN IF known.replied THEN Send(t, Reply(m.req, known.op)) ELSE t
             ELSE Then(UpdateClientTable(t, m.req),
                       LAMBDA u : AcceptRequest(u, m.req))

\* A PREPARE that cannot be used yet: ask for the missing state, keep it.
Postpone(s, m) ==
    [RequestStateTransfer(s) EXCEPT !.pendingPrepares = Append(@, m)]

\* Mutant: a PREPARE is appended whatever operation it starts with.
HandlePrepareAnyStart(s, m) ==
    IF s.status # "normal" \/ m.view # s.view THEN s
    ELSE IF m.op <= s.lastOp THEN Send(s, PrepareOK(s, m.view, m.op))
    ELSE Then(Push(s, [view |-> m.view, req |-> m.reqs[Len(m.reqs)]]),
              LAMBDA t : Send(t, PrepareOK(t, m.view, m.op)))

\* One round of HandlePrepare's loop over the requests of a batch.
AppendNext(s, view, req) ==
    Then(Push(s, [view |-> view, req |-> req]), LAMBDA t : UpdateClientTable(t, req))

AppendBatch(s, view, reqs) ==
    Loop(LAMBDA t, req : Then(t, LAMBDA u : AppendNext(u, view, req)), s, reqs)

HandlePrepare(s, m) ==
    IF s.status # "normal" \/ m.view < s.view THEN s
    ELSE IF m.view > s.view THEN Postpone(s, m)
    ELSE IF AmLeader(s) THEN Crash(s, "UnexpectedPrepare")
    ELSE IF m.batchStart > m.op \/ Len(m.reqs) # m.op - m.batchStart + 1
    THEN Crash(s, "PrepareShape")
    ELSE IF m.op <= s.lastOp THEN Send(s, PrepareOK(s, m.view, m.op))
    ELSE IF m.batchStart > s.lastOp + 1 THEN Postpone(s, m)
    ELSE Then(AppendBatch(s, m.view, SubSeq(m.reqs, s.lastOp - m.batchStart + 2, Len(m.reqs))),
              LAMBDA t : Send(t, PrepareOK(t, m.view, m.op)))

\* Mutant: the next batch is closed without looking whether there is one.
AfterQuorumAlways(s, op) ==
    LET t == SendCommit(s) IN
    IF t.lastBatchEnd # op THEN t ELSE CloseBatch([t EXCEPT !.batchComplete = TRUE])

\* The first quorum for an operation is announced, and may close the next batch.
AfterQuorum(s, op) ==
    LET t == SendCommit(s) IN
    IF t.lastBatchEnd # op THEN t
    ELSE LET u == [t EXCEPT !.batchComplete = TRUE] IN
         IF u.lastOp > u.lastBatchEnd THEN CloseBatch(u) ELSE u

HandlePrepareOK(s, m) ==
    IF s.status # "normal" \/ m.view < s.view THEN s
    ELSE IF m.view > s.view THEN RequestStateTransfer(s)
    ELSE IF ~AmLeader(s) THEN s
    ELSE LET t == [s EXCEPT !.prepareOKs[m.op] = @ \cup {m.from}]
             have == Cardinality(t.prepareOKs[m.op])
         IN  IF have < F THEN t
             ELSE Then(CommitUpTo(t, m.op),
                       LAMBDA u : IF have >= F + 1 THEN u ELSE AfterQuorum(u, m.op))

HandleCommit(s, m) ==
    IF s.status # "normal" \/ m.view < s.view THEN s
    ELSE IF m.view > s.view THEN RequestStateTransfer(s)
    ELSE IF AmLeader(s) THEN Crash(s, "UnexpectedCommit")
    ELSE IF m.op <= s.lastCommitted THEN s
    ELSE IF m.op > s.lastOp THEN RequestStateTransfer(s)
    ELSE CommitUpTo(s, m.op)

-----------------------------------------------------------------------------
\* State transfer.

HandleRequestStateTransfer(s, m) ==
    IF s.status # "normal" THEN s
    ELSE IF m.view > s.view THEN RequestStateTransfer(s)
    ELSE Send(s, [type |-> "stateTransfer", to |-> {m.from}, view |-> s.view,
                  op |-> s.lastCommitted, dump |-> Dump(s.log, m.op + 1)])

\* One round of HandleStateTransfer's loop over the entries.  x carries the
\* replica and the local variable oldLastOp.
TransferEntry(x, op, entry) ==
    LET s == x.s IN
    IF s.status = "crashed" \/ op <= s.lastCommitted THEN x
    ELSE IF op > s.lastOp
    THEN [x EXCEPT !.s = IF op = s.lastOp + 1 THEN Push(s, entry)
                                              ELSE Crash(s, "StateTransferGap")]
    ELSE IF ~Found(s.log, op) \/ s.log[op].view > entry.view
    THEN [x EXCEPT !.s = Crash(s, "StateTransferEntry")]
    ELSE IF s.log[op].view = entry.view THEN x
    ELSE [s |-> [s EXCEPT !.log = Append(RemoveAfter(@, op), entry), !.lastOp = op],
          oldLastOp |-> op]

TransferEntries(s, dump) ==
    Loop(LAMBDA x, k : TransferEntry(x, dump.first + k - 1, dump.entries[k]),
         [s |-> s, oldLastOp |-> s.lastOp], Interval(1, Len(dump.entries)))

\* The PREPAREs kept for the end of the transfer are handled again.
HandlePending(s) ==
    Loop(LAMBDA t, p : Then(t, LAMBDA u : HandlePrepare(u, p)),
         [s EXCEPT !.pendingPrepares = << >>], s.pendingPrepares)

HandleStateTransfer(s, m) ==
    IF m.view < s.view THEN s
    ELSE LET x == TransferEntries(s, m.dump)
             entered == Then(x.s, LAMBDA t : IF m.view > t.view THEN EnterView(t, m.view)
                                                                ELSE t)
             checked == Then(entered, LAMBDA t : IF m.op > t.lastOp
                                                 THEN Crash(t, "StateTransferShort") ELSE t)
             committed == Then(checked, LAMBDA t : CommitUpTo(t, m.op))
             acked == Then(committed, LAMBDA t : SendPrepareOKs(t, x.oldLastOp))
         IN  Then(acked, HandlePending)

-----------------------------------------------------------------------------
\* View change.

\* Mutant: a message of the current view is taken outside a view change too.
StaleViewMessageOlder(s, m) == m.view < s.view

\* HandleStartViewChange, HandleDoViewChange and HandleStartView drop a message
\* of an older view, and one of the current view outside a view change.
StaleViewMessage(s, m) == m.view < s.view \/ (m.view = s.view /\ s.status # "viewChange")

\* Mutant: joining a view change is not announced to the others.
JoinQuietly(s, m) == [s EXCEPT !.view = m.view, !.status = "viewChange"]

\* HandleStartViewChange and HandleDoViewChange join the view change first.
Join(s, m) ==
    IF s.status # "viewChange" \/ m.view > s.view THEN StartViewChange(s, m.view) ELSE s

MinCommitted(set, own) == Min({x.lastCommitted : x \in set} \cup {own})

HandleStartViewChange(s, m) ==
    IF StaleViewMessage(s, m) THEN s
    ELSE LET joined == Join(s, m)
             t == [joined EXCEPT !.startViewChanges = Store(@, m)]
         IN  IF Cardinality(t.startViewChanges) < F \/ AmLeader(t) THEN t
             ELSE Send(t, [type |-> "doViewChange", to |-> {GetLeaderIndex(t.view)},
                           from |-> t.id, view |-> t.view,
                           lastNormalView |-> LastViewstamp(t.log).view,
                           lastOp |-> t.lastOp, lastCommitted |-> t.lastCommitted,
                           dump |-> Dump(t.log, MinCommitted(t.startViewChanges,
                                                             t.lastCommitted))])

\* The order HandleDoViewChange's loop uses to find the latest log.
Newer(view1, op1, view2, op2) == view1 > view2 \/ (view1 = view2 /\ op1 > op2)

\* Mutants: the new leader always keeps its own log, or always takes another's.
LatestMsgsNone(s) == {}
\* The DoViewChange messages with a log newer than the replica's own that no
\* other message's log is newer than; the loop meets the lowest replica first.
LatestMsgs(s) ==
    LET own == LastViewstamp(s.log)
        newer == {x \in s.doViewChanges :
                     Newer(x.lastNormalView, x.lastOp, own.view, own.op)}
        best == {x \in newer : \A y \in newer :
                     ~Newer(y.lastNormalView, y.lastOp, x.lastNormalView, x.lastOp)}
    IN  {x \in best : \A y \in best : x.from <= y.from}

\* Install the log of the message x selected by the new leader; m is the
\* message being handled.
InstallLatest(s, x, m) ==
    IF x.dump.entries = << >>
    THEN IF s.lastCommitted = m.lastCommitted /\ m.lastOp = m.lastCommitted
         THEN s ELSE Crash(s, "DoViewChangeEmpty")
    ELSE IF x.dump.first > s.lastCommitted + 1 THEN Crash(s, "DoViewChangeShort")
    ELSE [s EXCEPT !.log = Install(RemoveAfter(@, x.lastOp + 1), x.dump)]

\* The StartViewChange messages the new leader stored for the view.
\* HandleDoViewChange dereferences min_element of that map even when it is
\* empty: what it reads then is unspecified.
StoredFor(s, m) == {x \in s.startViewChanges : x.view = m.view}
Unspecified(s, m) == IF StoredFor(s, m) = {} THEN 0 .. s.lastCommitted ELSE {s.lastCommitted}

\* A quorum of DoViewChange messages: install the latest log and start the view.
StartView(s, m, garbage) ==
    LET latest == LatestMsgs(s)
        own == LastViewstamp(s.log)
        latestOp == IF latest = {} THEN own.op ELSE (CHOOSE x \in latest : TRUE).lastOp
        installed == IF latest = {} THEN s
                     ELSE InstallLatest(s, CHOOSE x \in latest : TRUE, m)
        minCommitted == MinCommitted(StoredFor(s, m) \cup s.doViewChanges,
                                     Min({garbage, s.lastCommitted}))
        entered == Then(installed,
                        LAMBDA t : [EnterView(t, m.view) EXCEPT !.lastOp = latestOp])
        committed == Then(entered,
                          LAMBDA t : IF latest = {} THEN t
                                     ELSE CommitUpTo(t, (CHOOSE x \in latest : TRUE).lastCommitted))
    IN  Then(committed,
             LAMBDA t : Send(t, [type |-> "startView", to |-> Others(t), view |-> t.view,
                                 lastOp |-> t.lastOp, lastCommitted |-> t.lastCommitted,
                                 dump |-> Dump(t.log, minCommitted)]))

HandleDoViewChange(s, m, garbage) ==
    IF StaleViewMessage(s, m) THEN s
    ELSE LET joined == Join(s, m)
             t == [joined EXCEPT !.doViewChanges = Store(@, m)]
         IN  IF ~AmLeader(joined) THEN Crash(joined, "DoViewChangeLeader")
             ELSE IF Cardinality(t.doViewChanges) < F THEN t
             ELSE StartView(t, m, garbage)

HandleStartView(s, m) ==
    IF StaleViewMessage(s, m) THEN s
    ELSE IF GetLeaderIndex(m.view) = s.id THEN Crash(s, "StartViewLeader")
    ELSE LET installed ==
               IF m.dump.entries = << >>
               THEN IF m.lastCommitted = s.lastCommitted /\ m.lastOp = m.lastCommitted
                    THEN s ELSE Crash(s, "StartViewEmpty")
               ELSE IF m.dump.first > s.lastCommitted + 1 THEN Crash(s, "StartViewShort")
               ELSE [s EXCEPT !.log = Install(RemoveAfter(@, m.lastOp + 1), m.dump)]
             entered == Then(installed,
                             LAMBDA t : [EnterView(t, m.view) EXCEPT !.lastOp = m.lastOp])
             committed == Then(entered, LAMBDA t : CommitUpTo(t, m.lastCommitted))
         IN  Then(committed, LAMBDA t : SendPrepareOKs(t, s.lastOp))

-----------------------------------------------------------------------------
\* Recovery.

HandleRecovery(s, m) ==
    IF s.status # "normal" THEN s
    ELSE Send(s, [type |-> "recoveryResponse", to |-> {m.from}, from |-> s.id,
                  view |-> s.view, nonce |-> m.nonce,
                  lastCommitted |-> IF AmLeader(s) THEN s.lastCommitted ELSE 0,
                  lastOp |-> IF AmLeader(s) THEN s.lastOp ELSE 0,
                  dump |-> IF AmLeader(s) THEN Dump(s.log, 0) ELSE Dump(<< >>, 0)])

\* Mutant: the first response is believed, whoever sent it.
HandleRecoveryResponseFirst(s, m) ==
    IF s.status # "recovering" \/ m.nonce # s.nonce THEN s
    ELSE CommitUpTo([EnterView([s EXCEPT !.log = Install(@, m.dump)], m.view)
                        EXCEPT !.lastOp = m.lastOp], m.lastCommitted)

HandleRecoveryResponse(s, m) ==
    IF s.status # "recovering" \/ m.nonce # s.nonce THEN s
    ELSE LET t == [s EXCEPT !.recoveryResponses =
                               {x \in @ : x.from # m.from} \cup {m}]
             highestView == Max({x.view : x \in t.recoveryResponses})
             leaderResponses == {x \in t.recoveryResponses :
                                    /\ x.from = GetLeaderIndex(highestView)
                                    /\ x.view = highestView}
         IN  IF Cardinality(t.recoveryResponses) < F + 1 THEN t
             ELSE IF GetLeaderIndex(highestView) = s.id THEN Crash(t, "RecoveryLeader")
             ELSE IF leaderResponses = {} THEN t
             ELSE LET x == CHOOSE y \in leaderResponses : TRUE
                      installed == [t EXCEPT !.log = Install(@, x.dump)]
                  IN  CommitUpTo([EnterView(installed, x.view) EXCEPT !.lastOp = x.lastOp],
                                 x.lastCommitted)

-----------------------------------------------------------------------------
\* The state machine.

Fresh(r, status, nonce) ==
    [id |-> r, status |-> status, fault |-> "none", view |-> 0, nonce |-> nonce,
     log |-> << >>, lastOp |-> 0, lastCommitted |-> 0, executed |-> << >>,
     lastBatchEnd |-> 0, batchComplete |-> TRUE, lastRequest |-> [view |-> 0, op |-> 0],
     addresses |-> {}, clientTable |-> [c \in Clients |-> [id |-> 0, replied |-> FALSE, op |-> 0]],
     pendingPrepares |-> << >>, prepareOKs |-> NoQuorum, startViewChanges |-> {},
     doViewChanges |-> {}, recoveryResponses |-> {}, out |-> {}]

Init ==
    /\ rep = [r \in ReplicaIds |-> Fresh(r, IF r \in Down THEN "crashed" ELSE "normal", 0)]
    /\ client = [c \in Clients |-> [lastReqId |-> 0, pending |-> 0]]
    /\ msgs = {}

\* Replica r goes to the state s, and what it sent is in the network.
Step(r, s) ==
    \E t \in {s} :
        /\ rep' = [rep EXCEPT ![r] = [t EXCEPT !.out = {}]]
        /\ msgs' = msgs \cup {m \in t.out : m.type \notin Lost}
        /\ UNCHANGED client

Running(r) == rep[r].status # "crashed"

\* The messages of one kind that can reach replica r.
Inbox(r, type) ==
    IF Running(r) THEN {m \in msgs : m.type = type /\ r \in m.to} ELSE {}

\* ReceiveMessage, one disjunct of Next for each kind of message.
ReceiveRequest(r) ==
    /\ rep[r].lastOp < MaxOp
    /\ \E m \in Inbox(r, "request") : Step(r, HandleRequest(rep[r], m))

ReceivePrepare(r) ==
    \E m \in Inbox(r, "prepare") :
        LET s == HandlePrepare(rep[r], m) IN
        Len(s.pendingPrepares) <= MaxPending /\ Step(r, s)

ReceivePrepareOK(r) ==
    \E m \in Inbox(r, "prepareOK") : Step(r, HandlePrepareOK(rep[r], m))

ReceiveCommit(r) ==
    \E m \in Inbox(r, "commit") : Step(r, HandleCommit(rep[r], m))

ReceiveRequestStateTransfer(r) ==
    \E m \in Inbox(r, "requestStateTransfer") :
        LET s == HandleRequestStateTransfer(rep[r], m) IN
        /\ Cardinality({x \in msgs \cup s.out : x.type = "stateTransfer"}) <= MaxTransfer
        /\ Step(r, s)

ReceiveStateTransfer(r) ==
    \E m \in Inbox(r, "stateTransfer") : Step(r, HandleStateTransfer(rep[r], m))

ReceiveStartViewChange(r) ==
    \E m \in Inbox(r, "startViewChange") : Step(r, HandleStartViewChange(rep[r], m))

ReceiveDoViewChange(r) ==
    \E m \in Inbox(r, "doViewChange") :
        \E garbage \in Unspecified(rep[r], m) :
            Step(r, HandleDoViewChange(rep[r], m, garbage))

ReceiveStartView(r) ==
    \E m \in Inbox(r, "startView") : Step(r, HandleStartView(rep[r], m))

ReceiveRecovery(r) ==
    \E m \in Inbox(r, "recovery") : Step(r, HandleRecovery(rep[r], m))

ReceiveRecoveryResponse(r) ==
    \E m \in Inbox(r, "recoveryResponse") : Step(r, HandleRecoveryResponse(rep[r], m))

\* viewChangeTimeout: nothing was heard from the leader.
ViewChangeTimeout(r) ==
    /\ "viewChange" \in Timers
    /\ rep[r].status = "viewChange" \/ (rep[r].status = "normal" /\ ~AmLeader(rep[r]))
    /\ rep[r].view < MaxView
    /\ Step(r, StartViewChange(rep[r], rep[r].view + 1))

\* nullCommitTimeout: SendNullCommit.
NullCommitTimeout(r) ==
    /\ "nullCommit" \in Timers
    /\ rep[r].status = "normal" /\ AmLeader(rep[r])
    /\ Step(r, SendCommit(rep[r]))

\* closeBatchTimeout: a partial batch has waited long enough.
CloseBatchTimeout(r) ==
    /\ "closeBatch" \in Timers
    /\ rep[r].status = "normal" /\ AmLeader(rep[r])
    /\ ~rep[r].batchComplete /\ rep[r].lastOp > rep[r].lastBatchEnd
    /\ Step(r, CloseBatch(rep[r]))

\* stateTransferTimeout: the last request may be repeated.
StateTransferTimeout(r) ==
    /\ "stateTransfer" \in Timers
    /\ Running(r) /\ rep[r].lastRequest # [view |-> 0, op |-> 0]
    /\ Step(r, [rep[r] EXCEPT !.lastRequest = [view |-> 0, op |-> 0]])

\* The process of r is gone and is started again with initialize = false: it
\* has lost everything, draws a new nonce and asks for recovery.
Restart(r) ==
    /\ r \notin Down
    /\ MapThenSumSet(LAMBDA q : rep[q].nonce, ReplicaIds) < MaxRestart
    /\ LET s == Fresh(r, "recovering", rep[r].nonce + 1) IN
       Step(r, Send(s, [type |-> "recovery", to |-> Others(s), from |-> r,
                        nonce |-> s.nonce]))

\* VRClient::Invoke; the code panics on a second pending request.
Invoke(c) ==
    /\ client[c].pending = 0 /\ client[c].lastReqId < MaxReq
    /\ LET id == client[c].lastReqId + 1 IN
       /\ client' = [client EXCEPT ![c] = [lastReqId |-> id, pending |-> id]]
       /\ msgs' = msgs \cup {[type |-> "request", to |-> ReplicaIds,
                              req |-> [client |-> c, id |-> id]]}
    /\ UNCHANGED rep

\* VRClient::HandleReply: any reply with the pending number completes the request.
HandleReply(c) ==
    /\ client[c].pending # 0
    /\ \E m \in msgs : /\ m.type = "reply"
                       /\ m.req = [client |-> c, id |-> client[c].pending]
    /\ client' = [client EXCEPT ![c].pending = 0]
    /\ UNCHANGED <<rep, msgs>>

Next ==
    \/ \E r \in ReplicaIds :
          \/ ReceiveRequest(r) \/ ReceivePrepare(r) \/ ReceivePrepareOK(r)
          \/ ReceiveCommit(r) \/ ReceiveRequestStateTransfer(r)
          \/ ReceiveStateTransfer(r) \/ ReceiveStartViewChange(r)
          \/ ReceiveDoViewChange(r) \/ ReceiveStartView(r)
          \/ ReceiveRecovery(r) \/ ReceiveRecoveryResponse(r)
          \/ ViewChangeTimeout(r) \/ NullCommitTimeout(r) \/ CloseBatchTimeout(r)
          \/ StateTransferTimeout(r) \/ Restart(r)
    \/ \E c \in Clients : Invoke(c) \/ HandleReply(c)

Spec == Init /\ [][Next]_vars

\* What the code guarantees of a replica that is up: every lost message is
\* sent again (ResendRequest, ResendPrepare, the null commits, the repeated
\* state transfer request) until it arrives, and a timer that is not reset
\* expires.  A restart is never owed.
Fairness ==
    /\ \A r \in ReplicaIds \ Down :
          /\ WF_vars(ReceiveRequest(r)) /\ WF_vars(ReceivePrepare(r))
          /\ WF_vars(ReceivePrepareOK(r)) /\ WF_vars(ReceiveCommit(r))
          /\ WF_vars(ReceiveRequestStateTransfer(r)) /\ WF_vars(ReceiveStateTransfer(r))
          /\ WF_vars(ReceiveStartViewChange(r)) /\ WF_vars(ReceiveDoViewChange(r))
          /\ WF_vars(ReceiveStartView(r))
          /\ WF_vars(ViewChangeTimeout(r)) /\ WF_vars(CloseBatchTimeout(r))
    /\ \A c \in Clients : WF_vars(HandleReply(c))

FairSpec == Spec /\ Fairness

-----------------------------------------------------------------------------
\* Properties.

\* Two replicas never execute different requests under one operation number:
\* what tests/replication/vr-test.cc compares after its runs.
Agreement ==
    \A q, r \in ReplicaIds :
        \A op \in 1 .. Min({rep[q].lastCommitted, rep[r].lastCommitted}) :
            rep[q].executed[op] = rep[r].executed[op]

\* No replica executes one request twice: the client table recognises a
\* retransmitted request whatever happened since the first copy.
AtMostOnce ==
    \A r \in ReplicaIds : \A i, j \in 1 .. rep[r].lastCommitted :
        rep[r].executed[i] = rep[r].executed[j] => i = j

\* Every reply to a client is backed by a majority: F + 1 replicas hold the
\* request in their log under the operation number of the reply.  A replica
\* that has restarted is given until it is back in normal status: recovery
\* returns to it what it held.
ReplyIsReplicated ==
    \A m \in {x \in msgs : x.type = "reply" /\ x.op > 0} :
        Cardinality({r \in ReplicaIds :
            \/ Found(rep[r].log, m.op) /\ rep[r].log[m.op].req = m.req
            \/ rep[r].nonce > 0 /\ rep[r].status # "normal"}) > F

\* The leader of the latest view that any replica has entered holds every
\* request a client was answered for: a view change loses nothing that was
\* acknowledged.
LeaderKeepsReplies ==
    \A r \in ReplicaIds :
        /\ rep[r].status = "normal" /\ AmLeader(rep[r])
        /\ \A q \in ReplicaIds : rep[q].status = "normal" => rep[q].view <= rep[r].view
        => \A m \in {x \in msgs : x.type = "reply" /\ x.op > 0} :
              Found(rep[r].log, m.op) /\ rep[r].log[m.op].req = m.req

\* A PREPAREOK is a promise: while its sender and the leader of its view are
\* both in that view, the sender's log agrees with the leader's up to the
\* acknowledged operation.
PrepareOKIsKept ==
    \A m \in {x \in msgs : x.type = "prepareOK"} :
        LET a == rep[m.from]
            b == rep[GetLeaderIndex(m.view)]
        IN  /\ a.status = "normal" /\ a.view = m.view
            /\ b.status = "normal" /\ b.view = m.view
            => /\ Len(a.log) >= m.op /\ Len(b.log) >= m.op
               /\ SubSeq(a.log, 1, m.op) = SubSeq(b.log, 1, m.op)

\* No ASSERT, RPanic or null dereference of the replica is ever reached.
NoFault == \A r \in ReplicaIds : rep[r].fault = "none"

\* Except by a restart, a replica never goes back to an earlier view, never
\* leaves a view it has entered except for a later one, and never takes back an
\* executed operation.
OnlyForward ==
    [][\A r \in ReplicaIds :
          rep'[r].nonce = rep[r].nonce =>
             /\ rep'[r].view >= rep[r].view
             /\ rep[r].status = "normal" /\ rep'[r].status = "viewChange"
                   => rep'[r].view > rep[r].view
             /\ IsPrefix(rep[r].executed, rep'[r].executed)]_vars

\* Every request is answered, also when the leader of view 0 is down and the
\* others must change the view first: as often as they ask, and they ask at most
\* MaxReq times, there is a later moment when no client waits.
Completes == []<>(\A c \in Clients : client[c].pending = 0)
=============================================================================
