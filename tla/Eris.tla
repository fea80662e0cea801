-------------------------------- MODULE Eris --------------------------------
(***************************************************************************)
(* Eris, transaction/eris: the replicas of the shards, the sequencer that  *)
(* gives each transaction a number in every shard it touches, the client,  *)
(* and the failure coordinator (Fcor), which decides what becomes of a     *)
(* number that a shard has not received and moves the shards from the      *)
(* epoch of one sequencer to that of the next.                             *)
(*                                                                         *)
(* A stamp <<shard, number, session>> names a number of a shard.  A        *)
(* message is delivered to a recipient at most once; those that get no     *)
(* answer are sent again by timers.  The coordinator is an application on  *)
(* a VR group that acts only at its leader; here it is one process.  The   *)
(* application under a replica is one lock, which every transaction needs. *)
(***************************************************************************)
EXTENDS Handlers, SequencesExt

CONSTANTS
  Clients,    \* the clients; each invokes one transaction
  Scenarios   \* what may happen: [n, shards, plan, timers, down, lost, sequencers,
              \* sends]: replicas of a shard; shards; plan[c] = [groups, type, refuse];
              \* timers <<name, id>> that may expire; replicas that are down; <<x, id>>
              \* if no message of type x, or transaction of client x, reaches id; the
              \* sequencers; and the bound on the transactions each of them stamps

VARIABLES
  server,     \* server[id]: the fields of the ErisServer object of a replica
  fc,         \* the fields of the Fcor object
  seq,        \* seq[i][g]: msg_nums_ of sequencer i, whose session number is i
  client,     \* client[c]: the fields of the ErisClient object
  msgs,       \* the messages sent, each with those that may still receive it
  scenario    \* the member of Scenarios of this behaviour

vars == <<server, fc, seq, client, msgs, scenario>>

Shards == 0 .. scenario.shards - 1
Replicas == 0 .. scenario.n - 1
Ids == Shards \X Replicas
QuorumSize == (scenario.n - 1) \div 2 + 1

\* The address of the failure coordinator.
FC == <<-1, 0>>

Leader(view) == view % scenario.n
Shard(s) == s.id[1]
Replica(s) == s.id[2]
AmLeader(s) == Leader(s.view) = Replica(s)
Group(g) == {g} \X Replicas
Others(s) == Group(Shard(s)) \ {s.id}
LeaderId(s) == <<Shard(s), Leader(s.view)>>

Noop == [client |-> "none", id |-> 0, txn |-> 0, type |-> "NOOP", sess |-> 0, ops |-> << >>]
Stamps(req) == {<<g, req.ops[g], req.sess>> : g \in DOMAIN req.ops}

Active(s, t) == t \in s.active
Start(s, t) == [s EXCEPT !.active = @ \cup {t}]
Stop(s, ts) == [s EXCEPT !.active = @ \ ts]

LastOp(s) == Len(s.log)
NextStamp(s) == <<Shard(s), s.nextMsgnum, s.sessnum>>

-----------------------------------------------------------------------------
(* The application.  locks is the holder of the lock and those that wait.  *)

TakesLock(s, type) == type = "PREPARE" \/ (type = "INDEPENDENT" /\ s.locks # << >>)

\* The transaction waits if another one is before it in the queue; all but a
\* PREPARE leave the queue when they have run, and the next one becomes unblocked.
Execute(s, req) ==
    LET Leaves(queue) == req.type # "PREPARE" /\ Contains(queue, req.txn)
        Run(queue) ==
            IF TakesLock(s, req.type) /\ Head(queue) # req.txn
            THEN [locks |-> queue, blocked |-> TRUE, unblocked |-> {}]
            ELSE IF ~Leaves(queue) THEN [locks |-> queue, blocked |-> FALSE, unblocked |-> {}]
            ELSE With(SelectSeq(queue, LAMBDA t : t # req.txn), LAMBDA left :
                      [locks |-> left, blocked |-> FALSE,
                       unblocked |-> IF left = << >> THEN {} ELSE {Head(left)}])
    IN  With(IF TakesLock(s, req.type) /\ ~Contains(s.locks, req.txn)
             THEN Append(s.locks, req.txn) ELSE s.locks, Run)

-----------------------------------------------------------------------------
(* Execution of the log                                                    *)

Reply(s, req, entry, op, commit) ==
    [type |-> "reply", to |-> {}, client |-> req.client, id |-> req.id, shard |-> Shard(s),
     replica |-> Replica(s), view |-> entry.view, sess |-> entry.sess, op |-> op,
     commit |-> commit]

NoReply == [view |-> -1, commit |-> FALSE]

\* A transaction that waited, and now may run.
Unblock(s, txns) ==
    IF ~txns \subseteq DOMAIN s.blocked THEN Crash(s, "ExecuteTxn")
    ELSE [s EXCEPT !.unblockedQueue = @ \cup {s.blocked[x] : x \in txns},
                   !.blocked = [x \in DOMAIN @ \ txns |-> @[x]]]

\* The leader of the entry's view answers.
AnswerTxn(s, entry, op, commit) ==
    IF Leader(entry.view) # Replica(s) THEN s
    ELSE IF s.clientTable[entry.req.client].id # entry.req.id THEN Crash(s, "ExecuteTxn")
    ELSE Send([s EXCEPT !.clientTable[entry.req.client].reply =
                  [view |-> entry.view, commit |-> commit]],
              Reply(s, entry.req, entry, op, commit))

ExecuteTxn(s, op) ==
    LET entry == s.log[op]
        req == entry.req
        commit == Shard(s) \notin scenario.plan[req.client].refuse
        Wait(t) == IF req.txn \in DOMAIN t.blocked THEN Crash(t, "ExecuteTxn")
                   ELSE [t EXCEPT !.blocked = (req.txn :> op) @@ @]
    IN  With(Execute(s, req), LAMBDA ret :
        With([s EXCEPT !.locks = ret.locks], LAMBDA t :
             IF ret.blocked THEN Wait(t)
             ELSE Then(Unblock(t, ret.unblocked), LAMBDA u : AnswerTxn(u, entry, op, commit))))

RECURSIVE ExecuteUnblockedTxns(_)
ExecuteUnblockedTxns(s) ==
    IF s.status = "crashed" \/ s.unblockedQueue = {} THEN s
    ELSE LET op == Min(s.unblockedQueue) IN
         ExecuteUnblockedTxns([ExecuteTxn(s, op) EXCEPT !.unblockedQueue = @ \ {op}])

\* One operation of ExecuteUptoOp.
ExecuteOp(s, op) ==
    LET req == s.log[op].req
        t == [s EXCEPT !.lastExecutedOp = op]
        known == s.clientTable[req.client]
    IN  IF req = Noop \/ req.id < known.id THEN t
        ELSE IF req.id = known.id
        THEN IF known.reply = NoReply THEN t
             ELSE Send(t, Reply(s, req, [view |-> s.view, sess |-> s.sessnum], op,
                                known.reply.commit))
        ELSE Then(ExecuteTxn([t EXCEPT !.clientTable[req.client] =
                                [id |-> req.id, reply |-> NoReply]], op),
                  LAMBDA u : ExecuteUnblockedTxns(u))

ExecuteUptoOp(s, upto) ==
    FoldLeft(LAMBDA t, op : Then(t, LAMBDA u : ExecuteOp(u, op)),
             s, Interval(s.lastExecutedOp + 1, upto))

-----------------------------------------------------------------------------
(* Messages of a replica                                                   *)

Msg(s, type, to) == [type |-> type, to |-> to, from |-> s.id, view |-> s.view,
                     sess |-> s.sessnum]

\* InvokeAsync of a message that BuildFCMessage has filled in.
SendFC(s, type, fields) == Send(s, fields @@ Msg(s, type, {FC}))

SendFCTxnInfoRequest(s, stamp) == SendFC(s, "txnInfoReq", [stamp |-> stamp])

QueryFCForLastTxn(s) ==
    Start(SendFCTxnInfoRequest(Stop(s, {"startGap", "gap"}), NextStamp(s)), "fcTxnInfo")

SendGapRequest(s) ==
    Start(Send(s, [op |-> LastOp(s) + 1] @@
                  Msg(s, "gapRequest", IF AmLeader(s) THEN Others(s) ELSE {LeaderId(s)})),
          "gap")

Drops(s) == [temp |-> s.tempDrops, perm |-> s.permDrops, un |-> s.unDropMsgs]

SendViewChange(s) ==
    LET t == Start(Send(s, Msg(s, "viewChangeRequest", Others(s))), "viewChange") IN
    IF AmLeader(s) THEN t
    ELSE Send(t, [op |-> LastOp(s), drops |-> Drops(s)] @@ Msg(s, "viewChange", {LeaderId(s)}))

StartViewMsg(s, to) == [op |-> LastOp(s), drops |-> Drops(s)] @@ Msg(s, "startView", to)

SendStateTransferRequest(s) ==
    Start(Send(s, [begin |-> s.pendingST.begin, end |-> s.pendingST.end] @@
                  Msg(s, "stateTransferRequest", {<<Shard(s), s.pendingST.replica>>})),
          "stateTransfer")

RequestState(s, begin, end, replica, then) ==
    SendStateTransferRequest([s EXCEPT !.pendingST =
        [begin |-> begin, end |-> end, replica |-> replica, then |-> then]])

SendFCQueries(s) ==
    IF s.status # "viewChange" \/ s.fcQueries = {} THEN Crash(s, "SendFCQueries")
    ELSE Start(FoldLeft(LAMBDA t, stamp : SendFCTxnInfoRequest(t, stamp),
                        s, SetToSeq(s.fcQueries)), "fcQueries")

SendEpochChangeReq(s) ==
    Start(SendFC(s, "epochChangeReq", [new |-> s.sessnum]), "epochChangeReq")

SendEpochChangeAck(s) ==
    Start(SendFC(s, "epochChangeAck", [lastNormal |-> s.lastNormalSessnum, op |-> LastOp(s),
                                       nums |-> s.shardToMsgnum]), "epochChangeAck")

\* A request to every shard that has numbers of this one that the replica misses.
SendEpochChangeStateTransfer(s) ==
    IF s.ecRequests = {} THEN Stop(s, {"ecStateTransfer"})
    ELSE Start([s EXCEPT !.out = @ \cup
                  {[lastNormal |-> q.lastNormal, begin |-> q.begin, end |-> q.end] @@
                   Msg(s, "ecStateTransferRequest", {<<q.shard, q.replica>>}) :
                      q \in s.ecRequests}], "ecStateTransfer")

SendEpochChangeStateTransferAck(s) ==
    Start(SendFC(s, "ecStateTransferAck", [op |-> LastOp(s), drops |-> s.ecDrops]),
          "ecStateTransferAck")

CompleteECStateTransfer(s) == SendEpochChangeStateTransferAck(Stop(s, {"ecStateTransfer"}))

-----------------------------------------------------------------------------
(* Views and epochs                                                        *)

ClearTimeoutAndQuorums(s) ==
    [s EXCEPT !.active = {}, !.gapReplies = {}, !.viewChanges = {}, !.fcQueries = {},
              !.ecRequests = {}, !.ecDrops = {}]

StartViewChange(s, view) ==
    SendViewChange([ClearTimeoutAndQuorums(s) EXCEPT !.view = view, !.status = "viewChange"])

StartEpochChange(s, sess) ==
    [ClearTimeoutAndQuorums(s) EXCEPT !.sessnum = sess, !.status = "epochChange"]

DetectedEpochChange(s, sess) == SendEpochChangeReq(StartEpochChange(s, sess))

EnterView(s) ==
    LET t == [ClearTimeoutAndQuorums(s) EXCEPT !.status = "normal"] IN
    IF ~AmLeader(s) THEN Start(t, "leaderSyncHeard")
    ELSE Then(ExecuteUptoOp(t, LastOp(t)), LAMBDA u :
              Send(Start([u EXCEPT !.lastCommittedOp = LastOp(u)], "sync"),
                   StartViewMsg(u, Others(u))))

EnterEpoch(s) ==
    LET t == [ClearTimeoutAndQuorums(s) EXCEPT
                !.status = "normal", !.lastNormalSessnum = s.sessnum, !.nextMsgnum = 1,
                !.lastCommittedOp = LastOp(s), !.tempDrops = {}, !.permDrops = {},
                !.unDrops = {}, !.unDropMsgs = {}, !.txnLookup = << >>,
                !.shardToMsgnum = [g \in Shards |-> 0]]
    IN  IF AmLeader(s)
        THEN Then(ExecuteUptoOp(t, LastOp(t)), LAMBDA u : Start(u, "sync"))
        ELSE Start(t, "leaderSyncHeard")

CheckViewNumAndStatus(s, m, Continue(_)) ==
    IF m.sess < s.sessnum \/ m.view < s.view THEN s
    ELSE IF m.sess > s.sessnum THEN DetectedEpochChange(s, m.sess)
    ELSE IF m.view > s.view THEN StartViewChange(s, m.view)
    ELSE IF s.status # "normal" THEN s
    ELSE Continue(s)

-----------------------------------------------------------------------------
(* The log and what is known of missing numbers                            *)

InstallLogEntry(s, entry) ==
    LET new == [st \in Stamps(entry.req) |-> LastOp(s) + 1]
        t == [s EXCEPT !.nextMsgnum = entry.msg + 1, !.log = Append(@, entry),
                       !.txnLookup = @ @@ new]
    IN  IF \E g \in DOMAIN entry.req.ops : entry.req.ops[g] <= s.shardToMsgnum[g]
        THEN Crash(t, "InstallLogEntry")
        ELSE [t EXCEPT !.shardToMsgnum = entry.req.ops @@ @]

InstallTempDrop(s, stamp) ==
    IF stamp \in s.permDrops \cup s.unDrops THEN s
    ELSE [s EXCEPT !.tempDrops = @ \cup {stamp}]

InstallUnDrop(s, req) ==
    IF Stamps(req) \cap s.permDrops # {} \/ Shard(s) \notin DOMAIN req.ops
    THEN Crash(s, "InstallUnDrop")
    ELSE [s EXCEPT !.unDrops = @ \cup Stamps(req), !.tempDrops = @ \ Stamps(req),
                   !.unDropMsgs = @ \cup {req}]

\* The number becomes a NOOP where the log has it.
InstallPermDrop(s, stamp) ==
    LET t == [s EXCEPT !.permDrops = @ \cup {stamp}, !.tempDrops = @ \ {stamp}]
        op == s.txnLookup[stamp]
    IN  IF stamp \in s.unDrops THEN Crash(s, "InstallPermDrop")
        ELSE IF stamp[1] # Shard(s) \/ stamp \notin DOMAIN s.txnLookup THEN t
        ELSE IF op > LastOp(s) THEN Crash(t, "InstallPermDrop")
        ELSE IF s.log[op].req = Noop THEN t
        ELSE IF op <= s.lastExecutedOp THEN Crash(t, "InstallPermDrop")
        ELSE [t EXCEPT !.log[op].req = Noop,
                       !.txnLookup = [x \in DOMAIN @ \ Stamps(s.log[op].req) |-> @[x]]]

InstallPermDrops(s, stamps) ==
    FoldLeft(LAMBDA t, stamp : Then(t, LAMBDA u : InstallPermDrop(u, stamp)),
             s, SetToSeq(stamps))

MergeDropTxns(s, drops) ==
    Then(InstallPermDrops(FoldLeft(LAMBDA t, stamp : InstallTempDrop(t, stamp),
                                   s, SetToSeq(drops.temp)), drops.perm),
         LAMBDA t : FoldLeft(LAMBDA u, req : Then(u, LAMBDA v : InstallUnDrop(v, req)),
                             t, SetToSeq(drops.un)))

CheckTempDrops(s) ==
    Require(s, s.tempDrops \cap (s.permDrops \cup s.unDrops) = {}, "CheckTempDrops")

\* The replica asks the coordinator about the numbers it has both in its log and
\* among those somebody promised not to process; else it goes on with EnterView.
MatchLogWithTempDrops(s) ==
    LET unresolved == {st \in s.tempDrops \cap DOMAIN s.txnLookup :
                          s.log[s.txnLookup[st]].req # Noop}
    IN  IF s.fcQueries # {} THEN Crash(s, "MatchLogWithTempDrops")
        ELSE IF unresolved = {} THEN EnterView(s)
        ELSE SendFCQueries([s EXCEPT !.fcQueries = unresolved])

CompleteFCQuery(s, stamp) ==
    IF ~Active(s, "fcQueries") \/ s.fcQueries = {} THEN s
    ELSE LET t == [s EXCEPT !.fcQueries = @ \ {stamp}] IN
         IF t.fcQueries = {} THEN EnterView(Stop(t, {"fcQueries"})) ELSE t

RewindLog(s, op) ==
    IF op < s.lastCommittedOp THEN Crash(s, "RewindLog")
    ELSE IF op < s.lastExecutedOp THEN Crash(s, "rollback is not implemented")
    ELSE [s EXCEPT !.log = SubSeq(@, 1, op),
                   !.nextMsgnum = IF op = 0 THEN 1 ELSE s.log[op].msg + 1]

-----------------------------------------------------------------------------
(* Requests                                                                *)

\* What follows InstallLogEntry for the last entry.
Answer(s) ==
    LET entry == Last(s.log)
        req == entry.req
    IN  IF req = Noop THEN [s EXCEPT !.permDrops = @ \cup {<<Shard(s), entry.msg, entry.sess>>}]
        ELSE IF AmLeader(s) THEN ExecuteUptoOp(s, LastOp(s))
        ELSE Send(s, Reply(s, req, entry, LastOp(s), FALSE))

\* The next number is taken: req, or Noop if it is dropped; and then those after
\* it that the coordinator has decided.
RECURSIVE ProcessNextOperation(_, _)
ProcessNextOperation(s, req) ==
    LET stamp == NextStamp(s)
        t == Stop([s EXCEPT !.gapReplies = IF Active(s, "gap") THEN {} ELSE @],
                  {"startGap", "gap"})
        new == IF stamp \in s.permDrops THEN Noop ELSE req
    IN  IF stamp \in s.tempDrops
        THEN IF Active(t, "fcTxnInfo") THEN t ELSE QueryFCForLastTxn(t)
        ELSE IF stamp \in s.unDrops /\ new = Noop THEN Crash(t, "ProcessNextOperation")
        ELSE Then(Then(InstallLogEntry(Stop(t, {"fcTxnInfo"}),
                           [view |-> s.view, sess |-> s.sessnum, msg |-> s.nextMsgnum,
                            req |-> new]),
                       LAMBDA u : Answer(u)),
                  LAMBDA u :
                     LET next == NextStamp(u)
                         found == {x \in u.unDropMsgs : next \in Stamps(x)}
                     IN  IF next \in u.permDrops THEN ProcessNextOperation(u, Noop)
                         ELSE IF next \notin u.unDrops THEN u
                         ELSE IF found = {} THEN Crash(u, "ProcessNextOperation")
                         ELSE ProcessNextOperation(u, CHOOSE x \in found : TRUE))

\* TryProcessClientRequest: the replica afterwards, and whether the request is done.
TryProcessClientRequest(s, req) ==
    LET msg == req.ops[Shard(s)]
        timing == {"startGap", "gap", "fcTxnInfo"} \cap s.active # {}
    IN  IF req.sess < s.sessnum THEN [done |-> TRUE, s |-> s]
        ELSE IF req.sess > s.sessnum
        THEN [done |-> FALSE, s |-> DetectedEpochChange(s, req.sess)]
        ELSE IF s.status # "normal" THEN [done |-> FALSE, s |-> s]
        ELSE IF msg < s.nextMsgnum THEN [done |-> TRUE, s |-> s]
        ELSE IF msg > s.nextMsgnum
        THEN [done |-> FALSE, s |-> IF timing THEN s ELSE Start(s, "startGap")]
        ELSE [done |-> TRUE, s |-> ProcessNextOperation(s, req)]

HandleClientRequest(s, m) ==
    With(TryProcessClientRequest(s, m.req), LAMBDA try :
         IF try.done THEN try.s ELSE [try.s EXCEPT !.pendingRequests = @ \cup {m.req}])

\* Runs after every message.
RECURSIVE ProcessPendingRequests(_)
ProcessPendingRequests(s) ==
    IF s.status # "normal" \/ s.pendingRequests = {} THEN s
    ELSE LET g == Shard(s)
             first == CHOOSE p \in s.pendingRequests : \A q \in s.pendingRequests :
                         p.sess < q.sess \/ (p.sess = q.sess /\ p.ops[g] <= q.ops[g])
         IN  With(TryProcessClientRequest(s, first), LAMBDA try :
                  IF try.done
                  THEN ProcessPendingRequests([try.s EXCEPT !.pendingRequests = @ \ {first}])
                  ELSE try.s)

-----------------------------------------------------------------------------
(* Gaps                                                                    *)

HandleGapRequest(s, m) ==
    CheckViewNumAndStatus(s, m, LAMBDA t :
        LET reply(found, req) == [op |-> m.op, found |-> found, req |-> req] @@
                                 Msg(t, "gapReply", {m.from})
        IN  IF m.op <= LastOp(t) THEN Send(t, reply(TRUE, t.log[m.op].req))
            ELSE IF Active(t, "gap") /\ LastOp(t) + 1 = m.op THEN Send(t, reply(FALSE, Noop))
            ELSE t)

HandleGapReply(s, m) ==
    CheckViewNumAndStatus(s, m, LAMBDA t :
        IF m.op # LastOp(t) + 1 THEN t
        ELSE IF m.found THEN ProcessNextOperation(t, m.req)
        ELSE IF ~AmLeader(t) THEN t
        ELSE LET u == [t EXCEPT !.gapReplies = @ \cup {m.from}] IN
             IF Cardinality(u.gapReplies) >= scenario.n - 1 THEN QueryFCForLastTxn(u) ELSE u)

\* The messages of the coordinator about a number of a session.
InSession(s, sess, Continue(_)) ==
    IF s.status = "epochChange" \/ sess < s.sessnum THEN s
    ELSE IF sess > s.sessnum THEN DetectedEpochChange(s, sess)
    ELSE Continue(s)

HandleTxnCheck(s, m) ==
    InSession(s, m.stamp[3], LAMBDA t :
        LET known == m.stamp \in DOMAIN t.txnLookup /\ t.txnLookup[m.stamp] <= LastOp(t)
            req == t.log[t.txnLookup[m.stamp]].req
        IN  IF m.stamp \in t.permDrops \cup t.unDrops THEN t
            ELSE IF ~known
            THEN InstallTempDrop(SendFC(t, "txnTempDrop", [stamp |-> m.stamp]), m.stamp)
            ELSE IF m.stamp \in t.tempDrops \/ req = Noop THEN Crash(t, "HandleTxnCheck")
            ELSE SendFC(t, "txnReceived", [req |-> req]))

HandleTxnFound(s, m) ==
    InSession(s, m.req.sess, LAMBDA t :
        Then(InstallUnDrop(t, m.req), LAMBDA u :
             LET msg == m.req.ops[Shard(u)] IN
             Then(IF u.status = "normal" /\ msg = u.nextMsgnum
                  THEN ProcessNextOperation(u, m.req) ELSE u,
                  LAMBDA v : CompleteFCQuery(v, <<Shard(v), msg, v.sessnum>>))))

HandleDropTxn(s, m) ==
    InSession(s, m.stamp[3], LAMBDA t :
        Then(InstallPermDrop(t, m.stamp), LAMBDA u :
             Then(IF u.status = "normal" /\ m.stamp = NextStamp(u)
                  THEN ProcessNextOperation(u, Noop) ELSE u,
                  LAMBDA v : CompleteFCQuery(v, m.stamp))))

-----------------------------------------------------------------------------
(* View change and state transfer                                          *)

HandleSyncPrepare(s, m) ==
    CheckViewNumAndStatus(s, m, LAMBDA t : Start(t, "leaderSyncHeard"))

HandleViewChangeRequest(s, m) == CheckViewNumAndStatus(s, m, LAMBDA t : t)

Transferring(s) == {"stateTransfer", "fcQueries"} \cap s.active # {}

\* Mutant: the new leader keeps its own log.
MergeDropsOnly(s) ==
    Then(FoldLeft(LAMBDA t, m : Then(t, LAMBDA u : MergeDropTxns(u, m.drops)),
                  s, SetToSeq(s.viewChanges)),
         LAMBDA t : MatchLogWithTempDrops(t))

\* The leader of the view has the VIEWCHANGE of all others: it takes the longest log.
MergeViewChanges(s) ==
    LET longest == CHOOSE x \in s.viewChanges : \A y \in s.viewChanges :
                      x.op > y.op \/ (x.op = y.op /\ x.from[2] <= y.from[2])
    IN  Then(FoldLeft(LAMBDA t, m : Then(t, LAMBDA u : MergeDropTxns(u, m.drops)),
                      s, SetToSeq(s.viewChanges)),
             LAMBDA t : Then(CheckTempDrops(t), LAMBDA u :
                 IF longest.op > LastOp(u)
                 THEN RequestState(u, LastOp(u) + 1, longest.op + 1, longest.from[2], "match")
                 ELSE MatchLogWithTempDrops(u)))

HandleViewChange(s, m) ==
    IF m.sess < s.sessnum \/ m.view < s.view THEN s
    ELSE IF m.sess > s.sessnum THEN DetectedEpochChange(s, m.sess)
    ELSE With(IF m.view > s.view THEN StartViewChange(s, m.view) ELSE s, LAMBDA t :
         IF ~AmLeader(t) THEN Crash(t, "HandleViewChange")
         ELSE IF t.status # "viewChange" THEN Send(t, StartViewMsg(t, {m.from}))
         ELSE IF Transferring(t) THEN t
         ELSE With([t EXCEPT !.viewChanges = Store(@, m)], LAMBDA u :
              IF Cardinality(u.viewChanges) >= scenario.n - 1 THEN MergeViewChanges(u) ELSE u))

HandleStartView(s, m) ==
    IF m.sess < s.sessnum \/ m.view < s.view THEN s
    ELSE IF m.sess > s.sessnum THEN DetectedEpochChange(s, m.sess)
    ELSE IF m.view = s.view /\ s.status # "viewChange" THEN s
    ELSE IF Leader(m.view) = Replica(s) THEN Crash(s, "HandleStartView")
    ELSE IF Transferring(s) THEN s
    ELSE Then(Then(MergeDropTxns(s, m.drops), LAMBDA t : CheckTempDrops(t)), LAMBDA t :
         LET u == [ClearTimeoutAndQuorums(t) EXCEPT !.view = m.view, !.status = "viewChange"] IN
         IF m.op > LastOp(u) THEN RequestState(u, LastOp(u) + 1, m.op + 1, Leader(m.view), "follow")
         ELSE MatchLogWithTempDrops([u EXCEPT !.lastCommittedOp = m.op]))

HandleStateTransferRequest(s, m) ==
    IF m.sess # s.sessnum \/ m.view # s.view \/ m.begin > LastOp(s) \/ m.end > LastOp(s) + 1
    THEN s
    ELSE Send(s, [begin |-> m.begin, end |-> m.end,
                  entries |-> SubSeq(s.log, m.begin, m.end - 1)] @@
                 Msg(s, "stateTransferReply", {m.from}))

\* An entry of another replica's log; a number already dropped becomes a NOOP.
InstallTransferred(s, entry) ==
    IF entry.msg # s.nextMsgnum THEN Crash(s, "HandleStateTransferReply")
    ELSE InstallLogEntry(s, IF <<Shard(s), entry.msg, entry.sess>> \in s.permDrops
                            THEN [entry EXCEPT !.req = Noop] ELSE entry)

HandleStateTransferReply(s, m) ==
    IF m.sess # s.sessnum \/ m.view # s.view \/ m.end - 1 <= LastOp(s) THEN s
    ELSE Then(FoldLeft(LAMBDA t, k : Then(t, LAMBDA u : InstallTransferred(u, m.entries[k])),
                       s, Interval(LastOp(s) + 2 - m.begin, Len(m.entries))),
              LAMBDA t :
                 IF ~Active(t, "stateTransfer") \/ m.end < t.pendingST.end THEN t
                 ELSE LET u == Stop(t, {"stateTransfer"}) IN
                      IF t.pendingST.then = "epoch" THEN EnterEpoch(u)
                      ELSE MatchLogWithTempDrops(
                             IF t.pendingST.then = "match" THEN u
                             ELSE [u EXCEPT !.lastCommittedOp = t.pendingST.end - 1]))

-----------------------------------------------------------------------------
(* Epoch change at a replica                                               *)

HandleEpochChange(s, m) ==
    IF m.new < s.sessnum THEN s
    ELSE LET t == Stop(s, {"epochChangeReq"})
             u == IF m.new > s.sessnum THEN StartEpochChange(t, m.new) ELSE t
         IN  IF u.status # "epochChange" THEN u ELSE SendEpochChangeAck(u)

\* The replica with the longest log of its shard learns of numbers that only other
\* shards have.
HandleECStateTransfer(s, m) ==
    IF m.new > s.sessnum THEN Crash(s, "HandleECStateTransfer")
    ELSE IF s.status # "epochChange" \/ m.new < s.sessnum THEN s
    ELSE LET t == Stop(s, {"epochChangeAck"}) IN
         IF t.ecRequests # {} THEN t
         ELSE Then(InstallPermDrops(t, m.perm), LAMBDA u :
              LET missing == {l \in m.latest : l.msg >= u.nextMsgnum} IN
              IF u.lastNormalSessnum # m.lastNormal THEN Crash(u, "HandleECStateTransfer")
              ELSE IF missing = {} THEN CompleteECStateTransfer(u)
              ELSE SendEpochChangeStateTransfer([u EXCEPT !.ecRequests =
                     {[shard |-> l.shard, replica |-> l.replica, lastNormal |-> m.lastNormal,
                       begin |-> u.nextMsgnum, end |-> l.msg + 1] : l \in missing}]))

HandleECStateTransferRequest(s, m) ==
    LET stamp(k) == <<m.from[1], k, m.lastNormal>>
        known == {k \in m.begin .. m.end - 1 : stamp(k) \in DOMAIN s.txnLookup}
    IN  IF m.sess < s.sessnum \/ s.status # "epochChange" THEN s
        ELSE IF m.sess # s.sessnum \/ s.lastNormalSessnum # m.lastNormal \/ m.end - 1 \notin known
        THEN Crash(s, "HandleECStateTransferRequest")
        ELSE Send(s, [lastNormal |-> m.lastNormal,
                      reqs |-> {s.log[s.txnLookup[stamp(k)]].req : k \in known}] @@
                     Msg(s, "ecStateTransferReply", {m.from}))

\* Up to number msg the log is filled with NOOPs, which other shards may replace.
FillUpTo(s, msg) ==
    LET entry(k) == [view |-> s.view, sess |-> s.lastNormalSessnum, msg |-> k, req |-> Noop] IN
    IF msg < s.nextMsgnum THEN s
    ELSE [s EXCEPT !.log = @ \o [i \in 1 .. msg - s.nextMsgnum + 1 |-> entry(s.nextMsgnum + i - 1)],
                   !.nextMsgnum = msg + 1,
                   !.ecDrops = @ \cup {<<Shard(s), k, s.lastNormalSessnum>> :
                                          k \in s.nextMsgnum .. msg}]

InstallFromShard(s, req) ==
    LET msg == req.ops[Shard(s)]
        stamp == <<Shard(s), msg, s.lastNormalSessnum>>
        Place(t, op) == IF stamp \in s.permDrops \/ t.log[op].req # Noop THEN s
                        ELSE [t EXCEPT !.log[op].req = req, !.ecDrops = @ \ {stamp}]
    IN  With(FillUpTo(s, msg), LAMBDA t : Place(t, LastOp(t) + 1 - (t.nextMsgnum - msg)))

HandleECStateTransferReply(s, m) ==
    IF m.sess # s.sessnum \/ s.status # "epochChange" THEN s
    ELSE IF m.lastNormal # s.lastNormalSessnum THEN Crash(s, "HandleECStateTransferReply")
    ELSE IF ~\E q \in s.ecRequests : q.shard = m.from[1] THEN s
    ELSE LET Below(x, y) == x.ops[Shard(s)] < y.ops[Shard(s)]
             Rest(u) == [u EXCEPT !.ecRequests = {q \in @ : q.shard # m.from[1]}]
         IN  With(Rest(FoldLeft(LAMBDA t, req : InstallFromShard(t, req), s,
                                SetToSortSeq(m.reqs, Below))),
                  LAMBDA u : IF u.ecRequests = {} THEN CompleteECStateTransfer(u) ELSE u)

\* A replica other than the one with the merged log.
CatchUp(s, m) ==
    Then(IF s.lastNormalSessnum < m.lastNormal THEN RewindLog(s, s.lastCommittedOp)
         ELSE IF s.lastNormalSessnum > m.lastNormal THEN Crash(s, "HandleStartEpoch")
         ELSE IF LastOp(s) > m.op THEN RewindLog(s, m.op) ELSE s,
         LAMBDA t :
            IF s.lastNormalSessnum < m.lastNormal \/ LastOp(s) < m.op
            THEN RequestState([ClearTimeoutAndQuorums(t) EXCEPT !.status = "epochChange"],
                              LastOp(t) + 1, m.op + 1, m.replica, "epoch")
            ELSE EnterEpoch(t))

HandleStartEpoch(s, m) ==
    IF m.new < s.sessnum \/ (m.new = s.sessnum /\ s.status # "epochChange") THEN s
    ELSE IF m.view < s.view THEN Crash(s, "HandleStartEpoch")
    ELSE LET t == [Stop(s, {"epochChangeAck"}) EXCEPT !.view = m.view, !.sessnum = m.new] IN
         IF Replica(s) = m.replica THEN EnterEpoch(t)
         ELSE Then(InstallPermDrops(t, m.perm), LAMBDA u : CatchUp(u, m))

-----------------------------------------------------------------------------
(* The failure coordinator                                                 *)

SendAll(f, m) == Send(f, m @@ [to |-> Ids])

\* SendResult: only the shard of the stamp hears of it.
SendResult(f, stamp) ==
    LET req == f.results[stamp]
        to == Group(stamp[1])
    IN  Send(f, IF req = Noop THEN [type |-> "dropTxn", to |-> to, stamp |-> stamp]
                ELSE [type |-> "txnFound", to |-> to, req |-> req])

FCNormal(f, sess) == f.status = "normal" /\ f.epochNum = sess

HandleTxnInfoReq(f, m) ==
    IF ~FCNormal(f, m.stamp[3]) THEN f
    ELSE SendAll(IF m.stamp \in DOMAIN f.results THEN SendResult(f, m.stamp) ELSE f,
                 [type |-> "txnCheck", stamp |-> m.stamp])

HandleTxnReceived(f, m) ==
    LET stamps == Stamps(m.req)
        decided == DOMAIN f.results
        fate == IF \E st \in stamps \cap decided : f.results[st] = Noop THEN Noop ELSE m.req
    IN  IF ~FCNormal(f, m.req.sess) THEN f
        ELSE FoldLeft(LAMBDA g, stamp : SendResult(g, stamp),
                      [f EXCEPT !.dropRecords = {d \in @ : d.stamp \notin stamps},
                                !.results = @ @@ [x \in stamps |-> fate]],
                      SetToSeq(stamps \ decided))

AddDropRecord(f, d) ==
    LET old == {x \in f.dropRecords : x.stamp = d.stamp /\ x.shard = d.shard} IN
    IF \E x \in old : x.view > d.view THEN f
    ELSE [f EXCEPT !.dropRecords = {x \in @ : x \in old => x.view = d.view} \cup {d}]

\* A quorum of every shard, with its leader, promises not to process the number.
IsDropped(f, stamp) ==
    \A g \in Shards :
        LET records == {x \in f.dropRecords : x.stamp = stamp /\ x.shard = g} IN
        /\ Cardinality(records) >= QuorumSize
        /\ \E x \in records : x.replica = Leader(x.view)

HandleTxnTempDropped(f, m) ==
    LET g == AddDropRecord(f, [stamp |-> m.stamp, shard |-> m.from[1], replica |-> m.from[2],
                               view |-> m.view])
    IN  IF ~FCNormal(f, m.stamp[3]) \/ m.stamp \in DOMAIN f.results THEN f
        ELSE IF ~IsDropped(g, m.stamp) THEN g
        ELSE SendResult([g EXCEPT !.dropped = @ \cup {m.stamp},
                                  !.results = (m.stamp :> Noop) @@ @], m.stamp)

\* The last StartEpoch of a shard once more, to one replica.
ResendStartEpoch(f, id) ==
    IF id[1] \notin DOMAIN f.startEpochs THEN Crash(f, "ResendStartEpoch")
    ELSE Send(f, [f.startEpochs[id[1]] EXCEPT !.to = {id}])

HandleEpochChangeReq(f, m) ==
    IF f.epochNum >= m.new
    THEN IF f.lastNormalEpoch >= m.new THEN ResendStartEpoch(f, m.from) ELSE f
    ELSE SendAll([f EXCEPT !.status = "epochChange", !.epochNum = m.new, !.acks = {},
                           !.latest = << >>, !.views = << >>, !.pendingSTs = {}],
                 [type |-> "epochChange", new |-> m.new])

StartEpoch(f) ==
    LET msg(g) == [type |-> "startEpoch", to |-> Group(g), new |-> f.epochNum,
                   view |-> f.views[g], lastNormal |-> f.lastNormalEpoch,
                   perm |-> {st \in f.dropped : st[1] = g},
                   replica |-> f.latest[g].replica, op |-> f.latest[g].op]
    IN  [f EXCEPT !.out = @ \cup {msg(g) : g \in Shards}, !.startEpochs = [g \in Shards |-> msg(g)],
                  !.results = << >>, !.dropRecords = {}, !.dropped = {}, !.acks = {},
                  !.lastNormalEpoch = f.epochNum, !.status = "normal"]

\* What the replica with the longest log of shard g still needs from other shards.
StateTransferFor(f, g) ==
    LET mine == f.latest[g]
        latest == {[shard |-> h, replica |-> f.latest[h].replica, msg |-> f.latest[h].nums[g]] :
                      h \in {x \in Shards : f.latest[x].op # 0}}
    IN  [type |-> "ecStateTransfer", to |-> {<<g, mine.replica>>}, new |-> f.epochNum,
         lastNormal |-> f.lastNormalEpoch, perm |-> {st \in f.dropped : st[1] = g},
         latest |-> {l \in latest : l.msg > mine.nums[g]}]

\* A quorum of every shard has stopped.  LatestMsgRecord() has no number of any shard:
\* msg_nums.at throws if all the logs of a shard are empty.
CollectLogs(f) ==
    IF \E g \in Shards : g \notin DOMAIN f.latest \/ f.latest[g].op = 0
    THEN Crash(f, "HandleEpochChangeAck")
    ELSE LET needed == {m \in {StateTransferFor(f, g) : g \in Shards} :
                           m.perm # {} \/ m.latest # {}}
         IN  IF needed = {} THEN StartEpoch(f)
             ELSE [f EXCEPT !.pendingSTs = needed, !.out = @ \cup needed, !.status = "pending"]

TakeAck(f, m) ==
    LET g == m.from[1]
        old == IF g \in DOMAIN f.latest THEN f.latest[g]
               ELSE [replica |-> 0, op |-> 0, nums |-> << >>]
        new == IF m.op > old.op THEN [replica |-> m.from[2], op |-> m.op, nums |-> m.nums] ELSE old
        t == [f EXCEPT !.views = IF g \in DOMAIN @ /\ @[g] >= m.view THEN @
                                 ELSE (g :> m.view) @@ @]
    IN  IF m.lastNormal > f.lastNormalEpoch THEN Crash(t, "HandleEpochChangeAck")
        ELSE [t EXCEPT !.latest = IF m.lastNormal < f.lastNormalEpoch THEN @ ELSE (g :> new) @@ @,
                       !.acks = @ \cup {m.from}]

HandleEpochChangeAck(f, m) ==
    IF f.status = "normal" \/ f.epochNum # m.sess
    THEN IF f.epochNum < m.sess THEN Crash(f, "HandleEpochChangeAck")
         ELSE ResendStartEpoch(f, m.from)
    ELSE IF f.status = "pending"
    THEN [f EXCEPT !.out = @ \cup {x \in f.pendingSTs : x.to = {m.from}}]
    ELSE Then(TakeAck(f, m), LAMBDA g :
              IF \A h \in Shards : Cardinality({a \in g.acks : a[1] = h}) >= QuorumSize
              THEN CollectLogs(g) ELSE g)

HandleECStateTransferAck(f, m) ==
    LET g == m.from[1]
        left == {x \in f.pendingSTs : x.to # {m.from}}
        t == [f EXCEPT !.latest[g].op = m.op, !.dropped = @ \cup m.drops, !.pendingSTs = left]
    IN  IF f.status # "pending" \/ m.sess # f.epochNum THEN f
        ELSE IF f.latest[g].replica # m.from[2] \/ m.op < f.latest[g].op
        THEN Crash(f, "HandleECStateTransferAck")
        ELSE IF left = {} THEN StartEpoch(t) ELSE t

-----------------------------------------------------------------------------
Fresh(id) ==
    [id |-> id, status |-> "normal", fault |-> "", out |-> {}, log |-> << >>,
     view |-> 0, sessnum |-> 0, nextMsgnum |-> 1, lastNormalSessnum |-> 0,
     lastCommittedOp |-> 0, lastExecutedOp |-> 0, txnLookup |-> << >>,
     shardToMsgnum |-> [g \in Shards |-> 0],
     clientTable |-> [c \in Clients |-> [id |-> 0, reply |-> NoReply]],
     pendingRequests |-> {}, locks |-> << >>, blocked |-> << >>, unblockedQueue |-> {},
     gapReplies |-> {}, viewChanges |-> {}, tempDrops |-> {}, permDrops |-> {},
     unDrops |-> {}, unDropMsgs |-> {}, fcQueries |-> {},
     pendingST |-> [begin |-> 0, end |-> 0, replica |-> 0, then |-> "match"],
     ecRequests |-> {}, ecDrops |-> {},
     active |-> {IF Leader(0) = id[2] THEN "sync" ELSE "leaderSyncHeard"}]

FreshFC ==
    [status |-> "normal", fault |-> "", out |-> {}, results |-> << >>, dropRecords |-> {},
     dropped |-> {}, epochNum |-> 0, lastNormalEpoch |-> 0, acks |-> {}, latest |-> << >>,
     views |-> << >>, pendingSTs |-> {}, startEpochs |-> << >>]

FreshClient == [lastReqId |-> 0, type |-> "", pending |-> FALSE, commit |-> TRUE,
                replied |-> {}, done |-> {}]

Init ==
    /\ scenario \in Scenarios
    /\ server = [id \in Ids |-> Fresh(id)]
    /\ fc = FreshFC
    /\ seq = [i \in scenario.sequencers |-> [g \in Shards |-> 0]]
    /\ client = [c \in Clients |-> FreshClient]
    /\ msgs = {}

\* May m still change something at replica id?  What is of an older view or session
\* does not, nor what the replica or the one that asked has already.
Decided(s, stamps) == stamps \subseteq s.permDrops \cup s.unDrops
Known(s, req) == req.sess < s.sessnum
                 \/ (req.sess = s.sessnum /\ s.status = "normal" /\ req.ops[Shard(s)] < s.nextMsgnum)
Matters(m, id, servers) ==
    LET s == servers[id] IN
    /\ s.status # "crashed" /\ id \notin scenario.down /\ <<m.type, id>> \notin scenario.lost
    /\ "sess" \in DOMAIN m /\ "view" \in DOMAIN m =>
          /\ m.sess >= s.sessnum /\ m.view >= s.view
          /\ m.type \in {"syncPrepare", "viewChangeRequest"} \/ (m.type = "startView" /\ s.status = "normal")
             => m.sess # s.sessnum \/ m.view # s.view
    /\ CASE m.type = "request" -> <<m.req.client, id>> \notin scenario.lost /\ ~Known(s, m.req)
         [] m.type \in {"txnCheck", "dropTxn"} ->
              m.stamp[3] >= s.sessnum /\ ~(m.stamp[3] = s.sessnum /\ Decided(s, {m.stamp}))
         [] m.type = "txnFound" ->
              m.req.sess >= s.sessnum /\ ~(Known(s, m.req) /\ Decided(s, Stamps(m.req)))
         [] m.type \in {"epochChange", "ecStateTransfer", "startEpoch"} -> m.new >= s.sessnum
         [] m.type = "gapReply" -> m.op > LastOp(s)
         [] m.type = "stateTransferReply" -> m.end - 1 > LastOp(s)
         [] m.type = "stateTransferRequest" -> m.end - 1 > LastOp(servers[m.from])
         [] m.type = "viewChange" -> servers[m.from].status # "normal"
         [] m.type = "gapRequest" ->
              \/ m.op > LastOp(servers[m.from]) \/ m.view > s.view \/ m.sess > s.sessnum
         [] OTHER -> TRUE

\* The same for the coordinator.
MattersFC(m, f) ==
    /\ f.status # "crashed" /\ <<m.type, FC>> \notin scenario.lost
    /\ CASE m.type = "txnTempDrop" -> m.stamp \notin DOMAIN f.results
         [] m.type = "txnReceived" -> ~Stamps(m.req) \subseteq DOMAIN f.results
         [] OTHER -> TRUE

Effective(sent, servers, coordinator, clients) ==
    {m \in {[x EXCEPT !.to = {id \in @ : IF id = FC THEN MattersFC(x, coordinator)
                                         ELSE Matters(x, id, servers)}] : x \in sent} :
        IF m.type = "reply" THEN clients[m.client].pending /\ clients[m.client].lastReqId = m.id
        ELSE m.to # {}}

Taken(m, id) == {[x EXCEPT !.to = IF x = m THEN @ \ {id} ELSE @] : x \in msgs}

Step(id, t, before) ==
    /\ server' = [server EXCEPT ![id] = [t EXCEPT !.out = {}]]
    /\ msgs' = Effective(before \cup t.out, server', fc, client)
    /\ UNCHANGED <<fc, seq, client, scenario>>

Receive(type, Handler(_, _)) ==
    \E m \in {x \in msgs : x.type = type} : \E id \in m.to :
        Step(id, Then(Handler(server[id], m), LAMBDA t : ProcessPendingRequests(t)), Taken(m, id))

ReceiveRequest == Receive("request", HandleClientRequest)
ReceiveGapRequest == Receive("gapRequest", HandleGapRequest)
ReceiveGapReply == Receive("gapReply", HandleGapReply)
ReceiveTxnCheck == Receive("txnCheck", HandleTxnCheck)
ReceiveTxnFound == Receive("txnFound", HandleTxnFound)
ReceiveDropTxn == Receive("dropTxn", HandleDropTxn)
ReceiveSyncPrepare == Receive("syncPrepare", HandleSyncPrepare)
ReceiveViewChangeRequest == Receive("viewChangeRequest", HandleViewChangeRequest)
ReceiveViewChange == Receive("viewChange", HandleViewChange)
ReceiveStartView == Receive("startView", HandleStartView)
ReceiveStateTransferRequest == Receive("stateTransferRequest", HandleStateTransferRequest)
ReceiveStateTransferReply == Receive("stateTransferReply", HandleStateTransferReply)
ReceiveEpochChange == Receive("epochChange", HandleEpochChange)
ReceiveECStateTransfer == Receive("ecStateTransfer", HandleECStateTransfer)
ReceiveECStateTransferRequest == Receive("ecStateTransferRequest", HandleECStateTransferRequest)
ReceiveECStateTransferReply == Receive("ecStateTransferReply", HandleECStateTransferReply)
ReceiveStartEpoch == Receive("startEpoch", HandleStartEpoch)

ReceiveFC(type, Handler(_, _)) ==
    \E m \in {x \in msgs : x.type = type /\ FC \in x.to} :
        LET f == Handler(fc, m) IN
        /\ fc.status # "crashed"
        /\ fc' = [f EXCEPT !.out = {}]
        /\ msgs' = Effective(Taken(m, FC) \cup f.out, server, fc', client)
        /\ UNCHANGED <<server, seq, client, scenario>>

\* ReplicaUpcall at the coordinator's leader.
ReplicaUpcall ==
    \/ ReceiveFC("txnInfoReq", HandleTxnInfoReq)
    \/ ReceiveFC("txnReceived", HandleTxnReceived)
    \/ ReceiveFC("txnTempDrop", HandleTxnTempDropped)
    \/ ReceiveFC("epochChangeReq", HandleEpochChangeReq)
    \/ ReceiveFC("epochChangeAck", HandleEpochChangeAck)
    \/ ReceiveFC("ecStateTransferAck", HandleECStateTransferAck)

-----------------------------------------------------------------------------
(* Timers                                                                  *)

Expire(name, id, Handler(_)) ==
    /\ name \in server[id].active /\ <<name, id>> \in scenario.timers
    /\ server[id].status # "crashed" /\ id \notin scenario.down
    /\ Step(id, Handler(server[id]), msgs)
    /\ server' # server \/ msgs' # msgs

GapRequestTimeout(id) ==
    Expire("gap", id, LAMBDA s : IF AmLeader(s) THEN QueryFCForLastTxn(s) ELSE SendGapRequest(s))
StartGapRequestTimeout(id) ==
    Expire("startGap", id, LAMBDA s : SendGapRequest(Stop(s, {"startGap"})))
FCTxnInfoRequestTimeout(id) == Expire("fcTxnInfo", id, LAMBDA s : QueryFCForLastTxn(s))
SendSyncPrepare(s) ==
    IF ~AmLeader(s) THEN Crash(s, "SendSyncPrepare") ELSE Send(s, Msg(s, "syncPrepare", Others(s)))
SyncTimeout(id) == Expire("sync", id, LAMBDA s : SendSyncPrepare(s))
LeaderSyncHeardTimeout(id) ==
    Expire("leaderSyncHeard", id, LAMBDA s : StartViewChange(s, s.view + 1))
ViewChangeTimeout(id) == Expire("viewChange", id, LAMBDA s : SendViewChange(s))
StateTransferTimeout(id) == Expire("stateTransfer", id, LAMBDA s : SendStateTransferRequest(s))
FCQueriesTimeout(id) == Expire("fcQueries", id, LAMBDA s : SendFCQueries(s))
EpochChangeReqTimeout(id) == Expire("epochChangeReq", id, LAMBDA s : SendEpochChangeReq(s))
EpochChangeAckTimeout(id) == Expire("epochChangeAck", id, LAMBDA s : SendEpochChangeAck(s))
ECStateTransferTimeout(id) ==
    Expire("ecStateTransfer", id, LAMBDA s : SendEpochChangeStateTransfer(s))
ECStateTransferAckTimeout(id) ==
    Expire("ecStateTransferAck", id, LAMBDA s : SendEpochChangeStateTransferAck(s))

-----------------------------------------------------------------------------
(* The client and the sequencer                                            *)

\* The sequencer's next number in each of the groups.
Stamp(counts, groups) == [g \in DOMAIN counts |-> IF g \in groups THEN counts[g] + 1 ELSE counts[g]]

\* The request of client c, stamped by sequencer i.
Stamped(c, k, i, nums) ==
    LET groups == scenario.plan[c].groups IN
    [type |-> "request", to |-> groups \X Replicas,
     req |-> [client |-> c, id |-> k.lastReqId, txn |-> c, type |-> k.type, sess |-> i,
              ops |-> [g \in groups |-> nums[g]]]]

\* SendRequest by the client k, and the sequencer's ReceiveMessage.  The next sequencer
\* is used only once every log has an entry: see CollectLogs.
SendRequest(c, k) ==
    \E i \in scenario.sequencers :
        LET nums == Stamp(seq[i], scenario.plan[c].groups) IN
        /\ i > 0 => \A id \in Ids : LastOp(server[id]) > 0
        /\ \A g \in Shards : nums[g] <= scenario.sends[i]
        /\ seq' = [seq EXCEPT ![i] = nums]
        /\ client' = [client EXCEPT ![c] = k]
        /\ msgs' = Effective(msgs \cup {Stamped(c, k, i, nums)}, server, fc, client')
        /\ UNCHANGED <<server, fc, scenario>>

InvokeTxn(k, type) ==
    [k EXCEPT !.lastReqId = @ + 1, !.type = type, !.pending = TRUE, !.commit = TRUE,
              !.replied = {}]

Invoke(c) ==
    /\ c \in DOMAIN scenario.plan /\ client[c].lastReqId = 0
    /\ SendRequest(c, InvokeTxn(client[c], scenario.plan[c].type))

RequestTimeout(c) ==
    /\ client[c].pending /\ <<"request", c>> \in scenario.timers
    /\ SendRequest(c, client[c])

\* The answers of a shard to the pending request under one number: a quorum in one
\* view and session, with that view's leader.
MatchingReplies(c, g) ==
    {quorum \in SUBSET {m \in msgs : m.type = "reply" /\ m.client = c /\ m.shard = g
                                     /\ m.id = client[c].lastReqId} :
        /\ Cardinality({m.replica : m \in quorum}) >= QuorumSize
        /\ \A m1, m2 \in quorum : /\ m1.op = m2.op /\ m1.view = m2.view /\ m1.sess = m2.sess
                                  /\ m1.replica = m2.replica => m1 = m2
        /\ \E m \in quorum : m.replica = Leader(m.view)}

\* HandleReply: the client has the answer of one more shard; after the last one it
\* completes, or goes on to the second phase of a general transaction.
HandleReply(c, g) ==
    \E quorum \in MatchingReplies(c, g) :
        LET answer == CHOOSE m \in quorum : m.replica = Leader(m.view)
            k == [client[c] EXCEPT !.replied = @ \cup {g},
                    !.done = @ \cup {[id |-> answer.id, shard |-> g, op |-> answer.op,
                                      view |-> answer.view, sess |-> answer.sess]},
                    !.commit = @ /\ (client[c].type = "PREPARE" => answer.commit)]
        IN  /\ client[c].pending /\ g \notin client[c].replied
            /\ IF k.replied # scenario.plan[c].groups \/ k.type # "PREPARE"
               THEN /\ client' = [client EXCEPT ![c] =
                          [k EXCEPT !.pending = k.replied # scenario.plan[c].groups]]
                    /\ msgs' = Effective(msgs, server, fc, client')
                    /\ UNCHANGED <<server, fc, seq, scenario>>
               ELSE SendRequest(c, InvokeTxn(k, IF k.commit THEN "COMMIT" ELSE "ABORT"))

Next ==
    \/ ReceiveRequest \/ ReceiveGapRequest \/ ReceiveGapReply
    \/ ReceiveTxnCheck \/ ReceiveTxnFound \/ ReceiveDropTxn
    \/ ReceiveSyncPrepare \/ ReceiveViewChangeRequest \/ ReceiveViewChange \/ ReceiveStartView
    \/ ReceiveStateTransferRequest \/ ReceiveStateTransferReply
    \/ ReceiveEpochChange \/ ReceiveECStateTransfer \/ ReceiveECStateTransferRequest
    \/ ReceiveECStateTransferReply \/ ReceiveStartEpoch
    \/ ReplicaUpcall
    \/ \E id \in Ids :
          \/ GapRequestTimeout(id) \/ StartGapRequestTimeout(id) \/ FCTxnInfoRequestTimeout(id)
          \/ SyncTimeout(id) \/ LeaderSyncHeardTimeout(id) \/ ViewChangeTimeout(id)
          \/ StateTransferTimeout(id) \/ FCQueriesTimeout(id) \/ EpochChangeReqTimeout(id)
          \/ EpochChangeAckTimeout(id) \/ ECStateTransferTimeout(id)
          \/ ECStateTransferAckTimeout(id)
    \/ \E c \in Clients : Invoke(c) \/ RequestTimeout(c)
    \/ \E c \in Clients : \E g \in Shards : HandleReply(c, g)

Spec == Init /\ [][Next]_vars

-----------------------------------------------------------------------------
(* Properties                                                              *)

\* An entry that the leader of a shard has executed, or that a view or epoch change
\* has committed, is the same in every replica that has committed or executed it.
Stable(s) == Max({s.lastExecutedOp, s.lastCommittedOp})
ShardAgrees ==
    \A a, b \in Ids : a[1] = b[1] =>
        \A op \in 1 .. Min({Stable(server[a]), Stable(server[b])}) :
            op <= LastOp(server[a]) /\ op <= LastOp(server[b]) =>
                server[a].log[op].req = server[b].log[op].req

\* What a client has been answered by a shard stays in the log of the shard's leader
\* of that view, and of every later view and epoch, in the same place.
CompletedIsKept ==
    \A c \in Clients : \A d \in client[c].done : \A id \in Group(d.shard) :
        LET s == server[id] IN
        /\ s.status = "normal" /\ AmLeader(s)
        /\ s.sessnum >= d.sess /\ s.view >= d.view
        => /\ d.op <= LastOp(s)
           /\ s.log[d.op].req.client = c /\ s.log[d.op].req.id = d.id

\* A number that is dropped at one replica is not found at another, and no replica of
\* its shard executes what was sent under it.
FateAgrees ==
    \A a, b \in Ids : a[1] = b[1] /\ server[a].sessnum = server[b].sessnum =>
        \A st \in server[a].permDrops :
            /\ st \notin server[b].unDrops
            /\ \A op \in 1 .. Min({server[b].lastExecutedOp, LastOp(server[b])}) :
                  st \notin Stamps(server[b].log[op].req)

\* Two transactions that two shards have in common are executed first in one order in
\* both.
Executes(s, i, c) == i <= Min({s.lastExecutedOp, LastOp(s)}) /\ s.log[i].req.client = c
Before(s, c1, c2) ==
    \E i, j \in 1 .. s.lastExecutedOp :
        /\ i < j /\ Executes(s, i, c1) /\ Executes(s, j, c2)
        /\ \A k \in 1 .. i : ~Executes(s, k, c2)
Serializable ==
    \A a, b \in Ids : \A c1, c2 \in Clients :
        ~(Before(server[a], c1, c2) /\ Before(server[b], c2, c1))

\* No assertion fails and nothing panics, but for the rollback that the code says it
\* does not have, and for the assertion of HandleTxnCheck, which a new leader that
\* asks the coordinator about a promise of another replica meets itself.
NoFault ==
    /\ \A id \in Ids : server[id].status = "crashed" =>
          server[id].fault \in {"rollback is not implemented", "HandleTxnCheck"}
    /\ fc.status # "crashed"

\* "Promise not to process it until hearing back from FC": a replica that has promised
\* the coordinator to drop a number does not execute what was sent under it, so that no
\* shard executes a transaction that another has dropped.
Atomic ==
    \A a, b \in Ids : \A st \in server[a].permDrops :
        \A op \in 1 .. Min({server[b].lastExecutedOp, LastOp(server[b])}) :
            st \notin Stamps(server[b].log[op].req)
=============================================================================
