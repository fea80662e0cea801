------------------------------ MODULE Granola ------------------------------
(***************************************************************************)
(* The Granola server and client, transaction/granola.  Each shard is a    *)
(* leader that replicates its log to the other replicas of the shard; the  *)
(* leaders of a transaction's shards exchange votes, and decide.  In       *)
(* locking mode a shard prepares a transaction when it is committed in the *)
(* log and votes whether it got all locks; otherwise it executes           *)
(* independent transactions in timestamp order.  The leader never changes, *)
(* and a replica fills a gap in its log with executed entries.             *)
(*                                                                         *)
(* localClock grows with lastOp, so that the proposed timestamp of an      *)
(* entry is its number, and the final timestamp is the proposed one.  A    *)
(* client invokes one transaction, which is identified with it.  Clients'  *)
(* addresses are left out as in Spanner.                                   *)
(***************************************************************************)
EXTENDS Handlers, Serial

CONSTANTS
  MAX_RETRIES,  \* how often a client tries a transaction (5 in client.h)
  Scenarios     \* what may happen: [n, locking, plan, after, timers, down, lost, urgent]:
                \* replicas of a shard; the mode; plan[c][g]: what c reads and writes at
                \* shard g; after[c]: those that end before c begins; timers <<name, id>>
                \* that may expire; replicas that are down; <<x, id>> if no message of
                \* type x reaches id; the types that arrive before anything else happens

Clients == Txns

VARIABLES
  server,     \* server[id]: the fields of the GranolaServer object of a replica
  client,     \* client[c]: the fields of the GranolaClient object
  msgs,       \* the messages sent, each with those that may still receive it
  scenario    \* the member of Scenarios of this behaviour

vars == <<server, client, msgs, scenario>>

Groups(c) == DOMAIN scenario.plan[c]
Planned == DOMAIN scenario.plan
Shards == UNION {Groups(c) : c \in Planned}
Ids == Shards \X (0 .. scenario.n - 1)
QuorumSize == (scenario.n - 1) \div 2 + 1

Leader == 0
Shard(s) == s.id[1]
AmLeader(s) == s.id[2] = Leader
Others(s) == {id \in Ids : id[1] = Shard(s) /\ id # s.id}
LeaderId(s) == <<Shard(s), Leader>>
Locking == scenario.locking

LastOp(s) == Len(s.log)
MultiShard(req) == Cardinality(req.shards) > 1
OtherShards(s, req) == req.shards \ {Shard(s)}

\* A log entry: a transaction of one shard is decided from the start.  The copy
\* constructor of TxnData leaves status uninitialized: it is set when a locking server
\* commits the entry, and a server that does not lock sends it, but reads no vote's.
Entry(req) == [state |-> "PREPARED", req |-> req, decided |-> ~MultiShard(req), status |-> "any"]
NoRequest == [client |-> Nobody, id |-> 0, shards |-> {}, ops |-> NoOps]
Hole == [state |-> "EXECUTED", req |-> NoRequest, decided |-> FALSE, status |-> "any"]

\* The log up to number op, with holes for what is missing.
FillHoles(s, op) == s.log \o [i \in 1 .. op - LastOp(s) |-> Hole]

-----------------------------------------------------------------------------
(* Execution                                                               *)

UpdateClientTable(s, req) ==
    Then(Require(s, s.clientTable[req.client].id <= req.id, "UpdateClientTable"), LAMBDA t :
         IF t.clientTable[req.client].id = req.id THEN t
         ELSE [t EXCEPT !.clientTable[req.client] =
                  [id |-> req.id, replied |-> FALSE, reply |-> << >>]])

Reply(s, req, status, reads) ==
    [type |-> "reply", to |-> {req.client}, id |-> req.id, shard |-> Shard(s),
     status |-> status, reads |-> reads]

\* The client table and the reply after the entry is executed.
Answer(s, req, reply) ==
    [s EXCEPT !.clientTable[req.client] = [id |-> req.id, replied |-> TRUE, reply |-> reply],
              !.out = IF AmLeader(s) THEN @ \cup {reply} ELSE @]

\* In locking mode: the decision is carried out, except that a conflict leaves the
\* transaction to be tried again with the locks that it has.
ExecuteTxn(s, op) ==
    LET entry == s.log[op]
        req == entry.req
        Carried(t) == [t EXCEPT !.log[op].state = "EXECUTED"]
        CarryOut == Carried(IF entry.status = "CONFLICT" THEN s
                            ELSE InvokeTransaction(s, req.client, NoOps, entry.status).server)
    IN  IF entry.state = "EXECUTED" THEN s
        ELSE IF entry.state # "COMMITTED" THEN Crash(s, "ExecuteTxn")
        ELSE With(CarryOut, LAMBDA t :
                  IF t.clientTable[req.client].id > req.id THEN t
                  ELSE Answer(t, req, [t.clientTable[req.client].reply EXCEPT !.status = entry.status]))

ExecuteIndep(s, op) ==
    LET req == s.log[op].req
        Executed(t) == [t EXCEPT !.log[op].state = "EXECUTED", !.pendingTransactions = @ \ {op}]
        Tell(t, reply) == IF t.clientTable[req.client].id <= req.id THEN Answer(t, req, reply)
                          ELSE IF AmLeader(t) THEN Send(t, reply) ELSE t
    IN  With(InvokeTransaction(s, req.client, req.ops, "INDEP"), LAMBDA ret :
             Tell(Executed(ret.server), Reply(s, req, "COMMIT", ret.reads)))

Ready(s, op) == s.log[op].decided /\ s.log[op].state = "COMMITTED"

\* Otherwise: pendingTransactions in the order of their timestamps, up to the first that
\* is not committed or has no final timestamp.
ExecuteTxns(s) ==
    FoldLeft(LAMBDA t, op : ExecuteIndep(t, op), s,
             SetToSortSeq({op \in s.pendingTransactions :
                             \A i \in s.pendingTransactions : i <= op => Ready(s, i)}, <))

-----------------------------------------------------------------------------
(* Votes                                                                   *)

Vote(s, to, req, status) ==
    [type |-> "vote", to |-> to, from |-> s.id, client |-> req.client, id |-> req.id,
     shards |-> req.shards, status |-> status]

VotesFor(s, req) == {v \in s.votes : v.client = req.client /\ v.id = req.id}

\* Mutant: the votes of the other shards do not count.
OwnStatus(status, votes) == status

\* The status that this shard's own status and the votes of the others amount to.
DecideStatus(status, votes) ==
    IF status = "ABORT" \/ \E v \in votes : v.status = "ABORT" THEN "ABORT"
    ELSE IF \E v \in votes : v.status = "CONFLICT" THEN "CONFLICT" ELSE status

AllVotes(s, req) == {v.from[1] : v \in VotesFor(s, req)} = OtherShards(s, req)

\* The leader has all votes for the committed entry: it tells the other replicas.
Decide(s, op) ==
    LET entry == s.log[op]
        votes == VotesFor(s, entry.req)
        status == IF Locking THEN DecideStatus(entry.status, votes) ELSE entry.status
    IN  Send([s EXCEPT !.log[op].decided = TRUE, !.log[op].status = status,
                       !.votes = @ \ votes],
             [type |-> "finalTimestamp", to |-> Others(s), shard |-> Shard(s), op |-> op,
              status |-> status])

ExecuteDecided(s, op) == IF Locking THEN ExecuteTxn(s, op) ELSE ExecuteTxns(s)

CheckVoteQuorum(s, op) ==
    LET entry == s.log[op]
        decides == /\ ~entry.decided /\ AmLeader(s) /\ entry.state = "COMMITTED"
                   /\ AllVotes(s, entry.req)
    IN  IF entry.state = "EXECUTED" THEN s
        ELSE IF ~entry.decided /\ ~MultiShard(entry.req) THEN Crash(s, "CheckVoteQuorum")
        ELSE With(IF decides THEN Decide(s, op) ELSE s, LAMBDA t :
                  IF ~t.log[op].decided THEN t
                  ELSE ExecuteDecided([t EXCEPT !.voteTimeouts = @ \ {op}], op))

\* In locking mode a committed entry is prepared at once.
PrepareTxn(s, op) ==
    LET req == s.log[op].req
        Prepared(t, status, reads) ==
            [t EXCEPT !.log[op].status = status,
               !.clientTable[req.client] =
                  IF @.id <= req.id
                  THEN [@ EXCEPT !.id = req.id, !.reply = Reply(s, req, status, reads)] ELSE @]
    IN  With(InvokeTransaction(s, req.client, req.ops, "PREPARE"), LAMBDA ret :
             Prepared(ret.server, IF ret.blocked THEN "CONFLICT" ELSE "COMMIT", ret.reads))

SendVote(s, op) ==
    LET entry == s.log[op] IN
    IF ~AmLeader(s) \/ ~MultiShard(entry.req) THEN s
    ELSE Send([s EXCEPT !.voteTimeouts = @ \cup {op}],
              Vote(s, {<<g, Leader>> : g \in OtherShards(s, entry.req)}, entry.req, entry.status))

CommitOp(s, op) ==
    LET t == [s EXCEPT !.lastCommitted = op]
        u == [t EXCEPT !.log[op].state = "COMMITTED"]
    IN  IF op > LastOp(s) THEN Crash(t, "CommitUpTo")
        ELSE IF s.log[op].state = "EXECUTED" THEN t
        ELSE With(IF Locking THEN PrepareTxn(u, op) ELSE u, LAMBDA v :
                  CheckVoteQuorum(SendVote(v, op), op))

CommitUpTo(s, op) ==
    IF op <= s.lastCommitted THEN s
    ELSE LET commit == [type |-> "commit", to |-> Others(s), shard |-> Shard(s), op |-> op]
             t == [s EXCEPT !.resends = FALSE]
         IN  FoldLeft(LAMBDA u, i : Then(u, LAMBDA v : CommitOp(v, i)),
                      IF AmLeader(s) THEN Send(t, commit) ELSE t,
                      Interval(s.lastCommitted + 1, op))

-----------------------------------------------------------------------------
(* The handlers of the server                                              *)

SendPrepare(s) ==
    Send([s EXCEPT !.resends = TRUE],
         [type |-> "prepare", to |-> Others(s), shard |-> Shard(s), op |-> LastOp(s),
          req |-> s.log[LastOp(s)].req])

\* The next entry of the log.
AppendEntry(s, req) ==
    LET log == Append(s.log, Entry(req)) IN
    [s EXCEPT !.log = log,
              !.pendingTransactions = IF Locking THEN @ ELSE @ \cup {Len(log)}]

HandleClientRequest(s, m) ==
    LET known == s.clientTable[m.req.client] IN
    IF ~AmLeader(s) \/ m.req.id < known.id THEN s
    ELSE IF m.req.id = known.id THEN IF known.replied THEN Send(s, known.reply) ELSE s
    ELSE Then(UpdateClientTable(s, m.req), LAMBDA t : SendPrepare(AppendEntry(t, m.req)))

PrepareOK(s, m) ==
    [type |-> "prepareOK", to |-> {LeaderId(s)}, from |-> s.id, op |-> m.op]

HandlePrepare(s, m) ==
    IF m.op <= LastOp(s) THEN Send(s, PrepareOK(s, m))
    ELSE Then(UpdateClientTable(AppendEntry([s EXCEPT !.log = FillHoles(s, m.op - 1)], m.req),
                                m.req),
              LAMBDA t : Send(t, PrepareOK(t, m)))

HandlePrepareOK(s, m) ==
    LET t == [s EXCEPT !.prepareOKs = @ \cup {[from |-> m.from, op |-> m.op]}] IN
    IF Cardinality({x \in t.prepareOKs : x.op = m.op}) >= QuorumSize - 1
    THEN CommitUpTo(t, m.op) ELSE t

HandleCommit(s, m) ==
    IF m.op > LastOp(s) THEN s ELSE CommitUpTo(s, m.op)

\* log.Find(reqid): the number of the last entry of the request, 0 if there is none.
Find(s, m) ==
    LET found == {op \in 1 .. LastOp(s) : s.log[op].req.client = m.client /\ s.log[op].req.id = m.id}
    IN  IF found = {} THEN 0 ELSE Max(found)

\* A vote may arrive before the request.
HandleVote(s, m) ==
    LET op == Find(s, m)
        t == [s EXCEPT !.votes = {v \in @ : v.client # m.client \/ v.id # m.id \/ v.from # m.from}
                                   \cup {[m EXCEPT !.to = {}]}]
    IN  IF ~AmLeader(s) \/ (op # 0 /\ s.log[op].decided) THEN s
        ELSE IF op = 0 THEN t ELSE CheckVoteQuorum(t, op)

HandleVoteRequest(s, m) ==
    LET op == Find(s, m) IN
    IF ~AmLeader(s) \/ op = 0 \/ s.log[op].state = "PREPARED" THEN s
    ELSE Send(s, Vote(s, {m.from}, s.log[op].req, s.log[op].status))

\* The replica catches up, takes the decision, and carries it out.
HandleFinalTimestamp(s, m) ==
    LET Execute(t) == IF Locking THEN t ELSE ExecuteTxns(t)
        CatchUp == Then(CommitUpTo([s EXCEPT !.log = FillHoles(s, m.op)], m.op), Execute)
        Decided(t) == [t EXCEPT !.log[m.op].decided = TRUE, !.log[m.op].status = m.status]
    IN  Then(IF m.op <= LastOp(s) THEN s ELSE CatchUp,
             LAMBDA t : Then(CommitUpTo(Decided(t), m.op), LAMBDA u : ExecuteDecided(u, m.op)))

\* SendVoteRequest for an entry, to the shards whose votes are missing.
SendVoteRequest(s, op) ==
    LET req == s.log[op].req
        missing == OtherShards(s, req) \ {v.from[1] : v \in VotesFor(s, req)}
    IN  IF missing = {} THEN s
        ELSE Send(s, [type |-> "voteRequest", to |-> {<<g, Leader>> : g \in missing},
                      from |-> s.id, client |-> req.client, id |-> req.id])

-----------------------------------------------------------------------------
(* The client                                                              *)

Requests(c, k) ==
    {[type |-> "request", to |-> {<<g, Leader>>},
      req |-> [client |-> c, id |-> k.id, shards |-> Groups(c), ops |-> scenario.plan[c][g]]] :
        g \in Groups(c)}

\* HandleReply with the answers of all shards, and CompleteOperation and
\* RetryTransaction, but for the sending of the next request.
Complete(k, replies) ==
    LET statuses == {m.status : m \in replies}
        t == [k EXCEPT !.reads = [g \in {m.shard : m \in replies} |->
                                    (CHOOSE m \in replies : m.shard = g).reads]]
    IN  IF Cardinality(statuses) # 1 THEN [k EXCEPT !.outcome = "crashed", !.pending = FALSE]
        ELSE IF "CONFLICT" \notin statuses
        THEN [t EXCEPT !.pending = FALSE, !.outcome = CHOOSE status \in statuses : TRUE]
        ELSE IF k.retries + 1 < MAX_RETRIES THEN [k EXCEPT !.id = @ + 1, !.retries = @ + 1]
        ELSE [t EXCEPT !.pending = FALSE, !.outcome = "ABORT"]

-----------------------------------------------------------------------------
Fresh(id) ==
    [id |-> id, status |-> "normal", fault |-> "", out |-> {}, log |-> << >>,
     lastCommitted |-> 0, prepareOKs |-> {}, resends |-> FALSE, pendingTransactions |-> {},
     votes |-> {}, voteTimeouts |-> {},
     clientTable |-> [c \in Clients |-> [id |-> 0, replied |-> FALSE, reply |-> << >>]]]
    @@ FreshApp

FreshClient == [id |-> 0, retries |-> 0, pending |-> FALSE, outcome |-> "none", reads |-> << >>]

Init ==
    /\ scenario \in Scenarios
    /\ server = [id \in Ids |-> Fresh(id)]
    /\ client = [c \in Clients |-> FreshClient]
    /\ msgs = {}

\* May m still change something at replica id?  A PREPARE that it has only repeats a
\* PREPAREOK, of use until the leader has committed the operation; a vote is of use
\* until the entry is decided.
Matters(m, id, servers, clients) ==
    LET s == servers[id] IN
    /\ id \notin scenario.down /\ <<m.type, id>> \notin scenario.lost
    /\ CASE m.type = "request" -> \/ s.clientTable[m.req.client].id < m.req.id
                                  \/ clients[m.req.client].pending
         [] m.type = "prepare" ->
              LastOp(s) < m.op \/ servers[<<m.shard, Leader>>].lastCommitted < m.op
         [] m.type \in {"prepareOK", "commit"} -> s.lastCommitted < m.op
         [] m.type = "vote" -> Find(s, m) = 0 \/ ~s.log[Find(s, m)].decided
         [] m.type = "voteRequest" ->
              LET t == servers[m.from] IN ~t.log[Find(t, m)].decided
         [] m.type = "finalTimestamp" ->
              LastOp(s) < m.op \/ s.log[m.op].state # "EXECUTED"

Effective(sent, servers, clients) ==
    {m \in {[x EXCEPT !.to = IF x.type = "reply" THEN {c \in @ : clients[c].pending /\ clients[c].id = x.id}
                             ELSE {id \in @ : Matters(x, id, servers, clients)}] : x \in sent} :
        m.to # {}}

\* May a message of this type, or a timer or client (type "none"), be next?
MayBeNext(type) == type \in scenario.urgent \/ \A m \in msgs : m.type \notin scenario.urgent

Taken(m, id) == {[x EXCEPT !.to = IF x = m THEN @ \ {id} ELSE @] : x \in msgs}

Step(id, t, before) ==
    /\ server[id].status # "crashed"
    /\ server' = [server EXCEPT ![id] = [t EXCEPT !.out = {}]]
    /\ msgs' = Effective(before \cup t.out, server', client)
    /\ UNCHANGED <<client, scenario>>

Receive(type, Handler(_, _)) ==
    MayBeNext(type) /\ \E m \in {x \in msgs : x.type = type} : \E id \in m.to :
        Step(id, Handler(server[id], m), Taken(m, id))

ReceiveRequest == Receive("request", HandleClientRequest)
ReceivePrepare == Receive("prepare", HandlePrepare)
ReceivePrepareOK == Receive("prepareOK", HandlePrepareOK)
ReceiveCommit == Receive("commit", HandleCommit)
ReceiveVote == Receive("vote", HandleVote)
ReceiveVoteRequest == Receive("voteRequest", HandleVoteRequest)
ReceiveFinalTimestamp == Receive("finalTimestamp", HandleFinalTimestamp)

ResendPrepareTimeout(id) ==
    /\ MayBeNext("none") /\ server[id].resends /\ <<"resendPrepare", id>> \in scenario.timers
    /\ Step(id, SendPrepare(server[id]), msgs)
    /\ msgs' # msgs

VoteTimeout(id) ==
    /\ MayBeNext("none") /\ <<"vote", id>> \in scenario.timers
    /\ \E op \in server[id].voteTimeouts : Step(id, SendVoteRequest(server[id], op), msgs)
    /\ msgs' # msgs

\* The client becomes k; it sends its request if send.
ClientStep(c, k, send) ==
    /\ MayBeNext("none")
    /\ client' = [client EXCEPT ![c] = k]
    /\ msgs' = Effective(msgs \cup (IF send THEN Requests(c, k) ELSE {}), server, client')
    /\ UNCHANGED <<server, scenario>>

Invoke(c) ==
    /\ client[c].id = 0
    /\ \A d \in scenario.after[c] : client[d].id > 0 /\ ~client[d].pending
    /\ ClientStep(c, [client[c] EXCEPT !.id = 1, !.pending = TRUE], TRUE)

RequestTimeout(c) ==
    /\ client[c].pending /\ <<"request", c>> \in scenario.timers
    /\ ClientStep(c, client[c], TRUE)
    /\ msgs' # msgs

HandleReply(c) ==
    LET replies == {m \in msgs : m.type = "reply" /\ c \in m.to}
        next == Complete(client[c], replies)
    IN  /\ client[c].pending /\ {m.shard : m \in replies} = Groups(c)
        /\ ClientStep(c, next, next.pending)

Next ==
    \/ ReceiveRequest \/ ReceivePrepare \/ ReceivePrepareOK \/ ReceiveCommit
    \/ ReceiveVote \/ ReceiveVoteRequest \/ ReceiveFinalTimestamp
    \/ \E id \in Ids : ResendPrepareTimeout(id) \/ VoteTimeout(id)
    \/ \E c \in Planned : Invoke(c) \/ RequestTimeout(c) \/ HandleReply(c)

Spec == Init /\ [][Next]_vars

-----------------------------------------------------------------------------
Committed == {c \in Planned : client[c].outcome = "COMMIT"}

\* The transactions that shard g has carried out.
CarriedOutAt(g) ==
    {c \in Planned : \E op \in DOMAIN server[<<g, Leader>>].log :
        LET entry == server[<<g, Leader>>].log[op] IN
        /\ entry.req.client = c /\ entry.state = "EXECUTED"
        /\ Locking => entry.status = "COMMIT"}

\* The transactions of done have an order in which those whose clients were told that
\* they committed read what they were told.
HaveOrder(plan, done) ==
    HasSerialOrder(plan, [c \in Planned |-> client[c].reads], scenario.after, done,
                   done \cap Committed)

\* In locking mode, there is one order of the transactions that some shard has carried
\* out, in which each that committed reads, at all its shards, what its client was told.
\* Independent transactions have such an order at each shard only: a leader takes the
\* timestamp that it has proposed itself for the final one ("XXX Determine the final
\* timestamp here", server.cc:543), so that two shards may order them differently.
Serializable ==
    IF Locking THEN HaveOrder(scenario.plan, UNION {CarriedOutAt(g) : g \in Shards})
    ELSE \A g \in Shards :
            HaveOrder([c \in CarriedOutAt(g) |-> (g :> scenario.plan[c][g])], CarriedOutAt(g))

\* In locking mode, the leaders of two shards that have decided a request have decided
\* the same; an independent transaction is always carried out.
FateAgrees ==
    Locking => \A a, b \in {id \in Ids : id[2] = Leader} :
        \A i \in DOMAIN server[a].log, j \in DOMAIN server[b].log :
            LET x == server[a].log[i]
                y == server[b].log[j]
            IN  x.decided /\ y.decided /\ x.state = "EXECUTED" /\ y.state = "EXECUTED"
                /\ x.req.client = y.req.client /\ x.req.id = y.req.id
                => x.status = y.status

\* A replica has committed what the leader has under the same number, unless it put a
\* hole there.
ReplicasAgree ==
    \A id \in Ids : \A op \in 1 .. server[id].lastCommitted :
        LET mine == server[id].log[op] IN
        mine.req # NoRequest => mine.req = server[LeaderId(server[id])].log[op].req

\* No ASSERT fails at a server or a client, which asserts that all shards answer the same.
NoFault ==
    /\ \A id \in Ids : server[id].status # "crashed"
    /\ \A c \in Planned : client[c].outcome # "crashed"

=============================================================================
