------------------------------ MODULE Spanner ------------------------------
(***************************************************************************)
(* The Spanner server and client, transaction/spanner: two-phase commit by *)
(* the client over shards, each of which is a leader that replicates its   *)
(* log to the other replicas of the shard.  The leader never changes, and  *)
(* a replica fills a gap in its log with entries marked as executed.       *)
(*                                                                         *)
(* A client invokes one transaction, which is identified with it.  The     *)
(* servers remember a client's address from its request, which the leader  *)
(* always has before it replies, and it is left out.                       *)
(***************************************************************************)
EXTENDS Handlers, Serial

CONSTANTS
  MAX_RETRIES,  \* how often a client prepares a transaction (5 in client.h)
  Scenarios     \* what may happen: [n, plan, after, timers, down, lost, urgent]: replicas of a shard;
                \* plan[c][g]: what c reads and writes at shard g; after[c]: those that
                \* end before c begins; timers <<name, id>> that may expire; replicas
                \* that are down; <<x, id>> if no message of type x reaches id; the types
                \* of messages that arrive before anything else happens

Clients == Txns

VARIABLES
  server,     \* server[id]: the fields of the SpannerServer object of a replica
  client,     \* client[c]: the fields of the SpannerClient object
  msgs,       \* the messages sent, each with those that may still receive it
  scenario    \* the member of Scenarios of this behaviour

vars == <<server, client, msgs, scenario>>

Groups(c) == DOMAIN scenario.plan[c]
Planned == DOMAIN scenario.plan
Shards == UNION {Groups(c) : c \in Planned}
Ids == Shards \X (0 .. scenario.n - 1)
QuorumSize == (scenario.n - 1) \div 2 + 1

Leader == 0
Shard(s) == s.id[1]
AmLeader(s) == s.id[2] = Leader
Others(s) == {id \in Ids : id[1] = Shard(s) /\ id # s.id}
LeaderId(s) == <<Shard(s), Leader>>

LastOp(s) == Len(s.log)

\* A log entry, and the one a replica puts in the place of what it has not received.
Entry(state, req) == [state |-> state, req |-> req]
NoRequest == [client |-> Nobody, id |-> 0, type |-> "UNKNOWN", ops |-> NoOps]
Hole == Entry("EXECUTED", NoRequest)

-----------------------------------------------------------------------------
(* The server                                                              *)

UpdateClientTable(s, req) ==
    Then(Require(s, s.clientTable[req.client].id <= req.id, "UpdateClientTable"), LAMBDA t :
         IF t.clientTable[req.client].id = req.id THEN t
         ELSE [t EXCEPT !.clientTable[req.client] =
                  [id |-> req.id, replied |-> FALSE, reply |-> << >>]])

SendPrepare(s) ==
    Send([s EXCEPT !.resends = TRUE],
         [type |-> "prepare", to |-> Others(s), shard |-> Shard(s), op |-> LastOp(s),
          req |-> s.log[LastOp(s)].req])

ReplyType(ret, type) ==
    IF type # "PREPARE" THEN "ACK" ELSE IF ret.blocked THEN "RETRY" ELSE "OK"

ExecuteTxn(s, op) ==
    LET req == s.log[op].req
        Reply(ret) == [type |-> "reply", to |-> {req.client}, id |-> req.id, shard |-> Shard(s),
                       answer |-> ReplyType(ret, req.type), reads |-> ret.reads]
        Table(reply) == [id |-> req.id, replied |-> TRUE, reply |-> reply]
    IN  With(InvokeTransaction(s, req.client, req.ops, req.type), LAMBDA ret :
             Then(Require(ret.server, req.type # "PREPARE" => ~ret.blocked, "ExecuteTxn"),
                  LAMBDA t : With([t EXCEPT !.clientTable[req.client] = Table(Reply(ret))],
                                  LAMBDA u : IF AmLeader(u) THEN Send(u, Reply(ret)) ELSE u)))

CommitOp(s, op) ==
    LET t == [s EXCEPT !.lastCommitted = op] IN
    IF op > LastOp(s) THEN Crash(t, "CommitUpTo")
    ELSE IF s.log[op].state = "EXECUTED" THEN t
    ELSE ExecuteTxn([t EXCEPT !.log[op].state = "COMMITTED"], op)

CommitUpTo(s, op) ==
    IF op <= s.lastCommitted THEN s
    ELSE LET commit == [type |-> "commit", to |-> Others(s), shard |-> Shard(s), op |-> op]
             t == [s EXCEPT !.resends = FALSE]
         IN  FoldLeft(LAMBDA u, i : Then(u, LAMBDA v : CommitOp(v, i)),
                      IF AmLeader(s) THEN Send(t, commit) ELSE t,
                      Interval(s.lastCommitted + 1, op))

\* Mutant: a request that is not newer is taken once more.
HandleEveryRequest(s, m) ==
    IF ~AmLeader(s) THEN s
    ELSE Then(UpdateClientTable(s, m.req), LAMBDA t :
              SendPrepare([t EXCEPT !.log = Append(@, Entry("PREPARED", m.req))]))

HandleClientRequest(s, m) ==
    LET known == s.clientTable[m.req.client] IN
    IF ~AmLeader(s) \/ m.req.id < known.id THEN s
    ELSE IF m.req.id = known.id THEN IF known.replied THEN Send(s, known.reply) ELSE s
    ELSE Then(UpdateClientTable(s, m.req), LAMBDA t :
              SendPrepare([t EXCEPT !.log = Append(@, Entry("PREPARED", m.req))]))

PrepareOK(s, m) ==
    [type |-> "prepareOK", to |-> {LeaderId(s)}, from |-> s.id, op |-> m.op]

\* Mutant: an operation is appended whatever its number.
NoHoles(s, op) == s.log

\* The log up to op - 1, with holes for what is missing.
FillHoles(s, op) == s.log \o [i \in 1 .. op - 1 - LastOp(s) |-> Hole]

HandlePrepare(s, m) ==
    IF m.op <= LastOp(s) THEN Send(s, PrepareOK(s, m))
    ELSE Then(UpdateClientTable([s EXCEPT !.log = Append(FillHoles(s, m.op),
                                                         Entry("PREPARED", m.req))], m.req),
              LAMBDA t : Send(t, PrepareOK(t, m)))

HandlePrepareOK(s, m) ==
    LET t == [s EXCEPT !.prepareOKs = @ \cup {[from |-> m.from, op |-> m.op]}] IN
    IF Cardinality({x \in t.prepareOKs : x.op = m.op}) >= QuorumSize - 1
    THEN CommitUpTo(t, m.op) ELSE t

HandleCommit(s, m) ==
    IF m.op > LastOp(s) THEN s ELSE CommitUpTo(s, m.op)

-----------------------------------------------------------------------------
(* The client                                                              *)

\* SendRequest: only a PREPARE carries the operations of the shard.
Requests(c, k) ==
    {[type |-> "request", to |-> {<<g, Leader>>},
      req |-> [client |-> c, id |-> k.id, type |-> k.type,
               ops |-> IF k.type = "PREPARE" THEN scenario.plan[c][g] ELSE NoOps]] :
        g \in Groups(c)}

\* What the answers of all shards amount to.
Fate(k, replies) ==
    IF k.type # "PREPARE" THEN "ACKED"
    ELSE IF \E m \in replies : m.answer = "RETRY" THEN "RETRY" ELSE "COMMIT"

\* CompleteOperation, but for the sending of the next request.
CompleteOperation(k, fate) ==
    LET next == [k EXCEPT !.id = @ + 1] IN
    IF fate = "ACKED" THEN [k EXCEPT !.pending = FALSE]
    ELSE IF fate = "RETRY" /\ k.retries + 1 < MAX_RETRIES THEN [next EXCEPT !.retries = @ + 1]
    ELSE [next EXCEPT !.type = IF fate = "COMMIT" THEN "COMMIT" ELSE "ABORT"]

-----------------------------------------------------------------------------
Fresh(id) ==
    [id |-> id, status |-> "normal", fault |-> "", out |-> {}, log |-> << >>,
     lastCommitted |-> 0, prepareOKs |-> {}, resends |-> FALSE,
     clientTable |-> [c \in Clients |-> [id |-> 0, replied |-> FALSE, reply |-> << >>]]]
    @@ FreshApp

FreshClient == [id |-> 0, type |-> "PREPARE", retries |-> 0, pending |-> FALSE, reads |-> << >>]

Init ==
    /\ scenario \in Scenarios
    /\ server = [id \in Ids |-> Fresh(id)]
    /\ client = [c \in Clients |-> FreshClient]
    /\ msgs = {}

\* May m still change something at replica id?  A PREPARE that it has only repeats a
\* PREPAREOK, of use until the leader has committed the operation.
Matters(m, id, servers, clients) ==
    LET s == servers[id] IN
    /\ id \notin scenario.down /\ <<m.type, id>> \notin scenario.lost
    /\ CASE m.type = "request" -> \/ s.clientTable[m.req.client].id < m.req.id
                                  \/ clients[m.req.client].pending
         [] m.type = "prepare" ->
              LastOp(s) < m.op \/ servers[<<m.shard, Leader>>].lastCommitted < m.op
         [] m.type \in {"prepareOK", "commit"} -> s.lastCommitted < m.op

Effective(sent, servers, clients) ==
    {m \in {[x EXCEPT !.to = IF x.type = "reply" THEN {c \in @ : clients[c].pending /\ clients[c].id = x.id}
                             ELSE {id \in @ : Matters(x, id, servers, clients)}] : x \in sent} :
        m.to # {}}

\* May a message of this type, or a timer or client (type "none"), be next?
MayBeNext(type) == type \in scenario.urgent \/ \A m \in msgs : m.type \notin scenario.urgent

Taken(m, id) == {[x EXCEPT !.to = IF x = m THEN @ \ {id} ELSE @] : x \in msgs}

Step(id, t, before) ==
    /\ server[id].status # "crashed"
    /\ server' = [server EXCEPT ![id] = [t EXCEPT !.out = {}]]
    /\ msgs' = Effective(before \cup t.out, server', client)
    /\ UNCHANGED <<client, scenario>>

Receive(type, Handler(_, _)) ==
    MayBeNext(type) /\ \E m \in {x \in msgs : x.type = type} : \E id \in m.to :
        Step(id, Handler(server[id], m), Taken(m, id))

ReceiveRequest == Receive("request", HandleClientRequest)
ReceivePrepare == Receive("prepare", HandlePrepare)
ReceivePrepareOK == Receive("prepareOK", HandlePrepareOK)
ReceiveCommit == Receive("commit", HandleCommit)

ResendPrepareTimeout(id) ==
    /\ MayBeNext("none") /\ server[id].resends /\ <<"resendPrepare", id>> \in scenario.timers
    /\ Step(id, SendPrepare(server[id]), msgs)
    /\ msgs' # msgs

\* The client becomes k; it sends its request if send.
ClientStep(c, k, send) ==
    /\ MayBeNext("none")
    /\ client' = [client EXCEPT ![c] = k]
    /\ msgs' = Effective(msgs \cup (IF send THEN Requests(c, k) ELSE {}), server, client')
    /\ UNCHANGED <<server, scenario>>

Invoke(c) ==
    /\ client[c].id = 0
    /\ \A d \in scenario.after[c] : client[d].id > 0 /\ ~client[d].pending
    /\ ClientStep(c, [client[c] EXCEPT !.id = 1, !.pending = TRUE], TRUE)

RequestTimeout(c) ==
    /\ client[c].pending /\ <<"request", c>> \in scenario.timers
    /\ ClientStep(c, client[c], TRUE)
    /\ msgs' # msgs

\* The client has the answers of all shards to its request.
HandleReply(c) ==
    LET replies == {m \in msgs : m.type = "reply" /\ c \in m.to}
        k == client[c]
        reads == [g \in Groups(c) |-> (CHOOSE m \in replies : m.shard = g).reads]
        next == CompleteOperation([k EXCEPT !.reads = IF k.type = "PREPARE" THEN reads ELSE @],
                                  Fate(k, replies))
    IN  /\ k.pending /\ {m.shard : m \in replies} = Groups(c)
        /\ ClientStep(c, next, next.pending)

Next ==
    \/ ReceiveRequest \/ ReceivePrepare \/ ReceivePrepareOK \/ ReceiveCommit
    \/ \E id \in Ids : ResendPrepareTimeout(id)
    \/ \E c \in Planned : Invoke(c) \/ RequestTimeout(c) \/ HandleReply(c)

Spec == Init /\ [][Next]_vars

-----------------------------------------------------------------------------
Committed == {c \in Planned : client[c].type = "COMMIT"}

\* There is one order of the transactions that clients have decided to commit in which
\* each reads what it was answered when it was prepared, at all its shards, and which
\* has a transaction that ended before another began before it.
Serializable ==
    HasSerialOrder(scenario.plan, [c \in Planned |-> client[c].reads], scenario.after,
                   Committed, Committed)

\* A replica has committed what the leader has under the same number, unless it put a
\* hole there.
ReplicasAgree ==
    \A id \in Ids : \A op \in 1 .. server[id].lastCommitted :
        LET mine == server[id].log[op] IN
        mine # Hole => mine.req = server[LeaderId(server[id])].log[op].req

\* No ASSERT fails, and CommitUpTo finds every entry.
NoFault == \A id \in Ids : server[id].status # "crashed"

=============================================================================
