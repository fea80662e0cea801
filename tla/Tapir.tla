-------------------------------- MODULE Tapir --------------------------------
(***************************************************************************)
(* TAPIR, transaction/tapir: the server and its record, the IRClient that  *)
(* a client has for each shard, and TapirClient, which invokes a           *)
(* transaction.  A PREPARE is a consensus operation, COMMIT and ABORT are  *)
(* inconsistent ones.  The view is always 0 and replicas never talk to     *)
(* each other.                                                             *)
(*                                                                         *)
(* A client invokes one transaction, which is identified with it.  An      *)
(* operation is identified by the client, the shard and its number there.  *)
(* No server answers FAILED: it turns a failed transaction into RETRY.     *)
(***************************************************************************)
EXTENDS Handlers, Serial

CONSTANTS
  MAX_RETRIES,  \* how often a client prepares a transaction (5 in client.h)
  Scenarios     \* what may happen: [n, plan, after, timers, down, lost, urgent], as for
                \* Spanner; timers <<name, c>> of the IRClients of c

Clients == Txns

VARIABLES
  server,     \* server[id]: the fields of the TapirServer object of a replica
  client,     \* client[c]: the fields of the TapirClient and of its IRClients
  msgs,       \* the messages sent, each with those that may still receive it
  scenario    \* the member of Scenarios of this behaviour

vars == <<server, client, msgs, scenario>>

Groups(c) == DOMAIN scenario.plan[c]
Planned == DOMAIN scenario.plan
Shards == UNION {Groups(c) : c \in Planned}
Replicas(g) == {g} \X (0 .. scenario.n - 1)
Ids == UNION {Replicas(g) : g \in Shards}
QuorumSize == (scenario.n - 1) \div 2 + 1

\* config.QuorumSize() + ceil(0.5 * config.QuorumSize())
SuperQuorum == QuorumSize + (QuorumSize + 1) \div 2

\* The result of an operation, a serialized ReplyMessage.  The empty string is parsed as
\* a message with the status OK.
Result(status, reads) == [status |-> status, reads |-> reads, empty |-> FALSE]
Empty == [Result("OK", << >>) EXCEPT !.empty = TRUE]

-----------------------------------------------------------------------------
(* The server.  The record maps <<client, reqid>> to [op, final, result].  *)

\* Record::Add: the result that it is given is stored in a copy of the entry.
Add(s, m) ==
    [s EXCEPT !.record = (m.opid :> [op |-> m.op, final |-> FALSE, result |-> Empty]) @@ @]

Answer(s, m, type, result) ==
    Send(s, [type |-> type, to |-> {m.opid[1]}, from |-> s.id, opid |-> m.opid, result |-> result])

HandleProposeInconsistent(s, m) ==
    Answer(IF m.opid \in DOMAIN s.record THEN s ELSE Add(s, m), m, "inconsistentReply", Empty)

HandleFinalizeInconsistent(s, m) ==
    IF m.opid \notin DOMAIN s.record \/ s.record[m.opid].final THEN s
    ELSE With(InvokeTransaction(s, m.opid[1], NoOps, s.record[m.opid].op), LAMBDA ret :
              Then(Require(ret.server, ~ret.blocked, "HandleFinalizeInconsistent"), LAMBDA t :
                   Answer([t EXCEPT !.record[m.opid].final = TRUE], m, "confirm", Empty)))

Status(ret) == IF ret.blocked THEN "RETRY" ELSE "OK"

HandleProposeConsensus(s, m) ==
    IF m.opid \in DOMAIN s.record
    THEN Answer(s, m, "consensusReply", s.record[m.opid].result)
    ELSE With(InvokeTransaction(s, m.opid[1], m.ops, "PREPARE"), LAMBDA ret :
              Answer(Add(ret.server, m), m, "consensusReply", Result(Status(ret), ret.reads)))

HandleFinalizeConsensus(s, m) ==
    IF m.opid \notin DOMAIN s.record THEN s
    ELSE Answer([s EXCEPT !.record[m.opid].final = TRUE, !.record[m.opid].result = m.result],
                m, "confirm", Empty)

-----------------------------------------------------------------------------
(* IRClient: reqs[g] maps the numbers of the pending requests at shard g to *)
(* [op, phase, replies, confirms, decided, invoked], where phase tells what *)
(* the request's timer does.                                               *)

NewRequest(op) ==
    [op |-> op, phase |-> "propose", replies |-> {}, confirms |-> {}, decided |-> Empty,
     invoked |-> FALSE]

Propose(k, g, reqid, op) ==
    Send(k, [type |-> IF op = "PREPARE" THEN "proposeConsensus" ELSE "proposeInconsistent",
             to |-> Replicas(g), opid |-> <<k.id, reqid>>, op |-> op,
             ops |-> IF op = "PREPARE" THEN scenario.plan[k.id][g] ELSE NoOps])

Finalize(k, g, reqid) ==
    LET req == k.reqs[g][reqid] IN
    Send(k, [type |-> IF req.op = "PREPARE" THEN "finalizeConsensus" ELSE "finalizeInconsistent",
             to |-> Replicas(g), opid |-> <<k.id, reqid>>, result |-> req.decided])

\* InvokeConsensus and InvokeInconsistent.
InvokeOp(k, g, op) ==
    LET reqid == k.lastReqId[g] + 1 IN
    Propose([k EXCEPT !.lastReqId[g] = reqid, !.reqs[g] = (reqid :> NewRequest(op)) @@ @],
            g, reqid, op)

\* PrepareCallback: the promise of the shard, if the client still waits for it.
Continue(k, g, result) ==
    [k EXCEPT !.results[g] = IF @ = {} THEN {result} ELSE @]

\* Those that PrepareDecide may return: a set of strings holds two equal results once,
\* and the reply is that of the last result in its order, where the empty one is first.
PrepareDecide(results) ==
    LET oks == {r \in results : r.status = "OK"}
        full == {r \in oks : ~r.empty}
    IN  {Result(IF Cardinality(oks) >= QuorumSize THEN "OK" ELSE "RETRY", reads) :
            reads \in IF full = {} THEN {<< >>} ELSE {r.reads : r \in full}}

ConsensusSlowPath(k, g, reqid, decided) ==
    Finalize([k EXCEPT !.reqs[g][reqid].phase = "slow", !.reqs[g][reqid].decided = decided],
             g, reqid)

\* ResendConfirmation, and the proposal that the timer of the slow path sends first.
Resend(k, g, reqid) ==
    LET req == k.reqs[g][reqid]
        t == IF req.phase \in {"propose", "slow"} THEN Propose(k, g, reqid, req.op) ELSE k
    IN  IF req.phase = "propose" THEN t ELSE Finalize(t, g, reqid)

HandleInconsistentReply(k, g, m) ==
    LET reqid == m.opid[2]
        replies == Store(k.reqs[g][reqid].replies, [from |-> m.from, result |-> Empty])
        t == [k EXCEPT !.reqs[g][reqid].replies = replies]
    IN  IF Cardinality(replies) < QuorumSize \/ k.reqs[g][reqid].invoked THEN t
        ELSE Finalize([t EXCEPT !.reqs[g][reqid].phase = "finalize",
                                !.reqs[g][reqid].invoked = TRUE], g, reqid)

WithReply(k, g, m) == Store(k.reqs[g][m.opid[2]].replies, [from |-> m.from, result |-> m.result])

\* decided is what PrepareDecide returns if it is called.
HandleConsensusReply(k, g, m, decided) ==
    LET reqid == m.opid[2]
        replies == WithReply(k, g, m)
        t == [k EXCEPT !.reqs[g][reqid].replies = replies]
        matching == {r.result : r \in {x \in replies :
                        Cardinality({y \in replies : y.result = x.result}) >= SuperQuorum}}
        u == [t EXCEPT !.reqs[g][reqid].phase = "finalize", !.reqs[g][reqid].invoked = TRUE,
                       !.reqs[g][reqid].decided = CHOOSE r \in matching : TRUE]
    IN  IF Cardinality(replies) < SuperQuorum THEN t
        ELSE IF matching = {} THEN ConsensusSlowPath(t, g, reqid, decided)
        ELSE LET v == Finalize(u, g, reqid) IN
             IF k.reqs[g][reqid].invoked THEN v ELSE Continue(v, g, u.reqs[g][reqid].decided)

HandleConfirm(k, g, m) ==
    LET reqid == m.opid[2]
        req == k.reqs[g][reqid]
        confirms == req.confirms \cup {m.from}
        erased == [k EXCEPT !.reqs[g] = [r \in DOMAIN @ \ {reqid} |-> @[r]]]
    IN  IF Cardinality(confirms) < QuorumSize
        THEN [k EXCEPT !.reqs[g][reqid].confirms = confirms]
        ELSE IF req.invoked THEN erased ELSE Continue(erased, g, req.decided)

-----------------------------------------------------------------------------
(* TapirClient                                                             *)

\* The same for each shard of the transaction.
AtAllShards(k, Op(_, _)) == FoldSet(LAMBDA g, t : Op(t, g), k, Groups(k.id))

Prepare(k) ==
    AtAllShards([k EXCEPT !.txn = "PREPARE", !.tries = @ + 1,
                          !.results = [g \in Groups(k.id) |-> {}]],
                LAMBDA t, g : InvokeOp(t, g, "PREPARE"))

CommitAbort(k, op) == AtAllShards([k EXCEPT !.txn = op], LAMBDA t, g : InvokeOp(t, g, op))

\* Invoke, when all promises are fulfilled.
AfterPrepare(k) ==
    LET retry == \E g \in Groups(k.id) : \E r \in k.results[g] : r.status = "RETRY" IN
    IF ~retry THEN CommitAbort(k, "COMMIT")
    ELSE IF k.tries < MAX_RETRIES THEN Prepare(k) ELSE CommitAbort(k, "ABORT")

-----------------------------------------------------------------------------
Fresh(id) ==
    [id |-> id, status |-> "normal", fault |-> "", out |-> {}, record |-> << >>] @@ FreshApp

FreshClient(c) ==
    LET shards == IF c \in Planned THEN Groups(c) ELSE {} IN
    [id |-> c, status |-> "normal", out |-> {}, txn |-> "none", tries |-> 0,
     results |-> [g \in shards |-> {}], lastReqId |-> [g \in shards |-> 0],
     reqs |-> [g \in shards |-> << >>]]

Init ==
    /\ scenario \in Scenarios
    /\ server = [id \in Ids |-> Fresh(id)]
    /\ client = [c \in Clients |-> FreshClient(c)]
    /\ msgs = {}

Pending(k, g, m) == m.opid[2] \in DOMAIN k.reqs[g]

\* May m still change something at client c?
Wanted(m, c, clients) ==
    LET k == clients[c]
        g == m.from[1]
        req == k.reqs[g][m.opid[2]]
    IN  /\ Pending(k, g, m) /\ <<m.type, c>> \notin scenario.lost
        /\ CASE m.type = "inconsistentReply" -> ~req.invoked
             [] m.type = "consensusReply" -> [from |-> m.from, result |-> m.result] \notin req.replies
             [] m.type = "confirm" -> m.from \notin req.confirms

\* May m still change something at replica id, or make it send what its client wants?
Matters(m, id, servers, clients) ==
    LET s == servers[id]
        k == clients[m.opid[1]]
        known == m.opid \in DOMAIN s.record
        Wants(type) == Wanted([type |-> type, from |-> id, opid |-> m.opid,
                               result |-> s.record[m.opid].result], k.id, clients)
    IN  /\ id \notin scenario.down /\ <<m.type, id>> \notin scenario.lost
        /\ CASE m.type = "proposeInconsistent" -> ~known \/ Wants("inconsistentReply")
             [] m.type = "proposeConsensus" -> ~known \/ Wants("consensusReply")
             [] m.type = "finalizeInconsistent" -> ~known \/ ~s.record[m.opid].final
             [] m.type = "finalizeConsensus" -> Pending(k, id[1], m) /\ (~known \/ Wants("confirm"))

ForClients == {"inconsistentReply", "consensusReply", "confirm"}

Effective(sent, servers, clients) ==
    {m \in {[x EXCEPT !.to = IF x.type \in ForClients THEN {c \in @ : Wanted(x, c, clients)}
                             ELSE {id \in @ : Matters(x, id, servers, clients)}] : x \in sent} :
        m.to # {}}

\* May a message of this type, or a timer or client (type "none"), be next?
MayBeNext(type) == type \in scenario.urgent \/ \A m \in msgs : m.type \notin scenario.urgent

Taken(m, to) == {[x EXCEPT !.to = IF x = m THEN @ \ {to} ELSE @] : x \in msgs}

Receive(type, Handler(_, _)) ==
    MayBeNext(type) /\ \E m \in {x \in msgs : x.type = type} : \E id \in m.to :
        LET t == Handler(server[id], m) IN
        /\ server[id].status # "crashed"
        /\ server' = [server EXCEPT ![id] = [t EXCEPT !.out = {}]]
        /\ msgs' = Effective(Taken(m, id) \cup t.out, server', client)
        /\ UNCHANGED <<client, scenario>>

ReceiveProposeInconsistent == Receive("proposeInconsistent", HandleProposeInconsistent)
ReceiveFinalizeInconsistent == Receive("finalizeInconsistent", HandleFinalizeInconsistent)
ReceiveProposeConsensus == Receive("proposeConsensus", HandleProposeConsensus)
ReceiveFinalizeConsensus == Receive("finalizeConsensus", HandleFinalizeConsensus)

ClientStep(k, before) ==
    /\ client' = [client EXCEPT ![k.id] = [k EXCEPT !.out = {}]]
    /\ msgs' = Effective(before \cup k.out, server, client')
    /\ UNCHANGED <<server, scenario>>

ReceiveAtClient(type, Handler(_, _, _)) ==
    MayBeNext(type) /\ \E m \in {x \in msgs : x.type = type} : \E c \in m.to :
        ClientStep(Handler(client[c], m.from[1], m), Taken(m, c))

ReceiveInconsistentReply == ReceiveAtClient("inconsistentReply", HandleInconsistentReply)
ReceiveConfirm == ReceiveAtClient("confirm", HandleConfirm)

ReceiveConsensusReply ==
    /\ MayBeNext("consensusReply")
    /\ \E m \in {x \in msgs : x.type = "consensusReply"} : \E c \in m.to :
         \E decided \in PrepareDecide({r.result : r \in WithReply(client[c], m.from[1], m)}) :
            ClientStep(HandleConsensusReply(client[c], m.from[1], m, decided), Taken(m, c))

Invoke(c) ==
    /\ MayBeNext("none") /\ client[c].txn = "none"
    /\ \A d \in scenario.after[c] : client[d].txn \in {"COMMIT", "ABORT"}
    /\ ClientStep(Prepare(client[c]), msgs)

PreparedAtAll(c) ==
    /\ MayBeNext("none") /\ client[c].txn = "PREPARE"
    /\ \A g \in Groups(c) : client[c].results[g] # {}
    /\ ClientStep(AfterPrepare(client[c]), msgs)

\* The timer of a consensus operation that has not been decided.
SlowPathTimeout(c) ==
    /\ MayBeNext("none") /\ <<"slowPath", c>> \in scenario.timers
    /\ \E g \in Groups(c) : \E reqid \in DOMAIN client[c].reqs[g] :
         LET req == client[c].reqs[g][reqid] IN
         /\ req.op = "PREPARE" /\ req.phase = "propose"
         /\ \E decided \in PrepareDecide({r.result : r \in req.replies}) :
               ClientStep(ConsensusSlowPath(client[c], g, reqid, decided), msgs)

\* The other timers of requests.
ResendTimeout(c) ==
    /\ MayBeNext("none")
    /\ \E g \in Groups(c) : \E reqid \in DOMAIN client[c].reqs[g] :
         LET req == client[c].reqs[g][reqid] IN
         /\ <<req.phase, c>> \in scenario.timers
         /\ req.op = "PREPARE" => req.phase # "propose"
         /\ ClientStep(Resend(client[c], g, reqid), msgs)
    /\ msgs' # msgs

Next ==
    \/ ReceiveProposeInconsistent \/ ReceiveFinalizeInconsistent
    \/ ReceiveProposeConsensus \/ ReceiveFinalizeConsensus
    \/ ReceiveInconsistentReply \/ ReceiveConsensusReply \/ ReceiveConfirm
    \/ \E c \in Planned : Invoke(c) \/ PreparedAtAll(c) \/ SlowPathTimeout(c) \/ ResendTimeout(c)

Spec == Init /\ [][Next]_vars

-----------------------------------------------------------------------------
Committed == {c \in Planned : client[c].txn = "COMMIT"}

\* The value that c was answered for each key, if any.
Reads(c) ==
    [g \in Groups(c) |-> [key \in Keys |->
        LET answers == {r \in client[c].results[g] : key \in DOMAIN r.reads} IN
        IF answers = {} THEN "no answer" ELSE (CHOOSE r \in answers : TRUE).reads[key]]]

\* There is one order of the transactions that clients have decided to commit in which
\* each reads what it was answered, at all its shards.
Serializable ==
    HasSerialOrder(scenario.plan, [c \in Planned |-> Reads(c)], scenario.after, Committed, Committed)

Finalized(id, op) ==
    {c \in Planned : \E opid \in DOMAIN server[id].record :
        opid[1] = c /\ server[id].record[opid].op = op /\ server[id].record[opid].final}

\* Two replicas of a shard that have carried out the same COMMITs store the same.
ReplicasConverge ==
    \A a, b \in Ids : a[1] = b[1] /\ Finalized(a, "COMMIT") = Finalized(b, "COMMIT") =>
        server[a].store = server[b].store
=============================================================================
