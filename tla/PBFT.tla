-------------------------------- MODULE PBFT --------------------------------
(***************************************************************************)
(* The PBFT replica and client of replication/pbft: the normal case of     *)
(* PBFT with batching.  The implementation has no view change, so          *)
(* view_number stays 0 at every replica and the checks of a message's      *)
(* view against it never fire; the replica GetLeaderIndex(0) names is the  *)
(* constant Primary.                                                       *)
(*                                                                         *)
(* Replicas are correct or stopped.  A replica stops where the code calls  *)
(* abort (NOT_IMPLEMENTED) or dereferences a null pointer.  The network    *)
(* loses, duplicates and reorders messages: a message once sent stays in   *)
(* msgs and may be handled at any later time, any number of times or       *)
(* never.  The runner (common/runner.cc) executes the handlers of one      *)
(* replica one at a time, in the order in which their messages arrive, and *)
(* runs at most one epilogue, the last one registered, after each handler. *)
(*                                                                         *)
(* A request is identified by its client and its request number.  The      *)
(* SHA-1 chain of common/log.cc hashes exactly those two fields of every   *)
(* entry, so a digest is represented by the sequence of requests hashed.   *)
(***************************************************************************)
EXTENDS Naturals, Sequences, FiniteSets

CONSTANTS
  Replicas,   \* the replicas of the group
  Primary,    \* the replica that leads view 0
  Clients,    \* the clients
  f,          \* configuration.f
  Crashed,    \* the replicas that are down from the start
  BatchSize,  \* batch_size, the constructor's argument
  MaxReq,     \* bound: requests one client invokes
  MaxLog,     \* bound: entries of the primary's log
  MaxClose    \* bound: CloseBatch callbacks of the timer waiting in the runner

ASSUME ReplicasAssumption == IsFiniteSet(Replicas) /\ Primary \in Replicas
ASSUME FaultAssumption    == /\ f \in Nat /\ Cardinality(Replicas) = 3 * f + 1
                             /\ Crashed \subseteq Replicas
ASSUME BatchAssumption    == BatchSize \in Nat \ {0}
ASSUME BoundAssumption    == MaxReq \in Nat /\ MaxLog \in Nat /\ MaxClose \in Nat

Request == [client : Clients, num : Nat \ {0}]

VARIABLES
  log,             \* log[r]: the requests of r's Log; opnums start at 1
  prepared,        \* prepared[r]: opnums whose entry is LOG_STATE_PREPARED
  committed,       \* committed[r]: opnums whose entry is LOG_STATE_COMMITTED
  commit_number,   \* commit_number[r]: r executed the opnums 1..commit_number[r]
  client_table,    \* client_table[r][c]: num = 0 when c has no entry at r
  prepare_quorum,  \* prepare_quorum[r]: the triples <<opnum, digest, replica>>
  commit_quorum,   \* commit_quorum[r]: the triples <<opnum, digest, replica>>
  request_buffer,  \* request_buffer[r]: opnum -> request, from early PREPREPAREs
  request_batch,   \* the requests the primary has logged but not sent yet
  close_queued,    \* CloseBatch calls of close_batch_timeout waiting in the runner
  stopped,         \* the replicas and clients whose process has aborted
  pending,         \* pending[c]: the request number c waits for, 0 if none
  last_req,        \* last_req[c]: PBFTClient::request_number
  received,        \* received[c]: replicas that replied to the pending request
  msgs             \* every message ever sent

replicaVars == <<log, prepared, committed, commit_number, client_table,
                 prepare_quorum, commit_quorum, request_buffer>>
primaryVars == <<request_batch, close_queued>>
clientVars  == <<pending, last_req, received>>
vars == <<replicaVars, primaryVars, stopped, clientVars, msgs>>

RequestMsg(c, n, to) == [type |-> "request", client |-> c, num |-> n, to |-> to]
ReplyMsg(r, req)     == [type |-> "reply", client |-> req.client,
                         num |-> req.num, from |-> r]
PrepareMsg(r, op, size, digest) ==
  [type |-> "prepare", op |-> op, size |-> size, digest |-> digest, from |-> r]
CommitMsg(r, op, size, digest) ==
  [type |-> "commit", op |-> op, size |-> size, digest |-> digest, from |-> r]

Send(ms) == msgs' = msgs \cup ms

\* NOT_IMPLEMENTED or a null dereference: the process p is gone.
Stop(p) ==
  /\ stopped' = stopped \cup {p}
  /\ UNCHANGED <<replicaVars, primaryVars, clientVars, msgs>>

Init ==
  /\ log = [r \in Replicas |-> <<>>]
  /\ prepared = [r \in Replicas |-> {}]
  /\ committed = [r \in Replicas |-> {}]
  /\ commit_number = [r \in Replicas |-> 0]
  /\ client_table = [r \in Replicas |->
                      [c \in Clients |-> [num |-> 0, has_reply |-> FALSE]]]
  /\ prepare_quorum = [r \in Replicas |-> {}]
  /\ commit_quorum = [r \in Replicas |-> {}]
  /\ request_buffer = [r \in Replicas |-> <<>>]
  /\ request_batch = <<>>
  /\ close_queued = 0
  /\ stopped = Crashed
  /\ pending = [c \in Clients |-> 0]
  /\ last_req = [c \in Clients |-> 0]
  /\ received = [c \in Clients |-> {}]
  /\ msgs = {}

-----------------------------------------------------------------------------
(***************************************************************************)
(* The client.                                                             *)
(***************************************************************************)

\* Invoke: a new request, broadcast when it is the client's first so that
\* every replica learns the client's address, else sent to the primary.
Invoke(c) ==
  /\ c \notin stopped
  /\ pending[c] = 0
  /\ last_req[c] < MaxReq
  /\ last_req' = [last_req EXCEPT ![c] = @ + 1]
  /\ pending' = [pending EXCEPT ![c] = last_req[c] + 1]
  /\ received' = [received EXCEPT ![c] = {}]
  /\ Send({RequestMsg(c, last_req[c] + 1,
                      IF last_req[c] = 0 THEN Replicas ELSE {Primary})})
  /\ UNCHANGED <<replicaVars, primaryVars, stopped>>

\* resend_timeout runs from the first request on and is never stopped.  It
\* broadcasts the pending request; the callback dereferences pending_request,
\* so a client that is idle when it fires is gone.
ResendRequest(c) ==
  /\ c \notin stopped
  /\ last_req[c] > 0
  /\ \/ /\ pending[c] # 0
        /\ Send({RequestMsg(c, pending[c], Replicas)})
        /\ UNCHANGED <<replicaVars, primaryVars, stopped, clientVars>>
     \/ /\ pending[c] = 0
        /\ Stop(c)

\* The replies from distinct replicas that complete a request.
RepliesNeededOff == f
RepliesNeeded == f + 1

\* ReceiveMessage: f+1 replicas that replied complete the request.  The
\* client counts replicas, it does not compare their results.
ReceiveReply(c, m) ==
  /\ m.type = "reply" /\ m.client = c
  /\ c \notin stopped
  /\ pending[c] # 0 /\ m.num = pending[c]
  /\ LET got == received[c] \cup {m.from}
     IN  /\ received' = [received EXCEPT ![c] = got]
         /\ pending' = [pending EXCEPT ![c] =
                          IF Cardinality(got) < RepliesNeeded THEN @ ELSE 0]
  /\ UNCHANGED <<replicaVars, primaryVars, stopped, last_req, msgs>>

-----------------------------------------------------------------------------
(***************************************************************************)
(* The replica.                                                            *)
(***************************************************************************)

CloseBatchOff(lg, b) ==
  [type |-> "preprepare", op |-> Len(lg) - Len(b), reqs |-> b, digest |-> lg]

CloseBatchNext(lg, b) ==
  [type |-> "preprepare", op |-> Len(lg) + 1, reqs |-> b, digest |-> lg]

\* The message CloseBatch sends when the primary's log is lg and its batch b.
\* The batch may be empty, see RunCloseBatch.
CloseBatch(lg, b) ==
  [type |-> "preprepare", op |-> (Len(lg) + 1) - Len(b), reqs |-> b, digest |-> lg]

\* HandleRequest past the client table: the primary logs the request and
\* sends the batch once it is full.
LogRequest(req) ==
  LET lg == Append(log[Primary], req)
      b  == Append(request_batch, req)
  IN  /\ Len(log[Primary]) < MaxLog
      /\ log' = [log EXCEPT ![Primary] = lg]
      /\ client_table' = [client_table EXCEPT ![Primary][req.client] =
                            [num |-> req.num, has_reply |-> FALSE]]
      /\ IF Len(b) >= BatchSize
           THEN request_batch' = <<>> /\ Send({CloseBatch(lg, b)})
           ELSE request_batch' = b /\ UNCHANGED msgs
      /\ UNCHANGED <<prepared, committed, commit_number, prepare_quorum,
                     commit_quorum, request_buffer, close_queued, stopped,
                     clientVars>>

HandleRequest(r, m) ==
  LET req   == [client |-> m.client, num |-> m.num]
      entry == client_table[r][m.client]
  IN  /\ m.type = "request" /\ r \in m.to
      /\ r \notin stopped
      /\ \/ \* a client without an entry must start with request 1
            /\ entry.num = 0 /\ m.num # 1
            /\ Stop(r)
         \/ \* an old request is dropped, the last one has its reply resent
            /\ entry.num # 0 /\ m.num <= entry.num
            /\ Send(IF m.num = entry.num /\ entry.has_reply
                      THEN {ReplyMsg(r, req)} ELSE {})
            /\ UNCHANGED <<replicaVars, primaryVars, stopped, clientVars>>
         \/ \* a new request at the primary
            /\ entry.num = 0 => m.num = 1
            /\ m.num > entry.num
            /\ r = Primary
            /\ LogRequest(req)
         \/ \* the first request of a client, at a backup
            /\ entry.num = 0 /\ m.num = 1
            /\ r # Primary
            /\ client_table' = [client_table EXCEPT ![r][m.client] =
                  [num |-> 1, has_reply |-> FALSE]]
            /\ UNCHANGED <<log, prepared, committed, commit_number,
                           prepare_quorum, commit_quorum, request_buffer,
                           primaryVars, stopped, clientVars, msgs>>
         \/ \* a later request at a backup goes on to the primary
            /\ entry.num # 0 /\ m.num > entry.num
            /\ r # Primary
            /\ Send({RequestMsg(m.client, m.num, {Primary})})
            /\ UNCHANGED <<replicaVars, primaryVars, stopped, clientVars>>

\* close_batch_timeout runs while a batch is open; its callback only queues
\* CloseBatch in the runner, behind the handlers that are already there.
CloseBatchTimeout ==
  /\ request_batch # <<>> /\ close_queued < MaxClose
  /\ Primary \notin stopped
  /\ close_queued' = close_queued + 1
  /\ UNCHANGED <<replicaVars, request_batch, stopped, clientVars, msgs>>

\* The queued CloseBatch.  A handler, or another CloseBatch, that ran before it
\* may have sent the batch already: then an empty batch is sent, for the opnum
\* after the log.
RunCloseBatch ==
  /\ close_queued > 0
  /\ Primary \notin stopped
  /\ close_queued' = close_queued - 1
  /\ request_batch' = <<>>
  /\ Send({CloseBatch(log[Primary], request_batch)})
  /\ UNCHANGED <<replicaVars, stopped, clientVars>>

\* HandlePreprepare appends a batch that starts right after the log.
NextInLog(op, n) == op = n + 1

DrainCountsNone(b, n) == {0}

\* The opnums of the buffer b that the drain loop of HandlePreprepare moves to
\* a log whose last opnum is n: the loop looks at the smallest opnum in the
\* buffer and ends when that one is not n+1, n+2, ...
DrainCounts(b, n) ==
  IF \E op \in DOMAIN b : op <= n
    THEN {0}
    ELSE {k \in 0 .. Cardinality(DOMAIN b) :
            /\ \A i \in 1 .. k : n + i \in DOMAIN b
            /\ n + k + 1 \notin DOMAIN b}

\* The PREPARE a backup broadcasts for the batch p, once it is counted.
OwnPrepareNone(r, p) == {}
OwnPrepare(r, p) == {PrepareMsg(r, p.op, p.size, p.digest)}

PrepareCountSelf(r, op, digest, s) ==
  Cardinality({t \in prepare_quorum[r] \cup {<<op, digest, s>>, <<op, digest, r>>} :
                 t[1] = op /\ t[2] = digest})

\* The PREPAREs r counts for (op, digest) once one from s is inserted.
PrepareCount(r, op, digest, s) ==
  Cardinality({t \in prepare_quorum[r] \cup {<<op, digest, s>>} :
                 t[1] = op /\ t[2] = digest})

\* InsertPrepare: 2f PREPAREs of other replicas make the entry PREPARED and
\* send COMMIT; lastOp is LastOpnum at the time of the call.  unprepared is
\* what the caller sends when the quorum is not there yet.
InsertPrepare(r, p, s, lastOp, unprepared) ==
  IF PrepareCount(r, p.op, p.digest, s) < 2 * f
    THEN /\ prepare_quorum' = [prepare_quorum EXCEPT
                                 ![r] = @ \cup {<<p.op, p.digest, s>>}]
         /\ UNCHANGED prepared
         /\ Send(unprepared)
    ELSE /\ p.op <= lastOp
         /\ prepare_quorum' = [prepare_quorum EXCEPT
                                 ![r] = @ \cup {<<p.op, p.digest, s>>}]
         /\ prepared' = [prepared EXCEPT ![r] = @ \cup {p.op}]
         /\ Send({CommitMsg(r, p.op, p.size, p.digest)})

\* InsertPrepare reaches its quorum for an opnum the log does not hold.
InsertPrepareStops(r, p, s, lastOp) ==
  /\ PrepareCount(r, p.op, p.digest, s) >= 2 * f
  /\ p.op > lastOp

\* HandlePreprepare: append the batch and what it makes contiguous, or buffer
\* it; count it as the primary's PREPARE and broadcast one's own, unless the
\* entry is PREPARED by then.
HandlePreprepare(r, m) ==
  LET n == Len(log[r])
      p == [op |-> m.op, size |-> Len(m.reqs), digest |-> m.digest]
      own == OwnPrepare(r, p)
      buffered == [op \in m.op .. (m.op + Len(m.reqs)) - 1 |-> m.reqs[(op - m.op) + 1]]
  IN  /\ m.type = "preprepare"
      /\ r # Primary
      /\ r \notin stopped
      /\ m.op > n
      /\ \/ /\ ~NextInLog(m.op, n)
            /\ IF InsertPrepareStops(r, p, Primary, n)
                 THEN Stop(r)
                 ELSE /\ request_buffer' = [request_buffer EXCEPT ![r] =
                           [op \in DOMAIN buffered \cup DOMAIN @ |->
                              IF op \in DOMAIN buffered THEN buffered[op] ELSE @[op]]]
                      /\ InsertPrepare(r, p, Primary, n, own)
                      /\ UNCHANGED <<log, committed, commit_number, client_table,
                                     commit_quorum, primaryVars, stopped, clientVars>>
         \/ /\ NextInLog(m.op, n)
            /\ LET n1 == n + Len(m.reqs)
                   b  == request_buffer[r]
               IN  \E k \in DrainCounts(b, n1) :
                     IF InsertPrepareStops(r, p, Primary, n1 + k)
                       THEN Stop(r)
                       ELSE /\ log' = [log EXCEPT ![r] =
                                 (@ \o m.reqs) \o [i \in 1 .. k |-> b[n1 + i]]]
                            /\ request_buffer' = [request_buffer EXCEPT ![r] =
                                 [op \in DOMAIN b \ ((n1 + 1) .. (n1 + k)) |-> b[op]]]
                            /\ InsertPrepare(r, p, Primary, n1 + k, own)
                            /\ UNCHANGED <<committed, commit_number, client_table,
                                           commit_quorum, primaryVars, stopped,
                                           clientVars>>

\* HandlePrepare: a PREPARE for an entry that is past LOG_STATE_RECEIVED is
\* dropped; one for an opnum the log does not hold yet is counted.
HandlePrepare(r, m) ==
  /\ m.type = "prepare" /\ m.from # r
  /\ r \notin stopped
  /\ m.op <= Len(log[r]) => m.op \notin prepared[r] \cup committed[r]
  /\ IF InsertPrepareStops(r, m, m.from, Len(log[r]))
       THEN Stop(r)
       ELSE /\ InsertPrepare(r, m, m.from, Len(log[r]), {})
            /\ UNCHANGED <<log, committed, commit_number, client_table,
                           commit_quorum, request_buffer, primaryVars, stopped,
                           clientVars>>

\* The opnum up to which the execute loop of HandleCommit runs, when the
\* entries done are COMMITTED.
ExecuteLimits(r, done) ==
  {k \in commit_number[r] .. Len(log[r]) :
     /\ \A i \in (commit_number[r] + 1) .. k : i \in done
     /\ k + 1 \notin done \/ k = Len(log[r])}

\* The client table after the opnums first..last are executed: the entry of
\* each client is that of its last request among them.
TableAfter(r, first, last) ==
  [c \in Clients |->
     LET ops == {i \in first .. last : log[r][i].client = c}
     IN  IF ops = {}
           THEN client_table[r][c]
           ELSE [num |-> log[r][CHOOSE i \in ops : \A j \in ops : j <= i].num,
                 has_reply |-> TRUE]]

CommitCountSelf(r, op, digest, s) ==
  Cardinality({t \in commit_quorum[r] \cup {<<op, digest, s>>, <<op, digest, r>>} :
                 t[1] = op /\ t[2] = digest})

\* The COMMITs r counts for (op, digest) once one from s is inserted.
CommitCount(r, op, digest, s) ==
  Cardinality({t \in commit_quorum[r] \cup {<<op, digest, s>>} :
                 t[1] = op /\ t[2] = digest})

\* HandleCommit: 2f COMMITs of other replicas commit the whole batch; then
\* everything committed and contiguous is executed and answered.  An entry
\* that is not in the log stops r, and so does a client the replica has no
\* entry for, whose address is a null pointer.
HandleCommit(r, m) ==
  LET quorum == commit_quorum[r] \cup {<<m.op, m.digest, m.from>>}
      count  == CommitCount(r, m.op, m.digest, m.from)
      batch  == m.op .. (m.op + m.size) - 1
      held   == {m.op} \cup batch \subseteq 1 .. Len(log[r])
      done   == committed[r] \cup batch
  IN  /\ m.type = "commit" /\ m.from # r
      /\ r \notin stopped
      /\ m.op <= Len(log[r]) => m.op \notin committed[r]
      /\ \/ /\ count < 2 * f
            /\ commit_quorum' = [commit_quorum EXCEPT ![r] = quorum]
            /\ UNCHANGED <<log, prepared, committed, commit_number, client_table,
                           prepare_quorum, request_buffer, primaryVars, stopped,
                           clientVars, msgs>>
         \/ /\ count >= 2 * f /\ ~held
            /\ Stop(r)
         \/ /\ count >= 2 * f /\ held
            /\ \E k \in ExecuteLimits(r, done) :
                 LET ops == (commit_number[r] + 1) .. k
                 IN  IF \E i \in ops : client_table[r][log[r][i].client].num = 0
                       THEN Stop(r)
                       ELSE /\ commit_quorum' = [commit_quorum EXCEPT ![r] = quorum]
                            /\ committed' = [committed EXCEPT ![r] = done]
                            /\ prepared' = [prepared EXCEPT ![r] = @ \ done]
                            /\ commit_number' = [commit_number EXCEPT ![r] = k]
                            /\ client_table' = [client_table EXCEPT ![r] =
                                 TableAfter(r, commit_number[r] + 1, k)]
                            /\ Send({ReplyMsg(r, log[r][i]) : i \in ops})
                            /\ UNCHANGED <<log, prepare_quorum, request_buffer,
                                           primaryVars, stopped, clientVars>>

-----------------------------------------------------------------------------
Handle(r, m) == \/ HandleRequest(r, m) \/ HandlePreprepare(r, m)
                \/ HandlePrepare(r, m) \/ HandleCommit(r, m)

ClientStep(c) == Invoke(c) \/ ResendRequest(c) \/ \E m \in msgs : ReceiveReply(c, m)

Next ==
  \/ \E c \in Clients : ClientStep(c)
  \/ \E r \in Replicas, m \in msgs : Handle(r, m)
  \/ CloseBatchTimeout
  \/ RunCloseBatch

Spec == Init /\ [][Next]_vars

\* No message is lost for ever, and the timer of an open batch fires.  The
\* replicas never retransmit, so nothing weaker gives progress.
Fairness ==
  /\ \A r \in Replicas : WF_vars(\E m \in msgs : Handle(r, m))
  /\ \A c \in Clients : WF_vars(\E m \in msgs : ReceiveReply(c, m))
  /\ WF_vars(CloseBatchTimeout) /\ WF_vars(RunCloseBatch)

FairSpec == Spec /\ Fairness

-----------------------------------------------------------------------------
(***************************************************************************)
(* Properties.                                                             *)
(***************************************************************************)

Opnum == Nat \ {0}
Certificate == Opnum \X Seq(Request) \X Replicas

Message ==
  [type : {"request"}, client : Clients, num : Opnum, to : SUBSET Replicas]
    \cup [type : {"reply"}, client : Clients, num : Opnum, from : Replicas]
    \cup [type : {"preprepare"}, op : Opnum, reqs : Seq(Request), digest : Seq(Request)]
    \cup [type : {"prepare", "commit"}, op : Opnum, size : Nat,
          digest : Seq(Request), from : Replicas]

\* The types of the fields of PBFTReplica and PBFTClient and of their messages.
TypeOK ==
  /\ log \in [Replicas -> Seq(Request)]
  /\ prepared \in [Replicas -> SUBSET Opnum]
  /\ committed \in [Replicas -> SUBSET Opnum]
  /\ commit_number \in [Replicas -> Nat]
  /\ client_table \in [Replicas -> [Clients -> [num : Nat, has_reply : BOOLEAN]]]
  /\ prepare_quorum \in [Replicas -> SUBSET Certificate]
  /\ commit_quorum \in [Replicas -> SUBSET Certificate]
  /\ DOMAIN request_buffer = Replicas
  /\ \A r \in Replicas : /\ DOMAIN request_buffer[r] \subseteq Opnum
                          /\ \A op \in DOMAIN request_buffer[r] :
                               request_buffer[r][op] \in Request
  /\ request_batch \in Seq(Request)
  /\ close_queued \in Nat
  /\ stopped \subseteq Replicas \cup Clients
  /\ pending \in [Clients -> Nat]
  /\ last_req \in [Clients -> Nat]
  /\ received \in [Clients -> SUBSET Replicas]
  /\ msgs \subseteq Message

\* Two replicas execute the same request at every opnum both have executed,
\* whatever PREPREPAREs were reordered, duplicated or lost.
Agreement ==
  \A r, s \in Replicas : \A i \in 1 .. commit_number[r] :
     i <= commit_number[s] => log[r][i] = log[s][i]

\* What makes Agreement inductive.  The primary alone orders requests: its
\* unsent batch is the end of its log, each PREPREPARE carries a piece of it,
\* each log is a beginning of it, and so is what waits in a buffer.
BatchIsSuffix ==
  /\ Len(request_batch) <= Len(log[Primary])
  /\ \A i \in 1 .. Len(request_batch) :
       request_batch[i] = log[Primary][(Len(log[Primary]) - Len(request_batch)) + i]

PrepreparesFromLog ==
  \A m \in msgs : m.type = "preprepare" =>
    /\ (m.op + Len(m.reqs)) - 1 <= Len(log[Primary])
    /\ \A i \in 1 .. Len(m.reqs) : m.reqs[i] = log[Primary][(m.op + i) - 1]

LogsArePrefixes ==
  \A r \in Replicas :
    /\ commit_number[r] <= Len(log[r])
    /\ Len(log[r]) <= Len(log[Primary])
    /\ \A i \in 1 .. Len(log[r]) : log[r][i] = log[Primary][i]

BuffersFromLog ==
  \A r \in Replicas : \A op \in DOMAIN request_buffer[r] :
    /\ op <= Len(log[Primary])
    /\ request_buffer[r][op] = log[Primary][op]

PrimaryOrder ==
  BatchIsSuffix /\ PrepreparesFromLog /\ LogsArePrefixes /\ BuffersFromLog

\* A request waits in request_buffer only for one that has not arrived: the
\* drain loop of HandlePreprepare strands none behind the end of the log.
BufferWaitsForGap ==
  \A r \in Replicas : \A op \in DOMAIN request_buffer[r] : op > Len(log[r]) + 1

\* A replica sends COMMIT only once 2f other replicas have accepted the batch:
\* the primary by its PREPREPARE, a backup by its PREPARE.
CommitHasCertificate ==
  \A m \in msgs : m.type = "commit" =>
    Cardinality({s \in Replicas \ {m.from} :
                   \/ s = Primary
                   \/ PrepareMsg(s, m.op, m.size, m.digest) \in msgs}) >= 2 * f

\* What a replica has executed is PREPARED, as the same request, at 2f other
\* replicas: HandleCommit executes on the COMMITs of 2f others, and a batch is
\* executed as a whole.
ExecutedIsReplicated ==
  \A r \in Replicas : \A i \in 1 .. commit_number[r] :
    Cardinality({s \in Replicas \ {r} :
                   /\ \E m \in msgs : /\ m.type = "commit" /\ m.from = s
                                      /\ i \in m.op .. (m.op + m.size) - 1
                   /\ Len(log[s]) >= i /\ log[s][i] = log[r][i]}) >= 2 * f

\* A request whose continuation the client has called was executed by at
\* least f+1 replicas.
CompletedIsExecuted ==
  \A c \in Clients : \A n \in 1 .. last_req[c] : n # pending[c] =>
    Cardinality({r \in Replicas : \E i \in 1 .. commit_number[r] :
                   log[r][i] = [client |-> c, num |-> n]}) >= f + 1

\* PBFT replicates one log, the primary's, which every replica executes from the
\* start.
ExecutedLog == [r \in Replicas |-> [i \in 1 .. commit_number[r] |-> log[r][i]]]

Replicated == INSTANCE ReplicatedLog WITH
  Fillers <- {}, FromStart <- TRUE, ordered <- log[Primary],
  executed <- ExecutedLog, invoked <- last_req, waiting <- pending

\* All replicas execute what they execute in one order, without a gap, and a
\* client's request completes only when f+1 of them have executed it.
ReplicatesLog == Replicated!Spec

\* The comment in InsertPrepare: when a backup reaches its prepare quorum its
\* own PREPARE has been broadcast already.
CommitAfterOwnPrepare ==
  \A m \in msgs : m.type = "commit" /\ m.from # Primary =>
    PrepareMsg(m.from, m.op, m.size, m.digest) \in msgs

\* The comment in HandleCommit, 2f+1 -> 2f as for PREPARE: when the quorum of 2f
\* foreign COMMITs is complete the replica's own COMMIT makes it 2f+1.
ExecuteAfterOwnCommit ==
  \A r \in Replicas : \A op \in committed[r] :
    \E m \in msgs : /\ m.type = "commit" /\ m.from = r
                    /\ op \in m.op .. (m.op + m.size) - 1

\* With every message delivered a request completes, unless a process aborts, a
\* backup goes to COMMIT without having broadcast its PREPARE, or a replica
\* executes without having broadcast its COMMIT.
Completes ==
  \A c \in Clients : pending[c] # 0 ~>
    \/ pending[c] = 0
    \/ stopped # Crashed
    \/ ~CommitAfterOwnPrepare
    \/ ~ExecuteAfterOwnCommit
=============================================================================
