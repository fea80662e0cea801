---------------------------- MODULE PBFTProofs ----------------------------
(***************************************************************************)
(* PBFT for every number of replicas, clients, requests and batch size,    *)
(* without need of the bounds.  First the type invariant and Agreement;    *)
(* then what the quorums are worth: a COMMIT rests on 2f PREPAREs, an      *)
(* executed request is in the log of 2f replicas that sent COMMIT for it,  *)
(* f+1 replicas have executed a completed request, and the buffer of early *)
(* PREPREPAREs strands no request.  Last, PBFT implements ReplicatedLog.   *)
(***************************************************************************)
EXTENDS PBFT, ProofFacts

USE ReplicasAssumption, FaultAssumption, BatchAssumption, BoundAssumption

IInv == TypeOK /\ PrimaryOrder

\* The fields of a message of each type.
LEMMA MessageFields ==
  ASSUME msgs \subseteq Message, NEW m \in msgs
  PROVE  /\ m.type = "request" =>
              m.client \in Clients /\ m.num \in Opnum /\ m.to \subseteq Replicas
         /\ m.type = "reply" =>
              m.client \in Clients /\ m.num \in Opnum /\ m.from \in Replicas
         /\ m.type = "preprepare" =>
              m.op \in Opnum /\ m.reqs \in Seq(Request) /\ m.digest \in Seq(Request)
         /\ m.type \in {"prepare", "commit"} =>
              /\ m.op \in Opnum /\ m.size \in Nat
              /\ m.digest \in Seq(Request) /\ m.from \in Replicas
BY DEF Message

\* The constructors build messages.
LEMMA Constructors ==
  /\ \A c \in Clients, n \in Opnum, to \in SUBSET Replicas : RequestMsg(c, n, to) \in Message
  /\ \A r \in Replicas, req \in Request : ReplyMsg(r, req) \in Message
  /\ \A r \in Replicas, op \in Opnum, size \in Nat, d \in Seq(Request) :
        PrepareMsg(r, op, size, d) \in Message /\ CommitMsg(r, op, size, d) \in Message
  /\ \A lg, b \in Seq(Request) : Len(b) <= Len(lg) => CloseBatch(lg, b) \in Message
<1>1. \A c \in Clients, n \in Opnum, to \in SUBSET Replicas : RequestMsg(c, n, to) \in Message
  BY DEF RequestMsg, Message
<1>2. \A r \in Replicas, req \in Request : ReplyMsg(r, req) \in Message
  BY DEF ReplyMsg, Message, Request, Opnum
<1>3. \A r \in Replicas, op \in Opnum, size \in Nat, d \in Seq(Request) :
        PrepareMsg(r, op, size, d) \in Message /\ CommitMsg(r, op, size, d) \in Message
  BY DEF PrepareMsg, CommitMsg, Message
<1>4. ASSUME NEW lg \in Seq(Request), NEW b \in Seq(Request), Len(b) <= Len(lg)
      PROVE  CloseBatch(lg, b) \in Message
  <2>1. (Len(lg) + 1) - Len(b) \in Opnum
    BY <1>4 DEF Opnum
  <2> QED BY <1>4, <2>1 DEF CloseBatch, Message
<1> QED BY <1>1, <1>2, <1>3, <1>4

-----------------------------------------------------------------------------
\* The initial states have the types.
LEMMA InitType == Init => TypeOK
BY DEF Init, TypeOK

\* The end of a process keeps the types.
LEMMA StopType == ASSUME TypeOK, NEW p \in Replicas \cup Clients, Stop(p) PROVE TypeOK'
BY DEF TypeOK, Stop, replicaVars, primaryVars, clientVars

\* The clients' steps keep the types.
LEMMA ClientType ==
  ASSUME TypeOK, NEW c \in Clients, ClientStep(c)
  PROVE  TypeOK'
<1>1. CASE Invoke(c)
  <2>1. RequestMsg(c, last_req[c] + 1, IF last_req[c] = 0 THEN Replicas ELSE {Primary}) \in Message
    BY Constructors DEF TypeOK, Opnum
  <2> QED BY <1>1, <2>1 DEF TypeOK, Invoke, Send, replicaVars, primaryVars
<1>2. CASE ResendRequest(c)
  <2>1. CASE pending[c] # 0
    <3>1. RequestMsg(c, pending[c], Replicas) \in Message
      BY <2>1, Constructors DEF TypeOK, Opnum
    <3> QED BY <1>2, <2>1, <3>1
            DEF TypeOK, ResendRequest, Send, replicaVars, primaryVars, clientVars
  <2>2. CASE pending[c] = 0
    BY <1>2, <2>2, StopType DEF ResendRequest
  <2> QED BY <2>1, <2>2
<1>3. CASE \E m \in msgs : ReceiveReply(c, m)
  <2>1. PICK m \in msgs : ReceiveReply(c, m)
    BY <1>3
  <2>2. m.from \in Replicas
    BY <2>1, MessageFields DEF TypeOK, ReceiveReply
  <2> QED BY <2>1, <2>2 DEF TypeOK, ReceiveReply, replicaVars, primaryVars
<1> QED BY <1>1, <1>2, <1>3 DEF ClientStep

\* HandleRequest keeps the types.
LEMMA RequestType ==
  ASSUME TypeOK, BatchIsSuffix, NEW r \in Replicas, NEW m \in msgs, HandleRequest(r, m)
  PROVE  TypeOK'
<1> DEFINE req   == [client |-> m.client, num |-> m.num]
           entry == client_table[r][m.client]
<1>1. m.client \in Clients /\ m.num \in Opnum
  BY MessageFields DEF TypeOK, HandleRequest
<1>2. req \in Request
  BY <1>1 DEF Request, Opnum
<1>3. CASE Stop(r)
  BY <1>3, StopType
<1>4. CASE /\ Send(IF m.num = entry.num /\ entry.has_reply THEN {ReplyMsg(r, req)} ELSE {})
           /\ UNCHANGED <<replicaVars, primaryVars, stopped, clientVars>>
  BY <1>2, <1>4, Constructors DEF TypeOK, Send, replicaVars, primaryVars, clientVars
<1>5. CASE LogRequest(req)
  <2> DEFINE lg == Append(log[Primary], req)
             b  == Append(request_batch, req)
  <2>1. lg \in Seq(Request) /\ b \in Seq(Request) /\ Len(b) <= Len(lg)
    BY <1>2 DEF TypeOK, BatchIsSuffix
  <2>2. CloseBatch(lg, b) \in Message
    BY <2>1, Constructors
  <2>3. request_batch' \in Seq(Request) /\ msgs' \subseteq Message
    <3> HIDE DEF lg, b
    <3>1. CASE Len(b) >= BatchSize
      <4>1. request_batch' = <<>> /\ msgs' = msgs \cup {CloseBatch(lg, b)}
        BY <1>5, <3>1 DEF LogRequest, Send, lg, b
      <4> QED BY <4>1, <2>2 DEF TypeOK
    <3>2. CASE ~(Len(b) >= BatchSize)
      <4>1. request_batch' = b /\ msgs' = msgs
        BY <1>5, <3>2 DEF LogRequest, b
      <4> QED BY <4>1, <2>1 DEF TypeOK
    <3> QED BY <3>1, <3>2
  <2>4. log' \in [Replicas -> Seq(Request)]
    BY <1>5, <2>1 DEF TypeOK, LogRequest
  <2>5. client_table' \in [Replicas -> [Clients -> [num : Nat, has_reply : BOOLEAN]]]
    BY <1>5, <1>1 DEF TypeOK, LogRequest, Opnum
  <2> HIDE DEF lg, b, req
  <2> QED BY <1>5, <2>3, <2>4, <2>5 DEF TypeOK, LogRequest, clientVars
<1>6. CASE /\ client_table' = [client_table EXCEPT ![r][m.client] =
                  [num |-> 1, has_reply |-> FALSE]]
           /\ UNCHANGED <<log, prepared, committed, commit_number,
                          prepare_quorum, commit_quorum, request_buffer,
                          primaryVars, stopped, clientVars, msgs>>
  BY <1>1, <1>6 DEF TypeOK, primaryVars, clientVars
<1>7. CASE /\ Send({RequestMsg(m.client, m.num, {Primary})})
           /\ UNCHANGED <<replicaVars, primaryVars, stopped, clientVars>>
  <2>1. RequestMsg(m.client, m.num, {Primary}) \in Message
    <3>1. {Primary} \in SUBSET Replicas
      OBVIOUS
    <3> QED BY <1>1, <3>1, Constructors
  <2> QED BY <1>7, <2>1 DEF TypeOK, Send, replicaVars, primaryVars, clientVars
<1> QED BY <1>3, <1>4, <1>5, <1>6, <1>7 DEF HandleRequest

\* The number of buffered requests drained, and that they are in the buffer.
LEMMA Drained ==
  ASSUME NEW b, NEW n \in Nat, NEW k \in DrainCounts(b, n)
  PROVE  k \in Nat /\ \A i \in 1 .. k : n + i \in DOMAIN b
BY DEF DrainCounts

\* InsertPrepare keeps the types of what it changes.
LEMMA InsertPrepareType ==
  ASSUME TypeOK, NEW r \in Replicas, NEW s \in Replicas, NEW p, NEW lastOp, NEW ms,
         p.op \in Opnum, p.size \in Nat, p.digest \in Seq(Request),
         ms \subseteq Message, InsertPrepare(r, p, s, lastOp, ms)
  PROVE  /\ prepare_quorum' \in [Replicas -> SUBSET Certificate]
         /\ prepared' \in [Replicas -> SUBSET Opnum]
         /\ msgs' \subseteq Message
<1>1. <<p.op, p.digest, s>> \in Certificate
  BY DEF Certificate
<1>2. CommitMsg(r, p.op, p.size, p.digest) \in Message
  BY Constructors
<1>3. prepare_quorum' = [prepare_quorum EXCEPT ![r] = @ \cup {<<p.op, p.digest, s>>}]
  BY DEF InsertPrepare
<1>4. prepare_quorum' \in [Replicas -> SUBSET Certificate]
  <2> DEFINE t == <<p.op, p.digest, s>>
  <2> HIDE DEF t
  <2> QED BY <1>1, <1>3 DEF TypeOK, t
<1>5. \/ prepared' = prepared
      \/ prepared' = [prepared EXCEPT ![r] = @ \cup {p.op}]
  BY DEF InsertPrepare
<1>6. \/ msgs' = msgs \cup ms
      \/ msgs' = msgs \cup {CommitMsg(r, p.op, p.size, p.digest)}
  BY DEF InsertPrepare, Send
<1>7. prepared' \in [Replicas -> SUBSET Opnum]
  <2>1. prepared \in [Replicas -> SUBSET Opnum]
    BY DEF TypeOK
  <2>2. [prepared EXCEPT ![r] = @ \cup {p.op}] \in [Replicas -> SUBSET Opnum]
    BY <2>1
  <2> QED BY <1>5, <2>1, <2>2
<1>8. msgs' \subseteq Message
  <2>1. msgs \subseteq Message
    BY DEF TypeOK
  <2> QED BY <1>2, <1>6, <2>1
<1> QED BY <1>4, <1>7, <1>8

\* HandlePreprepare keeps the types.
LEMMA PreprepareType ==
  ASSUME TypeOK, NEW r \in Replicas, NEW m \in msgs, HandlePreprepare(r, m)
  PROVE  TypeOK'
<1> DEFINE n   == Len(log[r])
           p   == [op |-> m.op, size |-> Len(m.reqs), digest |-> m.digest]
           own == OwnPrepare(r, p)
           b   == request_buffer[r]
           n1  == n + Len(m.reqs)
           buffered == [op \in m.op .. (m.op + Len(m.reqs)) - 1 |-> m.reqs[(op - m.op) + 1]]
<1>1. m.op \in Opnum /\ m.reqs \in Seq(Request) /\ m.digest \in Seq(Request)
  BY MessageFields DEF TypeOK, HandlePreprepare
<1>2. /\ n \in Nat /\ n1 \in Nat
      /\ p.op \in Opnum /\ p.size \in Nat /\ p.digest \in Seq(Request)
  BY <1>1 DEF TypeOK
<1>3. own \subseteq Message
  BY <1>2, Constructors DEF OwnPrepare
<1>4. CASE Stop(r)
  BY <1>4, StopType
<1>5. CASE /\ request_buffer' = [request_buffer EXCEPT ![r] =
                [op \in DOMAIN buffered \cup DOMAIN @ |->
                   IF op \in DOMAIN buffered THEN buffered[op] ELSE @[op]]]
           /\ InsertPrepare(r, p, Primary, n, own)
           /\ UNCHANGED <<log, committed, commit_number, client_table,
                          commit_quorum, primaryVars, stopped, clientVars>>
  <2>1. \A op \in DOMAIN buffered : op \in Opnum /\ buffered[op] \in Request
    BY <1>1 DEF Opnum
  <2>2. /\ DOMAIN request_buffer' = Replicas
        /\ \A q \in Replicas : /\ DOMAIN request_buffer'[q] \subseteq Opnum
                                /\ \A op \in DOMAIN request_buffer'[q] :
                                     request_buffer'[q][op] \in Request
    <3> HIDE DEF buffered
    <3> QED BY <1>5, <2>1 DEF TypeOK
  <2> HIDE DEF p, own, n, buffered
  <2>3. /\ prepare_quorum' \in [Replicas -> SUBSET Certificate]
        /\ prepared' \in [Replicas -> SUBSET Opnum]
        /\ msgs' \subseteq Message
    BY <1>2, <1>3, <1>5, InsertPrepareType
  <2> QED BY <1>5, <2>2, <2>3 DEF TypeOK, primaryVars, clientVars
<1>6. CASE \E k \in DrainCounts(b, n1) :
             /\ log' = [log EXCEPT ![r] = (@ \o m.reqs) \o [i \in 1 .. k |-> b[n1 + i]]]
             /\ request_buffer' = [request_buffer EXCEPT ![r] =
                  [op \in DOMAIN b \ ((n1 + 1) .. (n1 + k)) |-> b[op]]]
             /\ InsertPrepare(r, p, Primary, n1 + k, own)
             /\ UNCHANGED <<committed, commit_number, client_table,
                            commit_quorum, primaryVars, stopped, clientVars>>
  <2>1. PICK k \in DrainCounts(b, n1) :
             /\ log' = [log EXCEPT ![r] = (@ \o m.reqs) \o [i \in 1 .. k |-> b[n1 + i]]]
             /\ request_buffer' = [request_buffer EXCEPT ![r] =
                  [op \in DOMAIN b \ ((n1 + 1) .. (n1 + k)) |-> b[op]]]
             /\ InsertPrepare(r, p, Primary, n1 + k, own)
             /\ UNCHANGED <<committed, commit_number, client_table,
                            commit_quorum, primaryVars, stopped, clientVars>>
    BY <1>6
  <2>2. k \in Nat /\ \A i \in 1 .. k : n1 + i \in DOMAIN b
    BY <1>2, Drained
  <2>3. \A op \in DOMAIN b : op \in Opnum /\ b[op] \in Request
    BY DEF TypeOK
  <2>4. [i \in 1 .. k |-> b[n1 + i]] \in Seq(Request)
    <3> HIDE DEF b, n1
    <3> QED BY <2>2, <2>3
  <2>5. log' \in [Replicas -> Seq(Request)]
    <3> DEFINE drained == [i \in 1 .. k |-> b[n1 + i]]
    <3>1. (log[r] \o m.reqs) \o drained \in Seq(Request)
      <4> HIDE DEF drained
      <4> QED BY <1>1, <2>4 DEF TypeOK, drained
    <3> HIDE DEF drained
    <3> QED BY <2>1, <3>1 DEF TypeOK, drained
  <2>6. /\ DOMAIN request_buffer' = Replicas
        /\ \A q \in Replicas : /\ DOMAIN request_buffer'[q] \subseteq Opnum
                                /\ \A op \in DOMAIN request_buffer'[q] :
                                     request_buffer'[q][op] \in Request
    <3> HIDE DEF n1
    <3> QED BY <2>1, <2>3 DEF TypeOK
  <2> HIDE DEF p, own, n, n1, b
  <2>7. /\ prepare_quorum' \in [Replicas -> SUBSET Certificate]
        /\ prepared' \in [Replicas -> SUBSET Opnum]
        /\ msgs' \subseteq Message
    BY <1>2, <1>3, <2>1, InsertPrepareType
  <2> QED BY <2>1, <2>5, <2>6, <2>7 DEF TypeOK, primaryVars, clientVars
<1> QED BY <1>4, <1>5, <1>6 DEF HandlePreprepare

\* HandlePrepare keeps the types.
LEMMA PrepareType ==
  ASSUME TypeOK, NEW r \in Replicas, NEW m \in msgs, HandlePrepare(r, m)
  PROVE  TypeOK'
<1>1. /\ m.op \in Opnum /\ m.size \in Nat
      /\ m.digest \in Seq(Request) /\ m.from \in Replicas
  BY MessageFields DEF TypeOK, HandlePrepare
<1>2. CASE Stop(r)
  BY <1>2, StopType
<1>3. CASE /\ InsertPrepare(r, m, m.from, Len(log[r]), {})
           /\ UNCHANGED <<log, committed, commit_number, client_table,
                          commit_quorum, request_buffer, primaryVars, stopped,
                          clientVars>>
  <2>1. /\ prepare_quorum' \in [Replicas -> SUBSET Certificate]
        /\ prepared' \in [Replicas -> SUBSET Opnum]
        /\ msgs' \subseteq Message
    BY <1>1, <1>3, InsertPrepareType
  <2> QED BY <1>3, <2>1 DEF TypeOK, primaryVars, clientVars
<1> QED BY <1>2, <1>3 DEF HandlePrepare

\* HandleCommit keeps the types.
LEMMA CommitType ==
  ASSUME TypeOK, NEW r \in Replicas, NEW m \in msgs, HandleCommit(r, m)
  PROVE  TypeOK'
<1> DEFINE cert   == <<m.op, m.digest, m.from>>
           quorum == commit_quorum[r] \cup {cert}
           batch  == m.op .. (m.op + m.size) - 1
           done   == committed[r] \cup batch
<1>1. /\ m.op \in Opnum /\ m.size \in Nat
      /\ m.digest \in Seq(Request) /\ m.from \in Replicas
  BY MessageFields DEF TypeOK, HandleCommit
<1>2. cert \in Certificate
  BY <1>1 DEF Certificate
<1>3. [commit_quorum EXCEPT ![r] = quorum] \in [Replicas -> SUBSET Certificate]
  <2> HIDE DEF cert
  <2> QED BY <1>2 DEF TypeOK
<1>4. batch \subseteq Opnum
  BY <1>1 DEF Opnum
<1>5. CASE Stop(r)
  BY <1>5, StopType
<1>6. CASE /\ commit_quorum' = [commit_quorum EXCEPT ![r] = quorum]
           /\ UNCHANGED <<log, prepared, committed, commit_number, client_table,
                          prepare_quorum, request_buffer, primaryVars, stopped,
                          clientVars, msgs>>
  <2> HIDE DEF quorum
  <2> QED BY <1>3, <1>6 DEF TypeOK, primaryVars, clientVars
<1>7. CASE \E k \in ExecuteLimits(r, done) :
             /\ commit_quorum' = [commit_quorum EXCEPT ![r] = quorum]
             /\ committed' = [committed EXCEPT ![r] = done]
             /\ prepared' = [prepared EXCEPT ![r] = @ \ done]
             /\ commit_number' = [commit_number EXCEPT ![r] = k]
             /\ client_table' = [client_table EXCEPT ![r] =
                                   TableAfter(r, commit_number[r] + 1, k)]
             /\ Send({ReplyMsg(r, log[r][i]) : i \in (commit_number[r] + 1) .. k})
             /\ UNCHANGED <<log, prepare_quorum, request_buffer,
                            primaryVars, stopped, clientVars>>
  <2>1. PICK k \in ExecuteLimits(r, done) :
             /\ commit_quorum' = [commit_quorum EXCEPT ![r] = quorum]
             /\ committed' = [committed EXCEPT ![r] = done]
             /\ prepared' = [prepared EXCEPT ![r] = @ \ done]
             /\ commit_number' = [commit_number EXCEPT ![r] = k]
             /\ client_table' = [client_table EXCEPT ![r] =
                                   TableAfter(r, commit_number[r] + 1, k)]
             /\ Send({ReplyMsg(r, log[r][i]) : i \in (commit_number[r] + 1) .. k})
             /\ UNCHANGED <<log, prepare_quorum, request_buffer,
                            primaryVars, stopped, clientVars>>
    BY <1>7
  <2>2. k \in Nat /\ k <= Len(log[r]) /\ commit_number[r] \in Nat
    BY DEF ExecuteLimits, TypeOK
  <2>3. \A i \in (commit_number[r] + 1) .. k : log[r][i] \in Request
    BY <2>2 DEF TypeOK
  <2>4. msgs' \subseteq Message
    <3> DEFINE replies == {ReplyMsg(r, log[r][i]) : i \in (commit_number[r] + 1) .. k}
    <3>1. replies \subseteq Message
      BY <2>3, Constructors
    <3> HIDE DEF replies
    <3>2. msgs' = msgs \cup replies
      BY <2>1 DEF Send, replies
    <3> QED BY <3>1, <3>2 DEF TypeOK
  <2>5. TableAfter(r, commit_number[r] + 1, k) \in [Clients -> [num : Nat, has_reply : BOOLEAN]]
    <3> SUFFICES ASSUME NEW c \in Clients
                 PROVE  TableAfter(r, commit_number[r] + 1, k)[c]
                          \in [num : Nat, has_reply : BOOLEAN]
      BY DEF TableAfter
    <3> DEFINE ops  == {i \in (commit_number[r] + 1) .. k : log[r][i].client = c}
               last == CHOOSE i \in ops : \A j \in ops : j <= i
    <3>1. CASE ops = {}
      <4>1. TableAfter(r, commit_number[r] + 1, k)[c] = client_table[r][c]
        BY <3>1 DEF TableAfter
      <4> QED BY <4>1 DEF TypeOK
    <3>2. CASE ops # {}
      <4>1. \E i \in ops : \A j \in ops : j <= i
        <5>1. commit_number[r] + 1 \in Nat /\ ops \in SUBSET ((commit_number[r] + 1) .. k)
          BY <2>2
        <5> HIDE DEF ops
        <5> QED BY <2>2, <3>2, <5>1, LastOfOps
      <4>2. last \in ops
        BY <4>1
      <4>3. log[r][last].num \in Nat
        BY <4>2, <2>3 DEF Request
      <4>4. TableAfter(r, commit_number[r] + 1, k)[c]
              = [num |-> log[r][last].num, has_reply |-> TRUE]
        BY <3>2 DEF TableAfter
      <4> HIDE DEF last, ops
      <4>5. [num |-> log[r][last].num, has_reply |-> TRUE] \in [num : Nat, has_reply : BOOLEAN]
        BY <4>3
      <4> QED BY <4>4, <4>5, Zenon
    <3> QED BY <3>1, <3>2
  <2> HIDE DEF quorum, done
  <2>6. committed' \in [Replicas -> SUBSET Opnum] /\ prepared' \in [Replicas -> SUBSET Opnum]
    BY <2>1, <1>4 DEF TypeOK, done
  <2>7. /\ commit_quorum' \in [Replicas -> SUBSET Certificate]
        /\ commit_number' \in [Replicas -> Nat]
    BY <2>1, <2>2, <1>3 DEF TypeOK
  <2>8. client_table' \in [Replicas -> [Clients -> [num : Nat, has_reply : BOOLEAN]]]
    BY <2>1, <2>5 DEF TypeOK
  <2> QED BY <2>1, <2>4, <2>6, <2>7, <2>8 DEF TypeOK, primaryVars, clientVars
<1> QED BY <1>5, <1>6, <1>7 DEF HandleCommit

\* Every step keeps the types.
LEMMA NextType ==
  ASSUME TypeOK, BatchIsSuffix, [Next]_vars
  PROVE  TypeOK'
<1>1. CASE UNCHANGED vars
  BY <1>1 DEF TypeOK, vars, replicaVars, primaryVars, clientVars
<1>2. CASE CloseBatchTimeout
  BY <1>2 DEF TypeOK, CloseBatchTimeout, replicaVars, clientVars
<1>3. CASE RunCloseBatch
  <2>1. CloseBatch(log[Primary], request_batch) \in Message
    BY Constructors DEF TypeOK, BatchIsSuffix
  <2> QED BY <1>3, <2>1 DEF TypeOK, RunCloseBatch, Send, replicaVars, clientVars
<1>4. CASE \E c \in Clients : ClientStep(c)
  BY <1>4, ClientType
<1>5. CASE \E r \in Replicas, m \in msgs : Handle(r, m)
  BY <1>5, RequestType, PreprepareType, PrepareType, CommitType DEF Handle
<1> QED BY <1>1, <1>2, <1>3, <1>4, <1>5 DEF Next

-----------------------------------------------------------------------------
(***************************************************************************)
(* Every step keeps PrimaryOrder.                                          *)
(***************************************************************************)

LEMMA InitOrder == Init => PrimaryOrder
BY DEF Init, PrimaryOrder, BatchIsSuffix, PrepreparesFromLog, LogsArePrefixes, BuffersFromLog

\* A step that changes no log, batch or buffer and sends no PREPREPARE.
LEMMA OrderFrame ==
  ASSUME PrimaryOrder, UNCHANGED <<log, request_batch, request_buffer, commit_number>>,
         \A m \in msgs' : m \in msgs \/ m.type # "preprepare"
  PROVE  PrimaryOrder'
BY DEF PrimaryOrder, BatchIsSuffix, PrepreparesFromLog, LogsArePrefixes, BuffersFromLog

\* No message but CloseBatch's is a PREPREPARE.
LEMMA NotPreprepare ==
  /\ \A c, n, to : RequestMsg(c, n, to).type # "preprepare"
  /\ \A r, req : ReplyMsg(r, req).type # "preprepare"
  /\ \A r, op, size, d : PrepareMsg(r, op, size, d).type # "preprepare"
  /\ \A r, op, size, d : CommitMsg(r, op, size, d).type # "preprepare"
BY DEF RequestMsg, ReplyMsg, PrepareMsg, CommitMsg

\* The end of a process keeps the order.
LEMMA StopOrder == ASSUME PrimaryOrder, NEW p, Stop(p) PROVE PrimaryOrder'
BY OrderFrame DEF Stop, replicaVars, primaryVars

\* The clients' steps keep the order.
LEMMA ClientOrder ==
  ASSUME PrimaryOrder, NEW c \in Clients, ClientStep(c)
  PROVE  PrimaryOrder'
<1>1. CASE Invoke(c)
  BY <1>1, OrderFrame, NotPreprepare DEF Invoke, Send, replicaVars, primaryVars
<1>2. CASE ResendRequest(c)
  BY <1>2, OrderFrame, StopOrder, NotPreprepare DEF ResendRequest, Send, replicaVars, primaryVars
<1>3. CASE \E m \in msgs : ReceiveReply(c, m)
  BY <1>3, OrderFrame DEF ReceiveReply, replicaVars, primaryVars
<1> QED BY <1>1, <1>2, <1>3 DEF ClientStep

\* Sending the last Len(b) entries of the primary's log lg as a PREPREPARE.
LEMMA CloseBatchFromLog ==
  ASSUME NEW lg \in Seq(Request), NEW b \in Seq(Request), Len(b) <= Len(lg),
         \A i \in 1 .. Len(b) : b[i] = lg[(Len(lg) - Len(b)) + i]
  PROVE  LET m == CloseBatch(lg, b)
         IN  /\ (m.op + Len(m.reqs)) - 1 <= Len(lg)
             /\ \A i \in 1 .. Len(m.reqs) : m.reqs[i] = lg[(m.op + i) - 1]
<1> DEFINE m == CloseBatch(lg, b)
<1>1. m.op = (Len(lg) + 1) - Len(b) /\ m.reqs = b
  BY DEF CloseBatch
<1>2. \A i \in 1 .. Len(b) : (m.op + i) - 1 = (Len(lg) - Len(b)) + i
  BY <1>1
<1> HIDE DEF m
<1>3. (m.op + Len(m.reqs)) - 1 <= Len(lg)
  BY <1>1
<1>4. \A i \in 1 .. Len(m.reqs) : m.reqs[i] = lg[(m.op + i) - 1]
  BY <1>1, <1>2
<1> QED BY <1>3, <1>4 DEF m

\* The opnums of a batch lie in a log that holds its last one.
LEMMA BatchIndex ==
  ASSUME NEW op \in Opnum, NEW size \in Nat, NEW len \in Nat, (op + size) - 1 <= len
  PROVE  \A i \in 1 .. size : (op + i) - 1 \in 1 .. len
BY DEF Opnum

\* A beginning of lp followed by the piece of lp behind it is a beginning of lp.
LEMMA PrefixConcat ==
  ASSUME NEW S, NEW lp \in Seq(S), NEW lg \in Seq(S), NEW x \in Seq(S),
         Len(lg) + Len(x) <= Len(lp),
         \A i \in 1 .. Len(lg) : lg[i] = lp[i],
         \A i \in 1 .. Len(x) : x[i] = lp[Len(lg) + i]
  PROVE  /\ lg \o x \in Seq(S)
         /\ Len(lg \o x) = Len(lg) + Len(x)
         /\ \A i \in 1 .. Len(lg) + Len(x) : (lg \o x)[i] = lp[i]
<1>1. lg \o x \in Seq(S) /\ Len(lg \o x) = Len(lg) + Len(x)
  OBVIOUS
<1>2. ASSUME NEW i \in 1 .. Len(lg) + Len(x)
      PROVE  (lg \o x)[i] = lp[i]
  <2>1. CASE i <= Len(lg)
    BY <2>1
  <2>2. CASE i > Len(lg)
    <3>1. (lg \o x)[i] = x[i - Len(lg)] /\ i - Len(lg) \in 1 .. Len(x)
      BY <2>2
    <3>2. Len(lg) + (i - Len(lg)) = i
      OBVIOUS
    <3> QED BY <3>1, <3>2
  <2> QED BY <2>1, <2>2
<1> QED BY <1>1, <1>2

\* Appending a request to the primary's log and to its batch.
LEMMA LogRequestOrder ==
  ASSUME TypeOK, PrimaryOrder, NEW req \in Request, LogRequest(req)
  PROVE  PrimaryOrder'
<1> DEFINE lg == Append(log[Primary], req)
           b  == Append(request_batch, req)
<1>1. /\ log[Primary] \in Seq(Request) /\ request_batch \in Seq(Request)
      /\ lg \in Seq(Request) /\ b \in Seq(Request)
      /\ Len(lg) = Len(log[Primary]) + 1 /\ Len(b) = Len(request_batch) + 1
  BY DEF TypeOK
<1>2. \A i \in 1 .. Len(log[Primary]) : lg[i] = log[Primary][i]
  BY <1>1
<1>3. /\ Len(b) <= Len(lg)
      /\ \A i \in 1 .. Len(b) : b[i] = lg[(Len(lg) - Len(b)) + i]
  BY SMTT(30), <1>1 DEF PrimaryOrder, BatchIsSuffix
<1>4. /\ log' = [log EXCEPT ![Primary] = lg]
      /\ UNCHANGED <<commit_number, request_buffer>>
      /\ \/ request_batch' = <<>> /\ msgs' = msgs \cup {CloseBatch(lg, b)}
         \/ request_batch' = b /\ msgs' = msgs
  BY DEF LogRequest, Send
<1>5. /\ log'[Primary] = lg
      /\ \A r \in Replicas : r # Primary => log'[r] = log[r]
  BY <1>4 DEF TypeOK
<1> HIDE DEF lg, b
<1>6. BatchIsSuffix'
  BY SMTT(30), <1>1, <1>3, <1>4, <1>5 DEF BatchIsSuffix
<1>7. PrepreparesFromLog'
  <2> SUFFICES ASSUME NEW m \in msgs', m.type = "preprepare"
               PROVE  /\ (m.op + Len(m.reqs)) - 1 <= Len(lg)
                      /\ \A i \in 1 .. Len(m.reqs) : m.reqs[i] = lg[(m.op + i) - 1]
    BY <1>5 DEF PrepreparesFromLog
  <2>1. CASE m \in msgs
    <3>1. m.op \in Opnum /\ m.reqs \in Seq(Request)
      BY <2>1, MessageFields DEF TypeOK
    <3>2. /\ (m.op + Len(m.reqs)) - 1 <= Len(log[Primary])
          /\ \A i \in 1 .. Len(m.reqs) : m.reqs[i] = log[Primary][(m.op + i) - 1]
      BY <2>1 DEF PrimaryOrder, PrepreparesFromLog
    <3>3. \A i \in 1 .. Len(m.reqs) : (m.op + i) - 1 \in 1 .. Len(log[Primary])
      <4> DEFINE op == m.op
                 size == Len(m.reqs)
                 len == Len(log[Primary])
      <4>1. op \in Opnum /\ size \in Nat /\ len \in Nat /\ (op + size) - 1 <= len
        BY <1>1, <3>1, <3>2
      <4> HIDE DEF op, size, len
      <4>2. \A i \in 1 .. size : (op + i) - 1 \in 1 .. len
        BY <4>1, BatchIndex
      <4> QED BY <4>2 DEF op, size, len
    <3>4. (m.op + Len(m.reqs)) - 1 <= Len(lg)
      BY <1>1, <3>1, <3>2 DEF Opnum
    <3> QED BY <1>2, <3>2, <3>3, <3>4
  <2>2. CASE m = CloseBatch(lg, b)
    BY <2>2, <1>1, <1>3, CloseBatchFromLog
  <2> QED BY <1>4, <2>1, <2>2
<1>8. LogsArePrefixes'
  <2> SUFFICES ASSUME NEW r \in Replicas
               PROVE  /\ commit_number[r] <= Len(log'[r])
                      /\ Len(log'[r]) <= Len(lg)
                      /\ \A i \in 1 .. Len(log'[r]) : log'[r][i] = lg[i]
    BY <1>4, <1>5 DEF LogsArePrefixes
  <2>1. /\ commit_number[r] \in Nat /\ commit_number[r] <= Len(log[r])
        /\ Len(log[r]) \in Nat /\ Len(log[r]) <= Len(log[Primary])
        /\ \A i \in 1 .. Len(log[r]) : log[r][i] = log[Primary][i]
    BY DEF PrimaryOrder, LogsArePrefixes, TypeOK
  <2>2. CASE r = Primary
    BY <2>1, <2>2, <1>1, <1>5
  <2>3. CASE r # Primary
    <3>1. log'[r] = log[r]
      BY <2>3, <1>5
    <3>2. \A i \in 1 .. Len(log[r]) : i \in 1 .. Len(log[Primary])
      BY <1>1, <2>1
    <3>3. Len(log[r]) <= Len(lg)
      BY <1>1, <2>1
    <3> QED BY <2>1, <3>1, <3>2, <3>3, <1>2
  <2> QED BY <2>2, <2>3
<1>9. BuffersFromLog'
  <2> SUFFICES ASSUME NEW r \in Replicas, NEW op \in DOMAIN request_buffer[r]
               PROVE  op <= Len(lg) /\ request_buffer[r][op] = lg[op]
    BY <1>4, <1>5 DEF BuffersFromLog
  <2>1. op \in Nat \ {0} /\ op <= Len(log[Primary])
    BY DEF PrimaryOrder, BuffersFromLog, TypeOK, Opnum
  <2>2. request_buffer[r][op] = log[Primary][op]
    BY DEF PrimaryOrder, BuffersFromLog
  <2>3. op <= Len(lg) /\ op \in 1 .. Len(log[Primary])
    BY <1>1, <2>1
  <2> QED BY <1>2, <2>2, <2>3
<1> QED BY <1>6, <1>7, <1>8, <1>9 DEF PrimaryOrder

\* HandleRequest keeps the order.
LEMMA RequestOrder ==
  ASSUME TypeOK, PrimaryOrder, NEW r \in Replicas, NEW m \in msgs, HandleRequest(r, m)
  PROVE  PrimaryOrder'
<1> DEFINE req == [client |-> m.client, num |-> m.num]
<1>1. req \in Request
  BY MessageFields DEF TypeOK, HandleRequest, Request, Opnum
<1>2. CASE LogRequest(req)
  BY <1>1, <1>2, LogRequestOrder
<1>3. CASE Stop(r)
  BY <1>3, StopOrder
<1>4. CASE /\ UNCHANGED <<log, request_batch, request_buffer, commit_number>>
           /\ \/ msgs' = msgs
              \/ msgs' = msgs \cup {ReplyMsg(r, req)}
              \/ msgs' = msgs \cup {RequestMsg(m.client, m.num, {Primary})}
  BY <1>4, OrderFrame, NotPreprepare
<1> QED BY <1>2, <1>3, <1>4 DEF HandleRequest, Send, replicaVars, primaryVars

\* InsertPrepare sends a COMMIT or what its caller gives it.
LEMMA InsertPrepareSends ==
  ASSUME NEW r, NEW p, NEW s, NEW lastOp, NEW ms, InsertPrepare(r, p, s, lastOp, ms),
         \A m \in ms : m.type # "preprepare"
  PROVE  \A m \in msgs' : m \in msgs \/ m.type # "preprepare"
<1>1. \/ msgs' = msgs \cup ms
      \/ msgs' = msgs \cup {CommitMsg(r, p.op, p.size, p.digest)}
  BY DEF InsertPrepare, Send
<1> QED BY <1>1, NotPreprepare

\* HandlePreprepare keeps the order.
LEMMA PreprepareOrder ==
  ASSUME TypeOK, PrimaryOrder, NEW r \in Replicas, NEW m \in msgs, HandlePreprepare(r, m)
  PROVE  PrimaryOrder'
<1> DEFINE n   == Len(log[r])
           p   == [op |-> m.op, size |-> Len(m.reqs), digest |-> m.digest]
           own == OwnPrepare(r, p)
           b   == request_buffer[r]
           n1  == n + Len(m.reqs)
           lp  == log[Primary]
           buffered == [op \in m.op .. (m.op + Len(m.reqs)) - 1 |-> m.reqs[(op - m.op) + 1]]
<1>1. /\ m.op \in Nat \ {0} /\ m.reqs \in Seq(Request) /\ Len(m.reqs) \in Nat
      /\ lp \in Seq(Request) /\ Len(lp) \in Nat
      /\ log[r] \in Seq(Request) /\ n \in Nat /\ n1 \in Nat
  <2>1. m.type = "preprepare"
    BY DEF HandlePreprepare
  <2>2. m.op \in Opnum /\ m.reqs \in Seq(Request)
    BY <2>1, MessageFields DEF TypeOK
  <2>3. lp \in Seq(Request) /\ log[r] \in Seq(Request)
    BY DEF TypeOK
  <2>4. m.op \in Nat \ {0}
    BY <2>2 DEF Opnum
  <2>5. Len(m.reqs) \in Nat
    BY <2>2
  <2>6. Len(lp) \in Nat /\ n \in Nat
    BY <2>3
  <2>7. n1 \in Nat
    <3> HIDE DEF n
    <3> QED BY <2>5, <2>6
  <2> QED BY <2>2, <2>3, <2>4, <2>5, <2>6, <2>7
<1>2. /\ (m.op + Len(m.reqs)) - 1 <= Len(lp)
      /\ \A i \in 1 .. Len(m.reqs) : m.reqs[i] = lp[(m.op + i) - 1]
  BY DEF HandlePreprepare, PrimaryOrder, PrepreparesFromLog
<1>3. r # Primary
  BY DEF HandlePreprepare
<1>4. \A x \in own : x.type # "preprepare"
  BY NotPreprepare DEF OwnPrepare
<1>5. CASE Stop(r)
  BY <1>5, StopOrder
<1>6. CASE /\ request_buffer' = [request_buffer EXCEPT ![r] =
                [op \in DOMAIN buffered \cup DOMAIN @ |->
                   IF op \in DOMAIN buffered THEN buffered[op] ELSE @[op]]]
           /\ InsertPrepare(r, p, Primary, n, own)
           /\ UNCHANGED <<log, committed, commit_number, client_table,
                          commit_quorum, primaryVars, stopped, clientVars>>
  <2>1. \A op \in DOMAIN buffered : op <= Len(lp) /\ buffered[op] = lp[op]
    <3> SUFFICES ASSUME NEW op \in m.op .. (m.op + Len(m.reqs)) - 1
                 PROVE  op <= Len(lp) /\ m.reqs[(op - m.op) + 1] = lp[op]
      OBVIOUS
    <3> DEFINE first == m.op
               size  == Len(m.reqs)
               len   == Len(lp)
    <3>1. first \in Nat /\ size \in Nat /\ len \in Nat /\ (first + size) - 1 <= len
      BY <1>1, <1>2
    <3> HIDE DEF first, size, len
    <3>2. op \in first .. (first + size) - 1
      BY DEF first, size
    <3>3. /\ (op - first) + 1 \in 1 .. size
          /\ (first + ((op - first) + 1)) - 1 = op
          /\ op <= len
      BY <3>1, <3>2
    <3> QED BY <1>2, <3>3 DEF first, size, len
  <2>2. \A q \in Replicas : \A op \in DOMAIN request_buffer[q] :
          op <= Len(lp) /\ request_buffer[q][op] = lp[op]
    BY DEF PrimaryOrder, BuffersFromLog
  <2> HIDE DEF buffered, p, own, n
  <2>3. \A x \in msgs' : x \in msgs \/ x.type # "preprepare"
    BY <1>4, <1>6, InsertPrepareSends
  <2>4. UNCHANGED <<log, commit_number, request_batch>>
    BY <1>6 DEF primaryVars
  <2>5. BatchIsSuffix' /\ PrepreparesFromLog' /\ LogsArePrefixes'
    BY <2>3, <2>4 DEF PrimaryOrder, BatchIsSuffix, PrepreparesFromLog, LogsArePrefixes
  <2>6. \A q \in Replicas : \A op \in DOMAIN request_buffer'[q] :
          op <= Len(lp) /\ request_buffer'[q][op] = lp[op]
    <3> HIDE DEF lp
    <3> QED BY <1>6, <2>1, <2>2 DEF TypeOK
  <2>7. BuffersFromLog'
    BY <2>4, <2>6 DEF BuffersFromLog
  <2> QED BY <2>5, <2>7 DEF PrimaryOrder
<1>7. CASE /\ NextInLog(m.op, n)
           /\ \E k \in DrainCounts(b, n1) :
             /\ log' = [log EXCEPT ![r] = (@ \o m.reqs) \o [i \in 1 .. k |-> b[n1 + i]]]
             /\ request_buffer' = [request_buffer EXCEPT ![r] =
                  [op \in DOMAIN b \ ((n1 + 1) .. (n1 + k)) |-> b[op]]]
             /\ InsertPrepare(r, p, Primary, n1 + k, own)
             /\ UNCHANGED <<committed, commit_number, client_table,
                            commit_quorum, primaryVars, stopped, clientVars>>
  <2>1. PICK k \in DrainCounts(b, n1) :
             /\ log' = [log EXCEPT ![r] = (@ \o m.reqs) \o [i \in 1 .. k |-> b[n1 + i]]]
             /\ request_buffer' = [request_buffer EXCEPT ![r] =
                  [op \in DOMAIN b \ ((n1 + 1) .. (n1 + k)) |-> b[op]]]
             /\ InsertPrepare(r, p, Primary, n1 + k, own)
             /\ UNCHANGED <<committed, commit_number, client_table,
                            commit_quorum, primaryVars, stopped, clientVars>>
    BY <1>7
  <2>2. m.op = n + 1
    BY <1>7 DEF NextInLog
  <2>3. k \in Nat /\ \A i \in 1 .. k : n1 + i \in DOMAIN b
    BY <1>1, Drained
  <2>4. \A q \in Replicas : \A op \in DOMAIN request_buffer[q] :
          op <= Len(lp) /\ request_buffer[q][op] = lp[op]
    BY DEF PrimaryOrder, BuffersFromLog
  <2> DEFINE drained == [i \in 1 .. k |-> b[n1 + i]]
             new  == (log[r] \o m.reqs) \o drained
  <2>5. /\ drained \in Seq(Request) /\ Len(drained) = k
        /\ \A i \in 1 .. k : n1 + i <= Len(lp) /\ drained[i] = lp[n1 + i]
    <3>1. \A i \in 1 .. k : b[n1 + i] \in Request
      BY <2>3 DEF TypeOK
    <3> HIDE DEF b, n1, lp
    <3>2. \A i \in 1 .. k : n1 + i <= Len(lp) /\ b[n1 + i] = lp[n1 + i]
      BY <2>3, <2>4 DEF b
    <3> QED BY <2>3, <3>1, <3>2
  <2> HIDE DEF drained
  <2>6. /\ commit_number[r] <= n /\ n <= Len(lp)
        /\ \A i \in 1 .. n : log[r][i] = lp[i]
    BY DEF PrimaryOrder, LogsArePrefixes
  <2>7. /\ log[r] \o m.reqs \in Seq(Request)
        /\ Len(log[r] \o m.reqs) = n1
        /\ n1 <= Len(lp)
        /\ \A i \in 1 .. n1 : (log[r] \o m.reqs)[i] = lp[i]
    <3>1. n + Len(m.reqs) <= Len(lp)
      <4> DEFINE first == m.op
                 size  == Len(m.reqs)
                 len   == Len(lp)
      <4>1. size \in Nat /\ len \in Nat /\ n \in Nat /\ first = n + 1 /\ (first + size) - 1 <= len
        BY <1>1, <1>2, <2>2
      <4> HIDE DEF first, size, len, n
      <4>2. n + size <= len
        BY <4>1
      <4> QED BY <4>2 DEF size, len
    <3>2. \A i \in 1 .. Len(m.reqs) : m.reqs[i] = lp[n + i]
      <4> HIDE DEF n, lp
      <4>1. \A i \in 1 .. Len(m.reqs) : ((n + 1) + i) - 1 = n + i
        BY <1>1
      <4> QED BY <1>2, <2>2, <4>1
    <3> DEFINE lg == log[r]
               x  == m.reqs
    <3>3. /\ lp \in Seq(Request) /\ lg \in Seq(Request) /\ x \in Seq(Request)
          /\ Len(lg) + Len(x) <= Len(lp)
          /\ \A i \in 1 .. Len(lg) : lg[i] = lp[i]
          /\ \A i \in 1 .. Len(x) : x[i] = lp[Len(lg) + i]
      BY <1>1, <2>6, <3>1, <3>2
    <3> HIDE DEF lp, lg, x
    <3>4. /\ lg \o x \in Seq(Request)
          /\ Len(lg \o x) = Len(lg) + Len(x)
          /\ \A i \in 1 .. Len(lg) + Len(x) : (lg \o x)[i] = lp[i]
      BY <3>3, PrefixConcat
    <3> QED BY <3>3, <3>4 DEF lg, x
  <2>8. n1 + k <= Len(lp)
    <3>1. CASE k = 0
      <4> HIDE DEF n1, lp
      <4> QED BY <2>7, <1>1, <3>1
    <3>2. CASE k # 0
      <4>1. k \in 1 .. k
        BY <2>3, <3>2
      <4> QED BY <2>5, <4>1
    <3> QED BY <3>1, <3>2
  <2>9. /\ new \in Seq(Request) /\ Len(new) = n1 + k
        /\ \A i \in 1 .. n1 + k : new[i] = lp[i]
    <3> DEFINE mid == log[r] \o m.reqs
    <3>1. /\ mid \in Seq(Request) /\ Len(mid) = n1
          /\ \A i \in 1 .. n1 : mid[i] = lp[i]
      BY <2>7
    <3> HIDE DEF mid, n1, lp
    <3>2. /\ mid \o drained \in Seq(Request)
          /\ Len(mid \o drained) = n1 + k
          /\ \A i \in 1 .. n1 + k : (mid \o drained)[i] = lp[i]
      <4>1. /\ lp \in Seq(Request) /\ drained \in Seq(Request)
            /\ Len(mid) + Len(drained) <= Len(lp)
            /\ \A i \in 1 .. Len(mid) : mid[i] = lp[i]
            /\ \A i \in 1 .. Len(drained) : drained[i] = lp[Len(mid) + i]
        BY <1>1, <2>5, <2>8, <3>1
      <4>2. /\ mid \o drained \in Seq(Request)
            /\ Len(mid \o drained) = Len(mid) + Len(drained)
            /\ \A i \in 1 .. Len(mid) + Len(drained) : (mid \o drained)[i] = lp[i]
        <5>1. mid \in Seq(Request)
          BY <3>1
        <5> QED BY <4>1, <5>1, PrefixConcat
      <4> QED BY <2>5, <3>1, <4>2
    <3> QED BY <3>2 DEF mid
  <2> HIDE DEF new
  <2>10. /\ log'[r] = new /\ log'[Primary] = lp
         /\ \A q \in Replicas : q # r => log'[q] = log[q]
    BY <1>3, <2>1 DEF TypeOK, new, drained
  <2>11. UNCHANGED <<commit_number, request_batch>>
    BY <2>1 DEF primaryVars
  <2>12. \A x \in msgs' : x \in msgs \/ x.type # "preprepare"
    <3> HIDE DEF p, own, n, n1, b
    <3> QED BY <1>4, <2>1, InsertPrepareSends
  <2>13. BatchIsSuffix' /\ PrepreparesFromLog'
    BY <2>10, <2>11, <2>12 DEF PrimaryOrder, BatchIsSuffix, PrepreparesFromLog
  <2>14. LogsArePrefixes'
    <3> SUFFICES ASSUME NEW q \in Replicas
                 PROVE  /\ commit_number[q] <= Len(log'[q])
                        /\ Len(log'[q]) <= Len(lp)
                        /\ \A i \in 1 .. Len(log'[q]) : log'[q][i] = lp[i]
      BY <2>10, <2>11 DEF LogsArePrefixes
    <3>1. CASE q = r
      <4>1. commit_number[r] <= n1 + k
        <5>1. commit_number[r] \in Nat /\ Len(m.reqs) \in Nat /\ n \in Nat
          BY <1>1 DEF TypeOK
        <5> HIDE DEF n
        <5> QED BY <2>3, <2>6, <5>1
      <4> HIDE DEF n1, n, lp
      <4> QED BY <3>1, <4>1, <2>8, <2>9, <2>10
    <3>2. CASE q # r
      BY <3>2, <2>10 DEF PrimaryOrder, LogsArePrefixes
    <3> QED BY <3>1, <3>2
  <2>15. BuffersFromLog'
    <3>1. \A q \in Replicas : \A op \in DOMAIN request_buffer'[q] :
            op <= Len(lp) /\ request_buffer'[q][op] = lp[op]
      <4> HIDE DEF n1, lp
      <4> QED BY <2>1, <2>4 DEF TypeOK
    <3> QED BY <3>1, <2>10 DEF BuffersFromLog
  <2> QED BY <2>13, <2>14, <2>15 DEF PrimaryOrder
<1> QED BY <1>5, <1>6, <1>7 DEF HandlePreprepare

\* HandleCommit keeps the order.
LEMMA CommitOrder ==
  ASSUME TypeOK, PrimaryOrder, NEW r \in Replicas, NEW m \in msgs, HandleCommit(r, m)
  PROVE  PrimaryOrder'
<1> DEFINE done == committed[r] \cup (m.op .. (m.op + m.size) - 1)
<1>1. CASE Stop(r)
  BY <1>1, StopOrder
<1>2. CASE UNCHANGED <<log, request_batch, request_buffer, commit_number, msgs>>
  BY <1>2, OrderFrame
<1>3. CASE \E k \in ExecuteLimits(r, done) :
             /\ commit_number' = [commit_number EXCEPT ![r] = k]
             /\ Send({ReplyMsg(r, log[r][i]) : i \in (commit_number[r] + 1) .. k})
             /\ UNCHANGED <<log, request_batch, request_buffer>>
  <2>1. PICK k \in ExecuteLimits(r, done) :
             /\ commit_number' = [commit_number EXCEPT ![r] = k]
             /\ Send({ReplyMsg(r, log[r][i]) : i \in (commit_number[r] + 1) .. k})
             /\ UNCHANGED <<log, request_batch, request_buffer>>
    BY <1>3
  <2>2. k <= Len(log[r])
    BY DEF ExecuteLimits
  <2>3. \A x \in msgs' : x \in msgs \/ x.type # "preprepare"
    BY <2>1, NotPreprepare DEF Send
  <2>4. BatchIsSuffix' /\ PrepreparesFromLog' /\ BuffersFromLog'
    BY <2>1, <2>3 DEF PrimaryOrder, BatchIsSuffix, PrepreparesFromLog, BuffersFromLog
  <2>5. LogsArePrefixes'
    BY <2>1, <2>2 DEF PrimaryOrder, LogsArePrefixes, TypeOK
  <2> QED BY <2>4, <2>5 DEF PrimaryOrder
<1> QED BY <1>1, <1>2, <1>3 DEF HandleCommit, primaryVars

\* Every step keeps the order.
LEMMA NextOrder ==
  ASSUME TypeOK, PrimaryOrder, [Next]_vars
  PROVE  PrimaryOrder'
<1>1. CASE UNCHANGED vars
  BY <1>1, OrderFrame DEF vars, replicaVars, primaryVars
<1>2. CASE CloseBatchTimeout
  BY <1>2, OrderFrame DEF CloseBatchTimeout, replicaVars
<1>3. CASE RunCloseBatch
  <2> DEFINE new == CloseBatch(log[Primary], request_batch)
  <2>1. /\ log[Primary] \in Seq(Request) /\ request_batch \in Seq(Request)
        /\ Len(request_batch) <= Len(log[Primary])
        /\ \A i \in 1 .. Len(request_batch) :
             request_batch[i] = log[Primary][(Len(log[Primary]) - Len(request_batch)) + i]
    BY DEF TypeOK, PrimaryOrder, BatchIsSuffix
  <2>2. /\ (new.op + Len(new.reqs)) - 1 <= Len(log[Primary])
        /\ \A i \in 1 .. Len(new.reqs) : new.reqs[i] = log[Primary][(new.op + i) - 1]
    BY <2>1, CloseBatchFromLog
  <2> HIDE DEF new
  <2>3. /\ UNCHANGED <<log, commit_number, request_buffer>>
        /\ request_batch' = <<>> /\ msgs' = msgs \cup {new}
    BY <1>3 DEF RunCloseBatch, Send, replicaVars, new
  <2>4. BatchIsSuffix'
    BY <2>1, <2>3 DEF BatchIsSuffix
  <2>5. PrepreparesFromLog'
    BY <2>2, <2>3 DEF PrimaryOrder, PrepreparesFromLog
  <2>6. LogsArePrefixes' /\ BuffersFromLog'
    BY <2>3 DEF PrimaryOrder, LogsArePrefixes, BuffersFromLog
  <2> QED BY <2>4, <2>5, <2>6 DEF PrimaryOrder
<1>4. CASE \E c \in Clients : ClientStep(c)
  BY <1>4, ClientOrder
<1>5. ASSUME NEW r \in Replicas, NEW m \in msgs, HandlePrepare(r, m)
      PROVE  PrimaryOrder'
  <2>1. CASE Stop(r)
    BY <2>1, StopOrder
  <2>2. CASE /\ InsertPrepare(r, m, m.from, Len(log[r]), {})
             /\ UNCHANGED <<log, commit_number, request_buffer, primaryVars>>
    <3>1. \A x \in msgs' : x \in msgs \/ x.type # "preprepare"
      BY <2>2, InsertPrepareSends
    <3> QED BY <2>2, <3>1, OrderFrame DEF primaryVars
  <2> QED BY <1>5, <2>1, <2>2 DEF HandlePrepare
<1>6. CASE \E r \in Replicas, m \in msgs : Handle(r, m)
  BY <1>5, <1>6, RequestOrder, PreprepareOrder, CommitOrder DEF Handle
<1> QED BY <1>1, <1>2, <1>3, <1>4, <1>6 DEF Next

-----------------------------------------------------------------------------
\* TypeOK and PrimaryOrder hold in every reachable state: each needs the other.
THEOREM Inductive == Spec => []IInv
<1>1. Init => IInv
  BY InitType, InitOrder DEF IInv
<1>2. IInv /\ [Next]_vars => IInv'
  BY NextType, NextOrder DEF IInv, PrimaryOrder
<1> QED BY <1>1, <1>2, PTL DEF Spec

\* The replica's and the client's state keep their types.
THEOREM TypeCorrect == Spec => []TypeOK
<1>1. IInv => TypeOK
  BY DEF IInv
<1> QED BY <1>1, Inductive, PTL

\* The primary's log alone orders requests: batches, PREPREPAREs, buffers and the
\* logs of backups are pieces of it.
THEOREM OrderCorrect == Spec => []PrimaryOrder
<1>1. IInv => PrimaryOrder
  BY DEF IInv
<1> QED BY <1>1, Inductive, PTL

\* No two replicas execute different requests at the same opnum.
THEOREM AgreementHolds == Spec => []Agreement
<1>1. IInv => Agreement
  <2> SUFFICES ASSUME IInv, NEW r \in Replicas, NEW s \in Replicas,
                      NEW i \in 1 .. commit_number[r], i <= commit_number[s]
               PROVE  log[r][i] = log[s][i]
    BY DEF Agreement
  <2>1. /\ i \in 1 .. Len(log[r]) /\ i \in 1 .. Len(log[s])
    BY DEF IInv, TypeOK, PrimaryOrder, LogsArePrefixes
  <2> QED BY <2>1 DEF IInv, PrimaryOrder, LogsArePrefixes
<1> QED BY <1>1, Inductive, PTL
-----------------------------------------------------------------------------
Preprepares == {m \in msgs : m.type = "preprepare"}
Votes       == {m \in msgs : m.type \in {"prepare", "commit"}}

\* The requests of the batch that begins at op and has the given digest.
Size(op, digest) == (Len(digest) + 1) - op

\* A batch ends with its digest, and every vote is for a batch the primary sent.
VotesForBatches ==
  /\ \A p \in Preprepares : Len(p.reqs) = Size(p.op, p.digest)
  /\ \A m \in Votes : /\ m.size = Size(m.op, m.digest)
                      /\ \E p \in Preprepares : p.op = m.op /\ p.digest = m.digest

\* What a replica counts, another one sent.
QuorumsFromVotes ==
  \A r \in Replicas :
    /\ \A t \in prepare_quorum[r] :
         /\ t[3] # r
         /\ \/ t[3] = Primary
            \/ PrepareMsg(t[3], t[1], Size(t[1], t[2]), t[2]) \in msgs
    /\ \A t \in commit_quorum[r] :
         /\ t[3] # r
         /\ CommitMsg(t[3], t[1], Size(t[1], t[2]), t[2]) \in msgs

\* A replica that sends COMMIT has the first request of the batch.
CommitsFromLog == \A m \in msgs : m.type = "commit" => m.op <= Len(log[m.from])

VotesInv ==
  VotesForBatches /\ QuorumsFromVotes /\ CommitsFromLog /\ CommitHasCertificate

\* The last opnum that the primary has sent.
Sent == Len(log[Primary]) - Len(request_batch)

\* No two batches overlap in part, and none reaches into the unsent batch.
BatchesApart ==
  /\ \A p \in Preprepares : Len(p.digest) <= Sent
  /\ \A p, q \in Preprepares : /\ q.op <= p.op \/ Len(p.digest) < q.op
                               /\ Len(q.digest) < p.op \/ Len(p.digest) <= Len(q.digest)

\* A backup appends, buffers and drains whole batches.
BackupsHoldBatches ==
  \A r \in Replicas \ {Primary} :
    /\ Len(log[r]) <= Sent
    /\ \A op \in DOMAIN request_buffer[r] : op <= Sent
    /\ \A p \in Preprepares :
         /\ Len(log[r]) < p.op \/ Len(p.digest) <= Len(log[r])
         /\ \A op \in DOMAIN request_buffer[r] : op \in p.op .. Len(p.digest) =>
              p.op .. Len(p.digest) \subseteq DOMAIN request_buffer[r]

BatchesInv == /\ BatchesApart /\ BackupsHoldBatches /\ BufferWaitsForGap
              /\ DOMAIN request_buffer[Primary] = {}

\* The replicas other than r that sent COMMIT for the batch of opnum i.
Committers(r, i) ==
  {s \in Replicas \ {r} : \E m \in msgs : /\ m.type = "commit" /\ m.from = s
                                          /\ i \in m.op .. (m.op + m.size) - 1}

\* What is executed is COMMITTED, and 2f others sent COMMIT for what is COMMITTED.
CommittedInv ==
  \A r \in Replicas :
    /\ 1 .. commit_number[r] \subseteq committed[r]
    /\ \A i \in committed[r] : Cardinality(Committers(r, i)) >= 2 * f

\* The requests r has executed.
Executed(r) == {log[r][i] : i \in 1 .. commit_number[r]}
Req(c, n)   == [client |-> c, num |-> n]

\* Only an executed request has a reply.
RepliesInv ==
  /\ \A m \in msgs : m.type = "reply" => Req(m.client, m.num) \in Executed(m.from)
  /\ \A r \in Replicas, c \in Clients :
       client_table[r][c].has_reply => Req(c, client_table[r][c].num) \in Executed(r)
  /\ \A c \in Clients :
       /\ pending[c] \in {0, last_req[c]}
       /\ pending[c] # 0 => \A r \in received[c] : Req(c, pending[c]) \in Executed(r)

QuorumInv ==
  IInv /\ VotesInv /\ BatchesInv /\ CommittedInv /\ RepliesInv /\ CompletedIsExecuted

-----------------------------------------------------------------------------
(***************************************************************************)
(* What every step has in common: logs and msgs only grow.                 *)
(***************************************************************************)

Grows ==
  /\ msgs \subseteq msgs'
  /\ \A r \in Replicas :
       /\ Len(log[r]) <= Len(log'[r])
       /\ \A i \in 1 .. Len(log[r]) : log'[r][i] = log[r][i]

\* What the constants are assumed to be.
LEMMA Group == IsFiniteSet(Replicas) /\ Primary \in Replicas /\ f \in Nat
BY ReplicasAssumption, FaultAssumption

\* A message of each type is what its constructor builds.
LEMMA MessageIsBuilt ==
  ASSUME msgs \subseteq Message, NEW m \in msgs
  PROVE  /\ m.type = "prepare" => m = PrepareMsg(m.from, m.op, m.size, m.digest)
         /\ m.type = "commit" => m = CommitMsg(m.from, m.op, m.size, m.digest)
BY DEF Message, PrepareMsg, CommitMsg

\* InsertPrepare takes back no message.
LEMMA InsertPrepareGrows ==
  ASSUME NEW r, NEW p, NEW s, NEW lastOp, NEW ms, InsertPrepare(r, p, s, lastOp, ms)
  PROVE  msgs \subseteq msgs'
BY DEF InsertPrepare, Send

\* The log after a batch and what it makes contiguous were appended.
LEMMA AppendedLength ==
  ASSUME TypeOK, NEW r \in Replicas, NEW x \in Seq(Request),
         NEW k \in DrainCounts(request_buffer[r], Len(log[r]) + Len(x)),
         log' = [log EXCEPT ![r] =
           (@ \o x) \o [i \in 1 .. k |-> request_buffer[r][(Len(log[r]) + Len(x)) + i]]]
  PROVE  /\ Len(log'[r]) = (Len(log[r]) + Len(x)) + k
         /\ [i \in 1 .. k |-> request_buffer[r][(Len(log[r]) + Len(x)) + i]] \in Seq(Request)
<1> DEFINE b  == request_buffer[r]
           n1 == Len(log[r]) + Len(x)
           drained == [i \in 1 .. k |-> b[n1 + i]]
           z == log[r] \o x
<1>1. log[r] \in Seq(Request) /\ n1 \in Nat
  BY DEF TypeOK
<1>2. k \in Nat /\ \A i \in 1 .. k : n1 + i \in DOMAIN b
  <2> HIDE DEF n1
  <2> QED BY <1>1, Drained DEF n1
<1>3. drained \in Seq(Request) /\ Len(drained) = k
  <2>1. \A op \in DOMAIN b : b[op] \in Request
    BY DEF TypeOK
  <2> HIDE DEF b, n1
  <2> QED BY <1>2, <2>1
<1>4. log'[r] = z \o drained
  BY DEF TypeOK
<1>5. Len(z) = n1 /\ z \in Seq(Request)
  BY <1>1, ConcatLength
<1>6. Len(z \o drained) = n1 + k
  <2> HIDE DEF drained, z, n1
  <2>1. Len(z \o drained) = Len(z) + Len(drained)
    BY <1>3, <1>5, ConcatLength
  <2> QED BY <1>3, <1>5, <2>1, Zenon
<1>7. Len(log'[r]) = n1 + k
  <2> HIDE DEF drained, z, n1
  <2> QED BY <1>4, <1>6
<1> HIDE DEF drained
<1> QED BY <1>3, <1>7 DEF drained

\* Messages, logs and votes only grow.
LEMMA NextGrows == ASSUME TypeOK, [Next]_vars PROVE Grows
<1>1. \A r \in Replicas : log[r] \in Seq(Request) /\ Len(log[r]) \in Nat
  BY DEF TypeOK
<1>2. CASE UNCHANGED log /\ msgs \subseteq msgs'
  BY <1>1, <1>2 DEF Grows
<1>3. ASSUME NEW r \in Replicas, NEW x, NEW y, x \in Seq(Request), y \in Seq(Request),
             log' = [log EXCEPT ![r] = (@ \o x) \o y], msgs \subseteq msgs'
      PROVE  Grows
  <2> DEFINE lg == log[r]
  <2>1. /\ Len(lg) <= Len((lg \o x) \o y)
        /\ \A i \in 1 .. Len(lg) : ((lg \o x) \o y)[i] = lg[i]
    <3>1. lg \in Seq(Request)
      BY <1>1
    <3> HIDE DEF lg
    <3>2. /\ lg \o x \in Seq(Request) /\ Len(lg \o x) = Len(lg) + Len(x)
          /\ \A i \in 1 .. Len(lg) : (lg \o x)[i] = lg[i]
      BY <1>3, <3>1
    <3>3. Len((lg \o x) \o y) = Len(lg) + Len(x) + Len(y)
      BY <1>3, <3>1, <3>2
    <3>4. \A i \in 1 .. Len(lg) : ((lg \o x) \o y)[i] = (lg \o x)[i]
      <4> DEFINE z == lg \o x
      <4>1. z \in Seq(Request) /\ Len(lg) <= Len(z)
        BY <1>3, <3>1, <3>2
      <4> HIDE DEF z
      <4>2. \A i \in 1 .. Len(lg) : (z \o y)[i] = z[i]
        BY <1>3, <3>1, <4>1
      <4> QED BY <4>2 DEF z
    <3> QED BY <1>3, <3>1, <3>2, <3>3, <3>4
  <2>2. /\ log'[r] = (lg \o x) \o y
        /\ \A q \in Replicas : q # r => log'[q] = log[q]
    BY <1>3 DEF TypeOK
  <2> SUFFICES ASSUME NEW q \in Replicas
               PROVE  /\ Len(log[q]) <= Len(log'[q])
                      /\ \A i \in 1 .. Len(log[q]) : log'[q][i] = log[q][i]
    BY <1>3 DEF Grows
  <2>3. CASE q = r
    BY ONLY <2>1, <2>2, <2>3, r \in Replicas
  <2>4. CASE q # r
    <3>1. log'[q] = log[q] /\ log[q] \in Seq(Request)
      BY <1>1, <2>2, <2>4
    <3>2. Len(log[q]) \in Nat
      BY ONLY <3>1
    <3> QED BY ONLY <3>1, <3>2
  <2> QED BY <2>3, <2>4
<1>4. ASSUME NEW p, Stop(p) PROVE UNCHANGED log /\ msgs \subseteq msgs'
  BY <1>4 DEF Stop, replicaVars
<1>5. CASE UNCHANGED vars
  BY <1>2, <1>5 DEF vars, replicaVars
<1>6. CASE CloseBatchTimeout \/ RunCloseBatch
  BY <1>2, <1>6 DEF CloseBatchTimeout, RunCloseBatch, Send, replicaVars
<1>7. ASSUME NEW c \in Clients, ClientStep(c) PROVE Grows
  <2>1. CASE Invoke(c)
    BY <1>2, <2>1 DEF Invoke, Send, replicaVars
  <2>2. CASE ResendRequest(c)
    BY <1>2, <1>4, <2>2 DEF ResendRequest, Send, replicaVars
  <2>3. CASE \E m \in msgs : ReceiveReply(c, m)
    BY <1>2, <2>3 DEF ReceiveReply, replicaVars
  <2> QED BY <1>7, <2>1, <2>2, <2>3 DEF ClientStep
<1>8. ASSUME NEW r \in Replicas, NEW m \in msgs, HandleRequest(r, m) PROVE Grows
  <2> DEFINE req == [client |-> m.client, num |-> m.num]
  <2>1. CASE LogRequest(req)
    <3>1. req \in Request
      BY <1>8, MessageFields DEF TypeOK, HandleRequest, Request, Opnum
    <3>2. log' = [log EXCEPT ![Primary] = (@ \o <<req>>) \o <<>>]
      <4>1. log' = [log EXCEPT ![Primary] = Append(log[Primary], req)]
        BY <2>1 DEF LogRequest
      <4> HIDE DEF req
      <4>2. log[Primary] \in Seq(Request)
        BY <1>1, Group
      <4>3. Append(log[Primary], req) = (log[Primary] \o <<req>>) \o <<>>
        BY ONLY <3>1, <4>2
      <4> QED BY <4>1, <4>3
    <3>3. msgs \subseteq msgs'
      BY <2>1 DEF LogRequest, Send
    <3> DEFINE x == <<req>>
               y == <<>>
    <3>4. x \in Seq(Request) /\ y \in Seq(Request)
      BY <3>1
    <3>5. log' = [log EXCEPT ![Primary] = (@ \o x) \o y]
      BY <3>2
    <3> HIDE DEF x, y
    <3> QED BY <1>3, <3>3, <3>4, <3>5, Group
  <2>2. CASE UNCHANGED log /\ msgs \subseteq msgs'
    BY <1>2, <2>2
  <2> QED BY <1>4, <1>8, <2>1, <2>2 DEF HandleRequest, Send, replicaVars
<1>9. ASSUME NEW r \in Replicas, NEW m \in msgs, HandlePreprepare(r, m) PROVE Grows
  <2> DEFINE p   == [op |-> m.op, size |-> Len(m.reqs), digest |-> m.digest]
             b   == request_buffer[r]
             n1  == Len(log[r]) + Len(m.reqs)
  <2>0. m.reqs \in Seq(Request) /\ n1 \in Nat
    BY SMTT(30), <1>1, <1>9, MessageFields DEF TypeOK, HandlePreprepare
  <2>1. CASE /\ InsertPrepare(r, p, Primary, Len(log[r]), OwnPrepare(r, p))
             /\ UNCHANGED log
    BY <1>2, <2>1, InsertPrepareGrows
  <2>2. CASE \E k \in DrainCounts(b, n1) :
               /\ log' = [log EXCEPT ![r] = (@ \o m.reqs) \o [i \in 1 .. k |-> b[n1 + i]]]
               /\ InsertPrepare(r, p, Primary, n1 + k, OwnPrepare(r, p))
    <3>1. PICK k \in DrainCounts(b, n1) :
               /\ log' = [log EXCEPT ![r] = (@ \o m.reqs) \o [i \in 1 .. k |-> b[n1 + i]]]
               /\ InsertPrepare(r, p, Primary, n1 + k, OwnPrepare(r, p))
      BY <2>2
    <3> DEFINE drained == [i \in 1 .. k |-> b[n1 + i]]
    <3>2. drained \in Seq(Request)
      BY <2>0, <3>1, AppendedLength
    <3>3. msgs \subseteq msgs'
      BY <3>1, InsertPrepareGrows
    <3> HIDE DEF drained, p
    <3>4. log' = [log EXCEPT ![r] = (@ \o m.reqs) \o drained]
      BY <3>1 DEF drained
    <3> QED BY <1>3, <2>0, <3>2, <3>3, <3>4
  <2> QED BY <1>2, <1>4, <1>9, <2>1, <2>2 DEF HandlePreprepare
<1>10. ASSUME NEW r \in Replicas, NEW m \in msgs, HandlePrepare(r, m) PROVE Grows
  BY <1>2, <1>4, <1>10, InsertPrepareGrows DEF HandlePrepare
<1>11. ASSUME NEW r \in Replicas, NEW m \in msgs, HandleCommit(r, m) PROVE Grows
  BY <1>2, <1>4, <1>11 DEF HandleCommit, Send
<1> QED BY <1>5, <1>6, <1>7, <1>8, <1>9, <1>10, <1>11 DEF Next, Handle

-----------------------------------------------------------------------------
(***************************************************************************)
(* Counting.                                                               *)
(***************************************************************************)

\* As many certificates for one batch as there are replicas they come from.
LEMMA CertificatesOfSenders ==
  ASSUME NEW S \in SUBSET Replicas, NEW T, NEW op, NEW d, NEW n \in Nat,
         \A t \in T : t \in Certificate /\ t[1] = op /\ t[2] = d /\ t[3] \in S,
         Cardinality(T) >= n
  PROVE  Cardinality(S) >= n
<1> DEFINE g == [t \in T |-> t[3]]
<1>1. \A t, u \in T : t[3] = u[3] => t = u
  BY DEF Certificate
<1>2. g \in [T -> S] /\ \A t, u \in T : g[t] = g[u] => t = u
  BY <1>1
<1>3. IsFiniteSet(S)
  BY Group, FS_Subset
<1> HIDE DEF g
<1>4. Cardinality(T) <= Cardinality(S) /\ Cardinality(T) \in Nat /\ Cardinality(S) \in Nat
  BY <1>2, <1>3, VotesOfSenders
<1> QED BY <1>4

-----------------------------------------------------------------------------
(***************************************************************************)
(* Every step keeps VotesInv.                                              *)
(***************************************************************************)

LEMMA InitVotes == Init => VotesInv
BY DEF Init, VotesInv, VotesForBatches, QuorumsFromVotes, CommitsFromLog,
       CommitHasCertificate, Preprepares, Votes

\* The certificate of a COMMIT stays.
LEMMA CertificateStays ==
  ASSUME TypeOK, CommitHasCertificate, msgs \subseteq msgs', NEW m \in msgs, m.type = "commit"
  PROVE  Cardinality({s \in Replicas \ {m.from} :
                        \/ s = Primary
                        \/ PrepareMsg(s, m.op, m.size, m.digest) \in msgs'}) >= 2 * f
<1> DEFINE S == {s \in Replicas \ {m.from} :
                   s = Primary \/ PrepareMsg(s, m.op, m.size, m.digest) \in msgs}
           T == {s \in Replicas \ {m.from} :
                   s = Primary \/ PrepareMsg(s, m.op, m.size, m.digest) \in msgs'}
<1>1. Cardinality(S) >= 2 * f
  BY DEF CommitHasCertificate
<1>2. S \in SUBSET T /\ T \in SUBSET Replicas
  OBVIOUS
<1>3. 2 * f \in Nat
  BY Group
<1> HIDE DEF S, T
<1>4. Cardinality(T) >= 2 * f
  BY <1>1, <1>2, <1>3, MoreIsEnough, Group
<1> QED BY <1>4 DEF T

\* What was counted stays sent, and a COMMIT's first request stays in the log.
LEMMA VotesStay ==
  ASSUME TypeOK, TypeOK', VotesInv, Grows
  PROVE  /\ \A m \in Votes : /\ m.size = Size(m.op, m.digest)
                             /\ \E q \in Preprepares' : q.op = m.op /\ q.digest = m.digest
         /\ \A r \in Replicas :
              /\ \A t \in prepare_quorum[r] :
                   /\ t[3] # r
                   /\ \/ t[3] = Primary
                      \/ PrepareMsg(t[3], t[1], Size(t[1], t[2]), t[2]) \in msgs'
              /\ \A t \in commit_quorum[r] :
                   /\ t[3] # r
                   /\ CommitMsg(t[3], t[1], Size(t[1], t[2]), t[2]) \in msgs'
         /\ \A m \in msgs : m.type = "commit" => m.op <= Len(log'[m.from])
<1>1. \A m \in msgs : m.type = "commit" => m.op <= Len(log'[m.from])
  <2> SUFFICES ASSUME NEW m \in msgs, m.type = "commit"
               PROVE  m.op <= Len(log'[m.from])
    OBVIOUS
  <2>1. m.from \in Replicas /\ m.op \in Nat
    BY MessageFields DEF TypeOK, Opnum
  <2>2. log[m.from] \in Seq(Request) /\ log'[m.from] \in Seq(Request)
    BY <2>1 DEF TypeOK
  <2>3. m.op <= Len(log[m.from]) /\ Len(log[m.from]) <= Len(log'[m.from])
    BY <2>1 DEF VotesInv, CommitsFromLog, Grows
  <2> DEFINE a == m.op
             b == Len(log[m.from])
             c == Len(log'[m.from])
  <2>4. a \in Nat /\ b \in Nat /\ c \in Nat /\ a <= b /\ b <= c
    BY <2>1, <2>2, <2>3
  <2> HIDE DEF a, b, c
  <2>5. a <= c
    BY <2>4
  <2> QED BY <2>5 DEF a, c
<1>2. Preprepares \subseteq Preprepares'
  BY DEF Preprepares, Grows
<1> QED BY <1>1, <1>2 DEF VotesInv, VotesForBatches, QuorumsFromVotes, Grows

\* A step that counts no vote and sends none.
LEMMA VotesFrame ==
  ASSUME TypeOK, TypeOK', VotesInv, Grows, UNCHANGED <<prepare_quorum, commit_quorum>>,
         \A m \in msgs' : \/ m \in msgs
                          \/ m.type \in {"request", "reply"}
                          \/ m.type = "preprepare" /\ Len(m.reqs) = Size(m.op, m.digest)
  PROVE  VotesInv'
<1>1. VotesForBatches'
  BY VotesStay DEF VotesInv, VotesForBatches, Votes, Preprepares, Size
<1>2. QuorumsFromVotes'
  BY VotesStay DEF QuorumsFromVotes, Size
<1>3. CommitsFromLog'
  BY VotesStay DEF CommitsFromLog
<1>4. CommitHasCertificate'
  BY CertificateStays DEF VotesInv, CommitHasCertificate, Grows
<1> QED BY <1>1, <1>2, <1>3, <1>4 DEF VotesInv

\* The message of a vote for a batch that was announced.
LEMMA VoteMessage ==
  ASSUME TypeOK, VotesInv, NEW m \in msgs, m.type \in {"prepare", "commit"}
  PROVE  /\ m.op \in Opnum /\ m.size \in Nat /\ m.digest \in Seq(Request)
         /\ m.from \in Replicas
         /\ m.size = Size(m.op, m.digest)
         /\ m.type = "prepare" => PrepareMsg(m.from, m.op, Size(m.op, m.digest), m.digest) \in msgs
         /\ m.type = "commit" => CommitMsg(m.from, m.op, Size(m.op, m.digest), m.digest) \in msgs
         /\ \E q \in Preprepares : q.op = m.op /\ q.digest = m.digest
<1>1. m \in Votes
  BY DEF Votes
<1>2. m.size = Size(m.op, m.digest) /\ \E q \in Preprepares : q.op = m.op /\ q.digest = m.digest
  BY <1>1 DEF VotesInv, VotesForBatches
<1>3. /\ m.op \in Opnum /\ m.size \in Nat /\ m.digest \in Seq(Request)
      /\ m.from \in Replicas
  BY MessageFields DEF TypeOK
<1>4. /\ m.type = "prepare" => m = PrepareMsg(m.from, m.op, m.size, m.digest)
      /\ m.type = "commit" => m = CommitMsg(m.from, m.op, m.size, m.digest)
  BY MessageIsBuilt DEF TypeOK
<1> QED BY <1>2, <1>3, <1>4, Zenon

\* InsertPrepare, called with an announced batch p and the other replica s that
\* accepted it: the COMMIT it sends has its certificate.
LEMMA InsertPrepareVotes ==
  ASSUME TypeOK, TypeOK', VotesInv, Grows,
         NEW r \in Replicas, NEW s \in Replicas, NEW p, NEW lastOp, NEW ms,
         p.op \in Opnum, p.digest \in Seq(Request), p.size = Size(p.op, p.digest),
         \E q \in Preprepares : q.op = p.op /\ q.digest = p.digest,
         s # r, s = Primary \/ PrepareMsg(s, p.op, p.size, p.digest) \in msgs,
         ms \subseteq {PrepareMsg(r, p.op, p.size, p.digest)},
         InsertPrepare(r, p, s, lastOp, ms), lastOp = Len(log'[r]),
         UNCHANGED commit_quorum
  PROVE  VotesInv'
<1> DEFINE t == <<p.op, p.digest, s>>
           own == PrepareMsg(r, p.op, p.size, p.digest)
           new == CommitMsg(r, p.op, p.size, p.digest)
<1>1. /\ prepare_quorum' = [prepare_quorum EXCEPT ![r] = @ \cup {t}]
      /\ \/ msgs' = msgs \cup ms
         \/ /\ msgs' = msgs \cup {new}
            /\ ~(PrepareCount(r, p.op, p.digest, s) < 2 * f)
            /\ p.op <= Len(log'[r])
  BY DEF InsertPrepare, Send
<1>2. \A m \in msgs' : \/ m \in msgs
                       \/ m = own
                       \/ /\ m = new /\ p.op <= Len(log'[r])
                          /\ ~(PrepareCount(r, p.op, p.digest, s) < 2 * f)
  BY <1>1
<1>3. /\ own.type = "prepare" /\ own.op = p.op /\ own.size = p.size /\ own.digest = p.digest
      /\ new.type = "commit" /\ new.op = p.op /\ new.size = p.size /\ new.digest = p.digest
      /\ new.from = r
  BY DEF PrepareMsg, CommitMsg
<1>4. t[1] = p.op /\ t[2] = p.digest /\ t[3] = s /\ t \in Certificate
  BY DEF Certificate
<1>5. \A u \in prepare_quorum[r] \cup {t} :
        /\ u \in Certificate
        /\ u[3] # r
        /\ \/ u[3] = Primary
           \/ PrepareMsg(u[3], u[1], Size(u[1], u[2]), u[2]) \in msgs
  <2>1. \A u \in prepare_quorum[r] : u \in Certificate
    BY DEF TypeOK
  <2> HIDE DEF t
  <2> QED BY <1>4, <2>1 DEF VotesInv, QuorumsFromVotes
<1> HIDE DEF t, own, new
<1>6. VotesForBatches'
  <2>1. \A m \in Votes' : m \in Votes \/ m = own \/ m = new
    BY <1>2 DEF Votes
  <2>2. \A m \in Preprepares' : m \in Preprepares
    BY <1>2, <1>3 DEF Preprepares
  <2>3. \E q \in Preprepares' : q.op = p.op /\ q.digest = p.digest
    BY DEF Preprepares, Grows
  <2>4. \A m \in Votes' : /\ m.size = Size(m.op, m.digest)
                          /\ \E q \in Preprepares' : q.op = m.op /\ q.digest = m.digest
    BY <1>3, <2>1, <2>3, VotesStay
  <2> QED BY <2>2, <2>4 DEF VotesInv, VotesForBatches, Size
<1>7. QuorumsFromVotes'
  <2> SUFFICES ASSUME NEW q \in Replicas
               PROVE  /\ \A u \in prepare_quorum'[q] :
                           /\ u[3] # q
                           /\ \/ u[3] = Primary
                              \/ PrepareMsg(u[3], u[1], Size(u[1], u[2]), u[2]) \in msgs'
                      /\ \A u \in commit_quorum[q] :
                           /\ u[3] # q
                           /\ CommitMsg(u[3], u[1], Size(u[1], u[2]), u[2]) \in msgs'
    BY DEF QuorumsFromVotes, Size
  <2>1. \A u \in prepare_quorum'[q] : u \in prepare_quorum[q] \/ (q = r /\ u \in prepare_quorum[r] \cup {t})
    BY <1>1 DEF TypeOK
  <2> QED BY <1>5, <2>1, VotesStay DEF Grows
<1>8. CommitsFromLog'
  BY <1>2, <1>3, VotesStay DEF CommitsFromLog
<1>9. CommitHasCertificate'
  <2> SUFFICES ASSUME NEW m \in msgs', m.type = "commit"
               PROVE  Cardinality({q \in Replicas \ {m.from} :
                           q = Primary \/ PrepareMsg(q, m.op, m.size, m.digest) \in msgs'}) >= 2 * f
    BY DEF CommitHasCertificate
  <2>1. CASE m \in msgs
    BY <2>1, CertificateStays DEF VotesInv, Grows
  <2>2. CASE m = new /\ ~(PrepareCount(r, p.op, p.digest, s) < 2 * f)
    <3> DEFINE T == {u \in prepare_quorum[r] \cup {t} : u[1] = p.op /\ u[2] = p.digest}
               S == {q \in Replicas \ {r} :
                       q = Primary \/ PrepareMsg(q, p.op, p.size, p.digest) \in msgs'}
    <3>1. \A u \in T : u \in Certificate /\ u[1] = p.op /\ u[2] = p.digest /\ u[3] \in S
      <4> SUFFICES ASSUME NEW u \in T PROVE u \in Certificate /\ u[3] \in S
        OBVIOUS
      <4>1. u \in Certificate /\ u[1] = p.op /\ u[2] = p.digest
        BY <1>5
      <4>2. u[3] \in Replicas
        BY <4>1 DEF Certificate
      <4> QED BY <1>5, <4>1, <4>2 DEF Grows
    <3>2. PrepareCount(r, p.op, p.digest, s) = Cardinality(T)
      BY DEF PrepareCount, t
    <3>3. S \in SUBSET Replicas /\ 2 * f \in Nat
      BY Group
    <3>4. Cardinality(T) >= 2 * f
      <4>1. IsFiniteSet(T)
        <5> DEFINE g == [u \in T |-> u[3]]
        <5>1. \A u, v \in T : u[3] = v[3] => u = v
          BY SMTT(30), <3>1 DEF Certificate
        <5>2. g \in Injection(T, S)
          <6> HIDE DEF T, S
          <6> QED BY <3>1, <5>1 DEF Injection, IsInjective
        <5>3. IsFiniteSet(S)
          BY Group, <3>3, FS_Subset
        <5> HIDE DEF T, S, g
        <5> QED BY <5>2, <5>3, FS_Injection
      <4>2. Cardinality(T) \in Nat
        BY <4>1, FS_CardinalityType
      <4> HIDE DEF T, S
      <4> QED BY <2>2, <3>2, <3>3, <4>2
    <3> HIDE DEF T, S
    <3>5. Cardinality(S) >= 2 * f
      BY <3>1, <3>3, <3>4, CertificatesOfSenders
    <3> QED BY <1>3, <2>2, <3>5 DEF S
  <2>3. m.type # "commit" \/ m \in msgs \/ (m = new /\ ~(PrepareCount(r, p.op, p.digest, s) < 2 * f))
    BY <1>2, <1>3
  <2> QED BY <2>1, <2>2, <2>3
<1> QED BY <1>6, <1>7, <1>8, <1>9 DEF VotesInv

\* HandleCommit counts a COMMIT that another replica sent.
LEMMA CommitVotes ==
  ASSUME TypeOK, TypeOK', VotesInv, Grows,
         NEW r \in Replicas, NEW m \in msgs, m.type = "commit", m.from # r,
         commit_quorum' = [commit_quorum EXCEPT ![r] = @ \cup {<<m.op, m.digest, m.from>>}],
         UNCHANGED prepare_quorum,
         \A x \in msgs' : x \in msgs \/ x.type = "reply"
  PROVE  VotesInv'
<1> DEFINE t == <<m.op, m.digest, m.from>>
<1>1. /\ t[3] # r
      /\ CommitMsg(t[3], t[1], Size(t[1], t[2]), t[2]) \in msgs
  BY VoteMessage
<1>2. commit_quorum' = [commit_quorum EXCEPT ![r] = @ \cup {t}]
  OBVIOUS
<1> HIDE DEF t
<1>3. VotesForBatches'
  BY VotesStay DEF VotesInv, VotesForBatches, Votes, Preprepares, Size
<1>4. QuorumsFromVotes'
  <2> SUFFICES ASSUME NEW q \in Replicas, NEW u \in commit_quorum'[q]
               PROVE  /\ u[3] # q
                      /\ CommitMsg(u[3], u[1], Size(u[1], u[2]), u[2]) \in msgs'
    BY VotesStay DEF QuorumsFromVotes, Size
  <2>1. u \in commit_quorum[q] \/ (q = r /\ u = t)
    BY <1>2 DEF TypeOK
  <2> QED BY <1>1, <2>1, VotesStay DEF Grows
<1>5. CommitsFromLog'
  BY VotesStay DEF CommitsFromLog
<1>6. CommitHasCertificate'
  BY CertificateStays DEF VotesInv, CommitHasCertificate, Grows
<1> QED BY <1>3, <1>4, <1>5, <1>6 DEF VotesInv

\* The types of the messages the constructors build.
LEMMA BuiltTypes ==
  /\ \A c, n, to : RequestMsg(c, n, to).type = "request"
  /\ \A r, req : ReplyMsg(r, req).type = "reply"
BY DEF RequestMsg, ReplyMsg

\* A PREPREPARE carries as many requests as its size says.
LEMMA CloseBatchSize ==
  ASSUME NEW lg \in Seq(Request), NEW b \in Seq(Request)
  PROVE  LET m == CloseBatch(lg, b)
         IN  m.type = "preprepare" /\ Len(m.reqs) = Size(m.op, m.digest)
<1>1. Len(lg) \in Nat /\ Len(b) \in Nat
  OBVIOUS
<1>2. Len(b) = (Len(lg) + 1) - ((Len(lg) + 1) - Len(b))
  BY <1>1
<1> QED BY <1>2 DEF CloseBatch, Size

\* The end of a process keeps what votes stand for.
LEMMA StopVotes == 
  ASSUME TypeOK, TypeOK', VotesInv, Grows, NEW p, Stop(p) PROVE VotesInv'
BY VotesFrame DEF Stop, replicaVars

\* HandleRequest keeps what votes stand for.
LEMMA RequestVotes ==
  ASSUME TypeOK, TypeOK', VotesInv, Grows,
         NEW r \in Replicas, NEW m \in msgs, HandleRequest(r, m)
  PROVE  VotesInv'
<1> DEFINE req == [client |-> m.client, num |-> m.num]
<1>1. CASE LogRequest(req)
  <2> DEFINE lg == Append(log[Primary], req)
             b  == Append(request_batch, req)
  <2>1. req \in Request
    BY MessageFields DEF TypeOK, HandleRequest, Request, Opnum
  <2>2. lg \in Seq(Request) /\ b \in Seq(Request)
    <3> HIDE DEF req
    <3> QED BY <2>1, Group DEF TypeOK
  <2>3. /\ UNCHANGED <<prepare_quorum, commit_quorum>>
        /\ \/ msgs' = msgs \cup {CloseBatch(lg, b)}
           \/ msgs' = msgs
    BY <1>1 DEF LogRequest, Send
  <2> HIDE DEF lg, b
  <2>4. /\ CloseBatch(lg, b).type = "preprepare"
        /\ Len(CloseBatch(lg, b).reqs) = Size(CloseBatch(lg, b).op, CloseBatch(lg, b).digest)
    BY <2>2, CloseBatchSize
  <2> QED BY <2>3, <2>4, VotesFrame
<1>2. CASE Stop(r)
  BY <1>2, StopVotes
<1>3. CASE /\ UNCHANGED <<prepare_quorum, commit_quorum>>
           /\ \/ msgs' = msgs
              \/ msgs' = msgs \cup {ReplyMsg(r, req)}
              \/ msgs' = msgs \cup {RequestMsg(m.client, m.num, {Primary})}
  BY <1>3, VotesFrame, BuiltTypes
<1> QED BY <1>1, <1>2, <1>3 DEF HandleRequest, Send, replicaVars

\* HandlePreprepare keeps what votes stand for.
LEMMA PreprepareVotes ==
  ASSUME TypeOK, TypeOK', VotesInv, Grows,
         NEW r \in Replicas, NEW m \in msgs, HandlePreprepare(r, m)
  PROVE  VotesInv'
<1> DEFINE n  == Len(log[r])
           p  == [op |-> m.op, size |-> Len(m.reqs), digest |-> m.digest]
           b  == request_buffer[r]
           n1 == n + Len(m.reqs)
<1>1. /\ m \in Preprepares /\ r # Primary
      /\ m.op \in Opnum /\ m.reqs \in Seq(Request) /\ m.digest \in Seq(Request)
  BY MessageFields DEF TypeOK, HandlePreprepare, Preprepares
<1>2. /\ p.op \in Opnum /\ p.digest \in Seq(Request) /\ p.size = Size(p.op, p.digest)
      /\ \E q \in Preprepares : q.op = p.op /\ q.digest = p.digest
  BY <1>1 DEF VotesInv, VotesForBatches
<1>3. OwnPrepare(r, p) \subseteq {PrepareMsg(r, p.op, p.size, p.digest)}
  BY DEF OwnPrepare
<1>4. CASE Stop(r)
  BY <1>4, StopVotes
<1>5. CASE /\ InsertPrepare(r, p, Primary, n, OwnPrepare(r, p))
           /\ UNCHANGED <<log, commit_quorum>>
  <2> HIDE DEF p
  <2> QED BY <1>1, <1>2, <1>3, <1>5, InsertPrepareVotes, Group
<1>6. CASE \E k \in DrainCounts(b, n1) :
             /\ log' = [log EXCEPT ![r] = (@ \o m.reqs) \o [i \in 1 .. k |-> b[n1 + i]]]
             /\ InsertPrepare(r, p, Primary, n1 + k, OwnPrepare(r, p))
             /\ UNCHANGED commit_quorum
  <2>1. PICK k \in DrainCounts(b, n1) :
             /\ log' = [log EXCEPT ![r] = (@ \o m.reqs) \o [i \in 1 .. k |-> b[n1 + i]]]
             /\ InsertPrepare(r, p, Primary, n1 + k, OwnPrepare(r, p))
             /\ UNCHANGED commit_quorum
    BY <1>6
  <2>2. n1 + k = Len(log'[r])
    BY <1>1, <2>1, AppendedLength
  <2> HIDE DEF p, n1
  <2> QED BY <1>1, <1>2, <1>3, <2>1, <2>2, InsertPrepareVotes, Group
<1> QED BY <1>4, <1>5, <1>6 DEF HandlePreprepare

\* Every step keeps what votes stand for.
LEMMA NextVotes ==
  ASSUME TypeOK, TypeOK', VotesInv, [Next]_vars
  PROVE  VotesInv'
<1>0. Grows
  BY NextGrows
<1>1. CASE UNCHANGED vars
  BY <1>0, <1>1, VotesFrame DEF vars, replicaVars
<1>2. CASE CloseBatchTimeout
  BY <1>0, <1>2, VotesFrame DEF CloseBatchTimeout, replicaVars
<1>3. CASE RunCloseBatch
  <2>1. log[Primary] \in Seq(Request) /\ request_batch \in Seq(Request)
    BY Group DEF TypeOK
  <2> DEFINE new == CloseBatch(log[Primary], request_batch)
  <2>2. new.type = "preprepare" /\ Len(new.reqs) = Size(new.op, new.digest)
    BY <2>1, CloseBatchSize
  <2>3. msgs' = msgs \cup {new} /\ UNCHANGED <<prepare_quorum, commit_quorum>>
    BY <1>3 DEF RunCloseBatch, Send, replicaVars
  <2> HIDE DEF new
  <2> QED BY <1>0, <2>2, <2>3, VotesFrame
<1>4. ASSUME NEW c \in Clients, ClientStep(c) PROVE VotesInv'
  <2>1. CASE Invoke(c)
    BY <1>0, <2>1, VotesFrame, BuiltTypes DEF Invoke, Send, replicaVars
  <2>2. CASE ResendRequest(c)
    BY <1>0, <2>2, VotesFrame, StopVotes, BuiltTypes DEF ResendRequest, Send, replicaVars
  <2>3. CASE \E m \in msgs : ReceiveReply(c, m)
    BY <1>0, <2>3, VotesFrame DEF ReceiveReply, replicaVars
  <2> QED BY <1>4, <2>1, <2>2, <2>3 DEF ClientStep
<1>5. ASSUME NEW r \in Replicas, NEW m \in msgs, HandlePrepare(r, m) PROVE VotesInv'
  <2>1. CASE Stop(r)
    BY <1>0, <2>1, StopVotes
  <2>2. CASE /\ InsertPrepare(r, m, m.from, Len(log[r]), {})
             /\ UNCHANGED <<log, commit_quorum>>
    <3>1. m.type = "prepare" /\ m.from # r
      BY <1>5 DEF HandlePrepare
    <3>2. /\ m.op \in Opnum /\ m.digest \in Seq(Request) /\ m.from \in Replicas
          /\ m.size = Size(m.op, m.digest)
          /\ PrepareMsg(m.from, m.op, m.size, m.digest) \in msgs
          /\ \E q \in Preprepares : q.op = m.op /\ q.digest = m.digest
      BY <3>1, VoteMessage
    <3>3. {} \subseteq {PrepareMsg(r, m.op, m.size, m.digest)}
      OBVIOUS
    <3> QED BY <1>0, <2>2, <3>1, <3>2, <3>3, InsertPrepareVotes
  <2> QED BY <1>5, <2>1, <2>2 DEF HandlePrepare
<1>6. ASSUME NEW r \in Replicas, NEW m \in msgs, HandleCommit(r, m) PROVE VotesInv'
  <2>1. CASE Stop(r)
    BY <1>0, <2>1, StopVotes
  <2>2. CASE /\ commit_quorum' = [commit_quorum EXCEPT
                                    ![r] = commit_quorum[r] \cup {<<m.op, m.digest, m.from>>}]
             /\ UNCHANGED prepare_quorum
             /\ \/ msgs' = msgs
                \/ \E k : msgs' = msgs \cup {ReplyMsg(r, log[r][i]) :
                                               i \in (commit_number[r] + 1) .. k}
    <3>1. m.type = "commit" /\ m.from # r
      BY <1>6 DEF HandleCommit
    <3>2. \A x \in msgs' : x \in msgs \/ x.type = "reply"
      BY <2>2, BuiltTypes
    <3> QED BY <1>0, <2>2, <3>1, <3>2, CommitVotes
  <2> QED BY <1>6, <2>1, <2>2 DEF HandleCommit, Send
<1> QED BY <1>0, <1>1, <1>2, <1>3, <1>4, <1>5, <1>6, RequestVotes, PreprepareVotes
        DEF Next, Handle

-----------------------------------------------------------------------------
(***************************************************************************)
(* Every step keeps BatchesInv.                                            *)
(***************************************************************************)

LEMMA InitBatches == Init => BatchesInv
BY Group DEF Init, BatchesInv, BatchesApart, BackupsHoldBatches, BufferWaitsForGap,
             Preprepares, Sent

\* Where a batch begins and ends.
LEMMA BatchEnds ==
  ASSUME NEW p \in Message, p.type = "preprepare", Len(p.reqs) = Size(p.op, p.digest)
  PROVE  /\ p.op \in Nat /\ p.op > 0 /\ Len(p.digest) \in Nat /\ Len(p.reqs) \in Nat
         /\ p.op <= Len(p.digest) + 1
         /\ (p.op + Len(p.reqs)) - 1 = Len(p.digest)
<1>1. p.op \in Opnum /\ p.digest \in Seq(Request) /\ p.reqs \in Seq(Request)
  BY DEF Message
<1> DEFINE a == p.op
           n == Len(p.reqs)
           z == Len(p.digest)
<1>2. a \in Nat /\ a > 0 /\ n \in Nat /\ z \in Nat
  BY <1>1 DEF Opnum
<1>3. n = (z + 1) - a
  BY DEF Size
<1> HIDE DEF a, n, z
<1>4. a <= z + 1 /\ (a + n) - 1 = z
  BY <1>2, <1>3
<1> QED BY <1>2, <1>4 DEF a, n, z

\* A log is not shorter than its open batch.
LEMMA Difference ==
  ASSUME NEW lg \in Seq(Request), NEW b \in Seq(Request), Len(b) <= Len(lg)
  PROVE  Len(lg) - Len(b) \in Nat
OBVIOUS

\* A step of the primary that may send the opnums behind the last one sent.
LEMMA PrimaryBatches ==
  ASSUME TypeOK, TypeOK', VotesInv, VotesInv', BatchIsSuffix, BatchIsSuffix', BatchesInv,
         \A r \in Replicas : r # Primary => log'[r] = log[r],
         UNCHANGED request_buffer, Sent <= Sent',
         \A p \in Preprepares' : \/ p \in Preprepares
                                 \/ p.op = Sent + 1 /\ Len(p.digest) = Sent'
  PROVE  BatchesInv'
<1>1. Sent \in Nat /\ Sent' \in Nat
  BY Difference, Group DEF TypeOK, BatchIsSuffix, Sent
<1>2. \A p \in Preprepares' : p.op \in Nat /\ Len(p.digest) \in Nat /\ p.op <= Len(p.digest) + 1
  BY BatchEnds DEF TypeOK, VotesInv, VotesForBatches, Preprepares, Size
<1>3. \A p \in Preprepares : Len(p.digest) <= Sent /\ p.op <= Len(p.digest) + 1
  BY BatchEnds DEF TypeOK, BatchesInv, BatchesApart, VotesInv, VotesForBatches, Preprepares
<1> DEFINE S == Sent
           S1 == Sent'
<1> HIDE DEF S, S1
<1>4. /\ S \in Nat /\ S1 \in Nat /\ S <= S1
      /\ \A p \in Preprepares : Len(p.digest) <= S /\ p.op <= Len(p.digest) + 1
      /\ \A p \in Preprepares' : p \in Preprepares \/ (p.op = S + 1 /\ Len(p.digest) = S1)
  BY <1>1, <1>3 DEF S, S1
<1>5. BatchesApart'
  <2>1. \A p \in Preprepares' : Len(p.digest) <= S1
    BY <1>2, <1>4
  <2>2. ASSUME NEW p \in Preprepares', NEW q \in Preprepares'
        PROVE  /\ q.op <= p.op \/ Len(p.digest) < q.op
               /\ Len(q.digest) < p.op \/ Len(p.digest) <= Len(q.digest)
    <3>1. CASE p \in Preprepares /\ q \in Preprepares
      BY <3>1 DEF BatchesInv, BatchesApart
    <3> DEFINE a == p.op
               z == Len(p.digest)
               b == q.op
               y == Len(q.digest)
    <3>2. /\ a \in Nat /\ z \in Nat /\ b \in Nat /\ y \in Nat
          /\ p \in Preprepares => z <= S /\ a <= z + 1
          /\ q \in Preprepares => y <= S /\ b <= y + 1
          /\ p \notin Preprepares => a = S + 1 /\ z = S1
          /\ q \notin Preprepares => b = S + 1 /\ y = S1
      BY <1>2, <1>4
    <3> HIDE DEF a, z, b, y
    <3>3. CASE ~(p \in Preprepares /\ q \in Preprepares)
      <4>1. (b <= a \/ z < b) /\ (y < a \/ z <= y)
        BY <1>4, <3>2, <3>3
      <4> QED BY <4>1 DEF a, z, b, y
    <3> QED BY <3>1, <3>3
  <2> QED BY <2>1, <2>2 DEF BatchesApart, S1
<1>6. BackupsHoldBatches'
  <2> SUFFICES ASSUME NEW r \in Replicas \ {Primary}
               PROVE  /\ Len(log'[r]) <= S1
                      /\ \A op \in DOMAIN request_buffer[r] : op <= S1
                      /\ \A p \in Preprepares' :
                           /\ Len(log'[r]) < p.op \/ Len(p.digest) <= Len(log'[r])
                           /\ \A op \in DOMAIN request_buffer[r] : op \in p.op .. Len(p.digest) =>
                                p.op .. Len(p.digest) \subseteq DOMAIN request_buffer[r]
    BY DEF BackupsHoldBatches, S1
  <2>1. log'[r] = log[r] /\ Len(log[r]) \in Nat /\ DOMAIN request_buffer[r] \subseteq Nat
    BY DEF TypeOK, Opnum
  <2>2. /\ Len(log[r]) <= S
        /\ \A op \in DOMAIN request_buffer[r] : op <= S
        /\ \A p \in Preprepares :
             /\ Len(log[r]) < p.op \/ Len(p.digest) <= Len(log[r])
             /\ \A op \in DOMAIN request_buffer[r] : op \in p.op .. Len(p.digest) =>
                  p.op .. Len(p.digest) \subseteq DOMAIN request_buffer[r]
    BY DEF BatchesInv, BackupsHoldBatches, S
  <2>3. Len(log'[r]) <= S1 /\ \A op \in DOMAIN request_buffer[r] : op <= S1
    BY <1>4, <2>1, <2>2
  <2>4. ASSUME NEW p \in Preprepares', p \notin Preprepares
        PROVE  /\ Len(log[r]) < p.op
               /\ \A op \in DOMAIN request_buffer[r] : ~(op \in p.op .. Len(p.digest))
    <3> DEFINE a == p.op
               z == Len(p.digest)
    <3>1. a = S + 1 /\ z \in Nat
      BY <1>2, <1>4, <2>4
    <3> HIDE DEF a, z
    <3>2. Len(log[r]) < a /\ \A op \in DOMAIN request_buffer[r] : ~(op \in a .. z)
      BY <1>4, <2>1, <2>2, <3>1
    <3> QED BY <3>2 DEF a, z
  <2> QED BY <2>1, <2>2, <2>3, <2>4
<1>7. BufferWaitsForGap'
  <2> SUFFICES ASSUME NEW r \in Replicas, NEW op \in DOMAIN request_buffer[r]
               PROVE  op > Len(log'[r]) + 1
    BY DEF BufferWaitsForGap
  <2>1. r # Primary
    BY DEF BatchesInv
  <2> QED BY <2>1 DEF BatchesInv, BufferWaitsForGap
<1> QED BY <1>5, <1>6, <1>7 DEF BatchesInv

\* A step that changes no log, batch or buffer and sends no batch.
LEMMA BatchesFrame ==
  ASSUME BatchesInv, UNCHANGED <<log, request_batch, request_buffer>>,
         \A m \in msgs' : m \in msgs \/ m.type # "preprepare"
  PROVE  BatchesInv'
<1>1. \A p \in Preprepares' : p \in Preprepares
  BY DEF Preprepares
<1>2. Sent' = Sent
  BY DEF Sent
<1>3. BatchesApart' /\ BackupsHoldBatches'
  BY <1>1, <1>2 DEF BatchesInv, BatchesApart, BackupsHoldBatches
<1> QED BY <1>3 DEF BatchesInv, BufferWaitsForGap

\* The drain loop moves whole batches and leaves no opnum at the end of the log.
LEMMA DrainWholeBatches ==
  ASSUME NEW b, DOMAIN b \subseteq Nat, NEW first \in Nat, NEW n1 \in Nat,
         NEW k \in DrainCounts(b, n1),
         \A op \in DOMAIN b : op > first,
         \A op \in DOMAIN b : op \in first .. n1 => first .. n1 \subseteq DOMAIN b,
         NEW a \in Nat, NEW z \in Nat,
         n1 < a \/ z <= n1,
         \A op \in DOMAIN b : op \in a .. z => a .. z \subseteq DOMAIN b
  PROVE  LET left == DOMAIN b \ ((n1 + 1) .. (n1 + k))
         IN  /\ \A op \in left : op > (n1 + k) + 1
             /\ n1 + k < a \/ z <= n1 + k
             /\ \A op \in left : op \in a .. z => a .. z \subseteq left
<1>1. \A op \in DOMAIN b : op > n1
  <2> SUFFICES ASSUME NEW op \in DOMAIN b, op <= n1 PROVE FALSE
    OBVIOUS
  <2>1. op \in first .. n1
    OBVIOUS
  <2>2. first \in DOMAIN b
    BY <2>1
  <2> QED BY <2>2
<1>2. /\ k \in Nat
      /\ \A i \in 1 .. k : n1 + i \in DOMAIN b
      /\ n1 + k + 1 \notin DOMAIN b
  BY <1>1 DEF DrainCounts
<1> DEFINE left == DOMAIN b \ ((n1 + 1) .. (n1 + k))
<1>3. \A op \in left : op > (n1 + k) + 1
  BY <1>1, <1>2
<1>4. n1 + k < a \/ z <= n1 + k
  <2> SUFFICES ASSUME a <= n1 + k, n1 + k < z PROVE FALSE
    BY <1>2
  <2>1. n1 < a
    BY <1>2
  <2>2. a - n1 \in 1 .. k /\ n1 + (a - n1) = a
    BY <1>2, <2>1
  <2>3. a \in DOMAIN b
    BY <1>2, <2>2
  <2>4. a .. z \subseteq DOMAIN b
    BY <2>3
  <2> QED BY <1>2, <2>1, <2>4
<1>5. ASSUME NEW op \in left, op \in a .. z
      PROVE  a .. z \subseteq left
  <2>1. a .. z \subseteq DOMAIN b /\ op > (n1 + k) + 1
    BY <1>3, <1>5
  <2>2. n1 + k < a
    BY <1>2, <1>4, <1>5, <2>1
  <2> QED BY <1>2, <2>1, <2>2
<1> QED BY <1>3, <1>4, <1>5

\* Two batches with an opnum in common are the same opnums.
LEMMA SameBatch ==
  ASSUME BatchesApart, NEW p \in Preprepares, NEW q \in Preprepares,
         p.op \in Nat, q.op \in Nat, Len(p.digest) \in Nat, Len(q.digest) \in Nat,
         NEW i \in Nat, i \in p.op .. Len(p.digest), i \in q.op .. Len(q.digest)
  PROVE  p.op .. Len(p.digest) \subseteq q.op .. Len(q.digest)
<1>1. /\ q.op <= p.op \/ Len(p.digest) < q.op
      /\ Len(q.digest) < p.op \/ Len(p.digest) <= Len(q.digest)
  BY DEF BatchesApart
<1> DEFINE a == p.op
           z == Len(p.digest)
           b == q.op
           y == Len(q.digest)
<1>2. /\ a \in Nat /\ z \in Nat /\ b \in Nat /\ y \in Nat
      /\ a <= i /\ i <= z /\ b <= i /\ i <= y
      /\ b <= a \/ z < b
      /\ y < a \/ z <= y
  BY <1>1
<1> HIDE DEF a, z, b, y
<1>3. a .. z \subseteq b .. y
  BY <1>2
<1> QED BY <1>3 DEF a, z, b, y

\* A backup buffers the batch m that does not follow its log.
LEMMA BufferBatches ==
  ASSUME TypeOK, VotesInv, BatchesInv, NEW r \in Replicas, r # Primary,
         NEW m \in Preprepares, m.op > Len(log[r]), m.op # Len(log[r]) + 1,
         UNCHANGED <<log, request_batch>>,
         \A p \in Preprepares' : p \in Preprepares,
         \A q \in Replicas : q # r => request_buffer'[q] = request_buffer[q],
         DOMAIN request_buffer'[r] =
           (m.op .. (m.op + Len(m.reqs)) - 1) \cup DOMAIN request_buffer[r]
  PROVE  BatchesInv'
<1> DEFINE B == DOMAIN request_buffer[r]
           D == m.op .. Len(m.digest)
           n == Len(log[r])
<1>1. \A p \in Preprepares : /\ p.op \in Nat /\ p.op > 0 /\ Len(p.digest) \in Nat
                             /\ (p.op + Len(p.reqs)) - 1 = Len(p.digest)
  BY BatchEnds DEF TypeOK, VotesInv, VotesForBatches, Preprepares
<1>2. DOMAIN request_buffer'[r] = D \cup B
  BY <1>1
<1>3. n \in Nat /\ B \subseteq Nat
  BY DEF TypeOK, Opnum
<1>4. Sent' = Sent /\ \A p \in Preprepares : Len(p.digest) <= Sent
  BY DEF Sent, BatchesInv, BatchesApart
<1>5. \A i \in D : i \in Nat /\ i > n + 1 /\ i <= Len(m.digest)
  <2> DEFINE a == m.op
             z == Len(m.digest)
  <2>1. a \in Nat /\ z \in Nat /\ a > n /\ a # n + 1
    BY <1>1
  <2> HIDE DEF a, z, n
  <2>2. \A i \in a .. z : i \in Nat /\ i > n + 1 /\ i <= z
    BY <1>3, <2>1
  <2> QED BY <2>2 DEF a, z
<1>6. Sent \in Int
  BY Group DEF TypeOK, Sent
<1>7. BatchesApart'
  BY <1>4 DEF BatchesInv, BatchesApart
<1>8. BackupsHoldBatches'
  <2> SUFFICES ASSUME NEW q \in Replicas \ {Primary}
               PROVE  /\ Len(log[q]) <= Sent
                      /\ \A op \in DOMAIN request_buffer'[q] : op <= Sent
                      /\ \A p \in Preprepares :
                           /\ Len(log[q]) < p.op \/ Len(p.digest) <= Len(log[q])
                           /\ \A op \in DOMAIN request_buffer'[q] : op \in p.op .. Len(p.digest) =>
                                p.op .. Len(p.digest) \subseteq DOMAIN request_buffer'[q]
    BY <1>4 DEF BackupsHoldBatches
  <2>1. /\ Len(log[q]) <= Sent
        /\ \A op \in DOMAIN request_buffer[q] : op <= Sent
        /\ \A p \in Preprepares :
             /\ Len(log[q]) < p.op \/ Len(p.digest) <= Len(log[q])
             /\ \A op \in DOMAIN request_buffer[q] : op \in p.op .. Len(p.digest) =>
                  p.op .. Len(p.digest) \subseteq DOMAIN request_buffer[q]
    BY DEF BatchesInv, BackupsHoldBatches
  <2>2. CASE q # r
    BY <2>1, <2>2
  <2>3. CASE q = r
    <3>1. \A op \in D : op <= Sent
      <4> DEFINE z == Len(m.digest)
      <4>1. z \in Nat /\ z <= Sent
        BY <1>1, <1>4
      <4> HIDE DEF z
      <4>2. \A i \in Nat : i <= z => i <= Sent
        BY <1>6, <4>1
      <4> QED BY <1>5, <4>2 DEF z
    <3>2. ASSUME NEW p \in Preprepares, NEW op \in D \cup B, op \in p.op .. Len(p.digest)
          PROVE  p.op .. Len(p.digest) \subseteq D \cup B
      <4>1. CASE op \in B
        BY <2>1, <2>3, <3>2, <4>1
      <4>2. CASE op \in D
        <5>1. op \in Nat
          BY <1>5, <4>2
        <5>2. p.op .. Len(p.digest) \subseteq D
          BY <1>1, <3>2, <4>2, <5>1, SameBatch DEF BatchesInv
        <5> QED BY <5>2
      <4> QED BY <4>1, <4>2
    <3> HIDE DEF B, D
    <3>3. \A op \in D \cup B : op <= Sent
      BY <2>1, <2>3, <3>1 DEF B
    <3> QED BY <1>2, <2>1, <2>3, <3>2, <3>3
  <2> QED BY <2>2, <2>3
<1>9. BufferWaitsForGap'
  <2> SUFFICES ASSUME NEW q \in Replicas, NEW op \in DOMAIN request_buffer'[q]
               PROVE  op > Len(log[q]) + 1
    BY DEF BufferWaitsForGap
  <2>1. CASE q # r \/ op \in B
    BY <2>1 DEF BatchesInv, BufferWaitsForGap
  <2>2. CASE q = r /\ op \in D
    BY <1>5, <2>2
  <2> QED BY <1>2, <2>1, <2>2
<1>10. DOMAIN request_buffer'[Primary] = {}
  BY Group DEF BatchesInv
<1> QED BY <1>7, <1>8, <1>9, <1>10 DEF BatchesInv

\* A backup appends the batch m that follows its log and drains its buffer.
LEMMA AppendBatches ==
  ASSUME TypeOK, VotesInv, BatchesInv, NEW r \in Replicas, r # Primary,
         NEW m \in Preprepares, m.op = Len(log[r]) + 1,
         NEW k \in DrainCounts(request_buffer[r], Len(log[r]) + Len(m.reqs)),
         UNCHANGED request_batch,
         \A p \in Preprepares' : p \in Preprepares,
         \A q \in Replicas : q # r => /\ request_buffer'[q] = request_buffer[q]
                                      /\ log'[q] = log[q],
         Len(log'[r]) = (Len(log[r]) + Len(m.reqs)) + k,
         DOMAIN request_buffer'[r] = DOMAIN request_buffer[r] \
           (((Len(log[r]) + Len(m.reqs)) + 1) .. ((Len(log[r]) + Len(m.reqs)) + k))
  PROVE  BatchesInv'
<1> DEFINE b  == request_buffer[r]
           n  == Len(log[r])
           n1 == n + Len(m.reqs)
           left == DOMAIN b \ ((n1 + 1) .. (n1 + k))
<1>1. \A p \in Preprepares : /\ p.op \in Nat /\ p.op > 0 /\ Len(p.digest) \in Nat
                             /\ Len(p.reqs) \in Nat
                             /\ (p.op + Len(p.reqs)) - 1 = Len(p.digest)
  BY BatchEnds DEF TypeOK, VotesInv, VotesForBatches, Preprepares
<1>2. n \in Nat /\ DOMAIN b \subseteq Nat
  BY DEF TypeOK, Opnum
<1>3. n1 \in Nat /\ n1 = Len(m.digest) /\ m.op \in Nat
  <2> DEFINE a == m.op
             z == Len(m.digest)
             l == Len(m.reqs)
  <2>1. a \in Nat /\ z \in Nat /\ l \in Nat /\ (a + l) - 1 = z /\ a = n + 1
    BY <1>1
  <2> HIDE DEF a, z, l, n
  <2>2. n + l \in Nat /\ n + l = z
    BY <1>2, <2>1
  <2> QED BY <2>1, <2>2 DEF a, z, l
<1>4. Sent' = Sent /\ \A p \in Preprepares : Len(p.digest) <= Sent
  BY Group DEF Sent, BatchesInv, BatchesApart
<1>5. /\ \A op \in DOMAIN b : op > m.op /\ op <= Sent
      /\ \A p \in Preprepares : /\ n < p.op \/ Len(p.digest) <= n
                                /\ \A op \in DOMAIN b : op \in p.op .. Len(p.digest) =>
                                     p.op .. Len(p.digest) \subseteq DOMAIN b
  BY DEF BatchesInv, BackupsHoldBatches, BufferWaitsForGap
<1>6. \A p \in Preprepares : n1 < p.op \/ Len(p.digest) <= n1
  BY <1>3 DEF BatchesInv, BatchesApart
<1>7. \A op \in DOMAIN b : op \in m.op .. n1 => m.op .. n1 \subseteq DOMAIN b
  BY <1>3, <1>5
<1>8. ASSUME NEW p \in Preprepares
      PROVE  /\ \A op \in left : op > (n1 + k) + 1
             /\ n1 + k < p.op \/ Len(p.digest) <= n1 + k
             /\ \A op \in left : op \in p.op .. Len(p.digest) =>
                  p.op .. Len(p.digest) \subseteq left
  <2>1. p.op \in Nat /\ Len(p.digest) \in Nat
    BY <1>1
  <2>2. \A op \in DOMAIN b : op \in p.op .. Len(p.digest) =>
          p.op .. Len(p.digest) \subseteq DOMAIN b
    BY <1>5
  <2> DEFINE first == m.op
             a == p.op
             z == Len(p.digest)
  <2> HIDE DEF b, n1, first, a, z
  <2>3. /\ \A op \in DOMAIN b \ ((n1 + 1) .. (n1 + k)) : op > (n1 + k) + 1
        /\ n1 + k < a \/ z <= n1 + k
        /\ \A op \in DOMAIN b \ ((n1 + 1) .. (n1 + k)) : op \in a .. z =>
             a .. z \subseteq DOMAIN b \ ((n1 + 1) .. (n1 + k))
    <3>1. /\ DOMAIN b \subseteq Nat /\ first \in Nat /\ n1 \in Nat
          /\ a \in Nat /\ z \in Nat /\ k \in DrainCounts(b, n1)
          /\ \A op \in DOMAIN b : op > first
          /\ \A op \in DOMAIN b : op \in first .. n1 => first .. n1 \subseteq DOMAIN b
          /\ n1 < a \/ z <= n1
          /\ \A op \in DOMAIN b : op \in a .. z => a .. z \subseteq DOMAIN b
      BY <1>2, <1>3, <1>5, <1>6, <1>7, <2>1, <2>2 DEF first, a, z, b, n1
    <3> QED BY SMTT(30), <3>1, DrainWholeBatches
  <2> QED BY <2>3 DEF a, z
<1>9. k \in Nat /\ \A i \in 1 .. k : n1 + i \in DOMAIN b
  BY <1>3, Drained
<1>10. Sent \in Int
  BY Group DEF TypeOK, Sent
<1>11. n1 + k <= Sent
  <2>1. n1 <= Sent
    BY <1>3, <1>4
  <2> HIDE DEF n1, b
  <2>2. k = 0 \/ n1 + k \in DOMAIN b
    <3>1. k # 0 => k \in 1 .. k
      BY <1>9
    <3> QED BY <1>9, <3>1
  <2> QED BY <1>3, <1>5, <1>10, <2>1, <2>2
<1>12. Len(log'[r]) = n1 + k /\ DOMAIN request_buffer'[r] = left
  OBVIOUS
<1>13. m \in Preprepares
  OBVIOUS
<1> HIDE DEF n1, left
<1>14. BatchesApart'
  BY <1>4 DEF BatchesInv, BatchesApart
<1>15. BackupsHoldBatches'
  <2> SUFFICES ASSUME NEW q \in Replicas \ {Primary}
               PROVE  /\ Len(log'[q]) <= Sent
                      /\ \A op \in DOMAIN request_buffer'[q] : op <= Sent
                      /\ \A p \in Preprepares :
                           /\ Len(log'[q]) < p.op \/ Len(p.digest) <= Len(log'[q])
                           /\ \A op \in DOMAIN request_buffer'[q] : op \in p.op .. Len(p.digest) =>
                                p.op .. Len(p.digest) \subseteq DOMAIN request_buffer'[q]
    BY <1>4 DEF BackupsHoldBatches
  <2>1. CASE q # r
    BY <2>1 DEF BatchesInv, BackupsHoldBatches
  <2>2. CASE q = r
    <3>1. \A op \in left : op <= Sent
      BY <1>5 DEF left
    <3> QED BY <1>8, <1>11, <1>12, <2>2, <3>1
  <2> QED BY <2>1, <2>2
<1>16. BufferWaitsForGap'
  <2> SUFFICES ASSUME NEW q \in Replicas, NEW op \in DOMAIN request_buffer'[q]
               PROVE  op > Len(log'[q]) + 1
    BY DEF BufferWaitsForGap
  <2>1. CASE q # r
    BY <2>1 DEF BatchesInv, BufferWaitsForGap
  <2>2. CASE q = r
    BY <1>8, <1>12, <1>13, <2>2
  <2> QED BY <2>1, <2>2
<1>17. DOMAIN request_buffer'[Primary] = {}
  BY Group DEF BatchesInv
<1> QED BY <1>14, <1>15, <1>16, <1>17 DEF BatchesInv

\* HandlePreprepare keeps the batches of a replica in its log.
LEMMA PreprepareBatches ==
  ASSUME TypeOK, VotesInv, BatchesInv, NEW r \in Replicas, NEW m \in msgs, HandlePreprepare(r, m)
  PROVE  BatchesInv'
<1> DEFINE n  == Len(log[r])
           p  == [op |-> m.op, size |-> Len(m.reqs), digest |-> m.digest]
           b  == request_buffer[r]
           n1 == n + Len(m.reqs)
           buffered == [op \in m.op .. (m.op + Len(m.reqs)) - 1 |-> m.reqs[(op - m.op) + 1]]
<1>1. /\ m \in Preprepares /\ r # Primary /\ m.op > n
      /\ m.reqs \in Seq(Request)
  BY MessageFields DEF TypeOK, HandlePreprepare, Preprepares
<1>2. \A x \in OwnPrepare(r, p) : x.type # "preprepare"
  BY NotPreprepare DEF OwnPrepare
<1>3. CASE Stop(r)
  BY <1>3, BatchesFrame DEF Stop, replicaVars, primaryVars
<1>4. CASE /\ ~NextInLog(m.op, n)
           /\ request_buffer' = [request_buffer EXCEPT ![r] =
                [op \in DOMAIN buffered \cup DOMAIN @ |->
                   IF op \in DOMAIN buffered THEN buffered[op] ELSE @[op]]]
           /\ InsertPrepare(r, p, Primary, n, OwnPrepare(r, p))
           /\ UNCHANGED <<log, request_batch>>
  <2>1. \A x \in msgs' : x \in msgs \/ x.type # "preprepare"
    <3> HIDE DEF p, n
    <3> QED BY <1>2, <1>4, InsertPrepareSends
  <2>2. \A x \in Preprepares' : x \in Preprepares
    BY <2>1 DEF Preprepares
  <2>3. DOMAIN buffered = m.op .. (m.op + Len(m.reqs)) - 1
    OBVIOUS
  <2>4. /\ \A q \in Replicas : q # r => request_buffer'[q] = request_buffer[q]
        /\ DOMAIN request_buffer'[r] = DOMAIN buffered \cup DOMAIN request_buffer[r]
    <3> HIDE DEF buffered
    <3> QED BY <1>4 DEF TypeOK
  <2>5. m.op # Len(log[r]) + 1
    BY <1>4 DEF NextInLog
  <2> HIDE DEF buffered, p
  <2> QED BY <1>1, <1>4, <2>2, <2>3, <2>4, <2>5, BufferBatches
<1>5. CASE /\ NextInLog(m.op, n)
           /\ \E k \in DrainCounts(b, n1) :
             /\ log' = [log EXCEPT ![r] = (@ \o m.reqs) \o [i \in 1 .. k |-> b[n1 + i]]]
             /\ request_buffer' = [request_buffer EXCEPT ![r] =
                  [op \in DOMAIN b \ ((n1 + 1) .. (n1 + k)) |-> b[op]]]
             /\ InsertPrepare(r, p, Primary, n1 + k, OwnPrepare(r, p))
             /\ UNCHANGED request_batch
  <2>1. PICK k \in DrainCounts(b, n1) :
             /\ log' = [log EXCEPT ![r] = (@ \o m.reqs) \o [i \in 1 .. k |-> b[n1 + i]]]
             /\ request_buffer' = [request_buffer EXCEPT ![r] =
                  [op \in DOMAIN b \ ((n1 + 1) .. (n1 + k)) |-> b[op]]]
             /\ InsertPrepare(r, p, Primary, n1 + k, OwnPrepare(r, p))
             /\ UNCHANGED request_batch
    BY <1>5
  <2>2. \A x \in msgs' : x \in msgs \/ x.type # "preprepare"
    <3> HIDE DEF p, n, n1, b
    <3> QED BY <1>2, <2>1, InsertPrepareSends
  <2>3. \A x \in Preprepares' : x \in Preprepares
    BY <2>2 DEF Preprepares
  <2>4. Len(log'[r]) = n1 + k
    BY <1>1, <2>1, AppendedLength
  <2>5. \A q \in Replicas : q # r => /\ request_buffer'[q] = request_buffer[q]
                                     /\ log'[q] = log[q]
    BY <2>1 DEF TypeOK
  <2>6. DOMAIN request_buffer'[r] = DOMAIN b \ ((n1 + 1) .. (n1 + k))
    <3> HIDE DEF n1
    <3> QED BY <2>1 DEF TypeOK
  <2>7. m.op = n + 1 /\ UNCHANGED request_batch
    BY <1>5, <2>1 DEF NextInLog
  <2> HIDE DEF p
  <2> QED BY <1>1, <2>3, <2>4, <2>5, <2>6, <2>7, AppendBatches
<1> QED BY <1>3, <1>4, <1>5 DEF HandlePreprepare, primaryVars

\* The batch that the primary's step closes, if any.
LEMMA LogRequestBatches ==
  ASSUME TypeOK, TypeOK', VotesInv, VotesInv', BatchIsSuffix, BatchIsSuffix', BatchesInv,
         NEW req \in Request, LogRequest(req)
  PROVE  BatchesInv'
<1> DEFINE lg == Append(log[Primary], req)
           b  == Append(request_batch, req)
           n  == Len(log[Primary])
           l  == Len(request_batch)
<1>1. /\ log[Primary] \in Seq(Request) /\ request_batch \in Seq(Request)
      /\ n \in Nat /\ l \in Nat /\ l <= n
  BY Group DEF TypeOK, BatchIsSuffix
<1>2. Len(lg) = n + 1 /\ Len(b) = l + 1
  BY <1>1
<1>3. /\ log' = [log EXCEPT ![Primary] = lg] /\ UNCHANGED request_buffer
      /\ \/ request_batch' = <<>> /\ msgs' = msgs \cup {CloseBatch(lg, b)}
         \/ request_batch' = b /\ msgs' = msgs
  BY DEF LogRequest, Send
<1>4. log'[Primary] = lg /\ \A r \in Replicas : r # Primary => log'[r] = log[r]
  BY <1>3, Group DEF TypeOK
<1>5. Sent = n - l
  BY DEF Sent
<1>6. CloseBatch(lg, b).op = (Len(lg) + 1) - Len(b) /\ CloseBatch(lg, b).digest = lg
  BY DEF CloseBatch
<1> HIDE DEF lg, b, n, l
<1>7. CASE request_batch' = <<>> /\ msgs' = msgs \cup {CloseBatch(lg, b)}
  <2>1. Sent' = n + 1
    BY <1>2, <1>4, <1>7, <1>1 DEF Sent
  <2>2. (Len(lg) + 1) - Len(b) = Sent + 1 /\ Len(lg) = Sent' /\ Sent <= Sent'
    BY <1>1, <1>2, <1>5, <2>1
  <2>3. \A p \in Preprepares' : p \in Preprepares \/ p = CloseBatch(lg, b)
    BY <1>7 DEF Preprepares
  <2> QED BY <1>3, <1>4, <1>6, <2>2, <2>3, PrimaryBatches
<1>8. CASE request_batch' = b /\ msgs' = msgs
  <2>1. Sent' = Sent /\ Sent <= Sent'
    <3>1. Sent' = Len(lg) - Len(b)
      BY <1>4, <1>8 DEF Sent
    <3> QED BY <1>1, <1>2, <1>5, <3>1
  <2>2. \A p \in Preprepares' : p \in Preprepares
    BY <1>8 DEF Preprepares
  <2> QED BY <1>3, <1>4, <2>1, <2>2, PrimaryBatches
<1> QED BY <1>3, <1>7, <1>8

\* Every step keeps the batches of a replica in its log.
LEMMA NextBatches ==
  ASSUME TypeOK, TypeOK', VotesInv, VotesInv', BatchIsSuffix, BatchIsSuffix', BatchesInv,
         [Next]_vars
  PROVE  BatchesInv'
<1>1. CASE UNCHANGED vars
  BY <1>1, BatchesFrame DEF vars, replicaVars, primaryVars
<1>2. CASE CloseBatchTimeout
  BY <1>2, BatchesFrame DEF CloseBatchTimeout, replicaVars
<1>3. CASE RunCloseBatch
  <2> DEFINE lg == log[Primary]
             b  == request_batch
             n  == Len(lg)
             l  == Len(b)
  <2>1. /\ lg \in Seq(Request) /\ b \in Seq(Request)
        /\ n \in Nat /\ l \in Nat /\ l <= n
    BY Group DEF TypeOK, BatchIsSuffix
  <2>2. /\ request_batch' = <<>> /\ msgs' = msgs \cup {CloseBatch(lg, b)}
        /\ UNCHANGED <<log, request_buffer>>
    BY <1>3 DEF RunCloseBatch, Send, replicaVars
  <2>3. CloseBatch(lg, b).op = (n + 1) - l /\ CloseBatch(lg, b).digest = lg
    BY DEF CloseBatch
  <2>4. Sent = n - l /\ Sent' = n
    BY <2>1, <2>2 DEF Sent
  <2> HIDE DEF n, l
  <2>5. (n + 1) - l = Sent + 1 /\ n = Sent' /\ Sent <= Sent'
    BY <2>1, <2>4
  <2> HIDE DEF b
  <2>6. \A p \in Preprepares' : p \in Preprepares \/ p = CloseBatch(lg, b)
    BY <2>2 DEF Preprepares
  <2>7. CloseBatch(lg, b).op = Sent + 1 /\ Len(CloseBatch(lg, b).digest) = Sent'
    BY <2>3, <2>5 DEF n
  <2> QED BY <2>2, <2>5, <2>6, <2>7, PrimaryBatches
<1>4. ASSUME NEW c \in Clients, ClientStep(c) PROVE BatchesInv'
  <2>1. CASE Invoke(c)
    BY <2>1, BatchesFrame, NotPreprepare DEF Invoke, Send, replicaVars, primaryVars
  <2>2. CASE ResendRequest(c)
    BY <2>2, BatchesFrame, NotPreprepare DEF ResendRequest, Stop, Send, replicaVars, primaryVars
  <2>3. CASE \E m \in msgs : ReceiveReply(c, m)
    BY <2>3, BatchesFrame DEF ReceiveReply, replicaVars, primaryVars
  <2> QED BY <1>4, <2>1, <2>2, <2>3 DEF ClientStep
<1>5. ASSUME NEW r \in Replicas, NEW m \in msgs, HandleRequest(r, m) PROVE BatchesInv'
  <2> DEFINE req == [client |-> m.client, num |-> m.num]
  <2>1. CASE LogRequest(req)
    <3>1. req \in Request
      BY <1>5, MessageFields DEF TypeOK, HandleRequest, Request, Opnum
    <3> QED BY <2>1, <3>1, LogRequestBatches
  <2>2. CASE /\ UNCHANGED <<log, request_batch, request_buffer>>
             /\ \/ msgs' = msgs
                \/ msgs' = msgs \cup {ReplyMsg(r, req)}
                \/ msgs' = msgs \cup {RequestMsg(m.client, m.num, {Primary})}
    BY <2>2, BatchesFrame, NotPreprepare
  <2> QED BY <1>5, <2>1, <2>2 DEF HandleRequest, Stop, Send, replicaVars, primaryVars
<1>6. ASSUME NEW r \in Replicas, NEW m \in msgs, HandlePrepare(r, m) PROVE BatchesInv'
  <2>1. CASE Stop(r)
    BY <2>1, BatchesFrame DEF Stop, replicaVars, primaryVars
  <2>2. CASE /\ InsertPrepare(r, m, m.from, Len(log[r]), {})
             /\ UNCHANGED <<log, request_batch, request_buffer>>
    BY <2>2, BatchesFrame, InsertPrepareSends
  <2> QED BY <1>6, <2>1, <2>2 DEF HandlePrepare, primaryVars
<1>7. ASSUME NEW r \in Replicas, NEW m \in msgs, HandleCommit(r, m) PROVE BatchesInv'
  <2>1. CASE Stop(r)
    BY <2>1, BatchesFrame DEF Stop, replicaVars, primaryVars
  <2>2. CASE /\ UNCHANGED <<log, request_batch, request_buffer>>
             /\ \/ msgs' = msgs
                \/ \E k : msgs' = msgs \cup {ReplyMsg(r, log[r][i]) :
                                               i \in (commit_number[r] + 1) .. k}
    <3>1. \A x \in msgs' : x \in msgs \/ x.type # "preprepare"
      BY <2>2, NotPreprepare
    <3> QED BY <2>2, <3>1, BatchesFrame
  <2> QED BY <1>7, <2>1, <2>2 DEF HandleCommit, Send, primaryVars
<1> QED BY <1>1, <1>2, <1>3, <1>4, <1>5, <1>6, <1>7, PreprepareBatches DEF Next, Handle

-----------------------------------------------------------------------------
(***************************************************************************)
(* Every step keeps CommittedInv, RepliesInv and CompletedIsExecuted.      *)
(***************************************************************************)

LEMMA InitReplies == Init => CommittedInv /\ RepliesInv /\ CompletedIsExecuted
<1> SUFFICES ASSUME Init PROVE CommittedInv /\ RepliesInv /\ CompletedIsExecuted
  OBVIOUS
<1>1. CommittedInv /\ RepliesInv
  BY DEF Init, CommittedInv, RepliesInv
<1>2. CompletedIsExecuted
  BY DEF Init, CompletedIsExecuted
<1> QED BY <1>1, <1>2

\* The part of HandleCommit that executes, up to opnum k.
Executes(r, m, k) ==
  LET quorum == commit_quorum[r] \cup {<<m.op, m.digest, m.from>>}
      done   == committed[r] \cup (m.op .. (m.op + m.size) - 1)
  IN  /\ m.type = "commit" /\ m.from # r
      /\ CommitCount(r, m.op, m.digest, m.from) >= 2 * f
      /\ k \in ExecuteLimits(r, done)
      /\ commit_quorum' = [commit_quorum EXCEPT ![r] = quorum]
      /\ committed' = [committed EXCEPT ![r] = done]
      /\ commit_number' = [commit_number EXCEPT ![r] = k]
      /\ client_table' = [client_table EXCEPT ![r] = TableAfter(r, commit_number[r] + 1, k)]
      /\ msgs' = msgs \cup {ReplyMsg(r, log[r][i]) : i \in (commit_number[r] + 1) .. k}
      /\ UNCHANGED <<log, pending, last_req, received>>

\* A step executes, or leaves what is committed and executed as it is.
LEMMA ExecutesOrNot ==
  ASSUME TypeOK, [Next]_vars
  PROVE  \/ \E r \in Replicas, m \in msgs, k \in Nat : Executes(r, m, k)
         \/ UNCHANGED <<committed, commit_number>>
<1>1. CASE UNCHANGED vars \/ CloseBatchTimeout \/ RunCloseBatch
  BY <1>1 DEF vars, CloseBatchTimeout, RunCloseBatch, replicaVars
<1>2. CASE \E c \in Clients : ClientStep(c)
  BY <1>2 DEF ClientStep, Invoke, ResendRequest, ReceiveReply, Stop, replicaVars
<1>3. ASSUME NEW r \in Replicas, NEW m \in msgs,
             HandleRequest(r, m) \/ HandlePreprepare(r, m) \/ HandlePrepare(r, m)
      PROVE  UNCHANGED <<committed, commit_number>>
  BY <1>3 DEF HandleRequest, LogRequest, HandlePreprepare, HandlePrepare, Stop, replicaVars
<1>4. ASSUME NEW r \in Replicas, NEW m \in msgs, HandleCommit(r, m)
      PROVE  (\E k \in Nat : Executes(r, m, k)) \/ UNCHANGED <<committed, commit_number>>
  <2> DEFINE done == committed[r] \cup (m.op .. (m.op + m.size) - 1)
  <2>1. CASE Stop(r)
    BY <2>1 DEF Stop, replicaVars
  <2>2. CASE UNCHANGED <<committed, commit_number>>
    BY <2>2
  <2>3. ASSUME NEW k \in ExecuteLimits(r, done), Executes(r, m, k)
        PROVE  \E j \in Nat : Executes(r, m, j)
    <3>1. k \in Nat
      BY DEF ExecuteLimits, TypeOK
    <3> QED BY <2>3, <3>1
  <2> QED BY <1>4, <2>1, <2>2, <2>3 DEF HandleCommit, Executes, Send, clientVars
<1> QED BY <1>1, <1>2, <1>3, <1>4 DEF Next, Handle

\* Counting the COMMITs of a batch counts replicas that sent them.
LEMMA CommitsOfCommitters ==
  ASSUME TypeOK, VotesInv, NEW r \in Replicas, NEW m \in msgs, m.type = "commit", m.from # r,
         CommitCount(r, m.op, m.digest, m.from) >= 2 * f,
         NEW i \in m.op .. (m.op + m.size) - 1
  PROVE  Cardinality(Committers(r, i)) >= 2 * f
<1> DEFINE t == <<m.op, m.digest, m.from>>
           T == {u \in commit_quorum[r] \cup {t} : u[1] = m.op /\ u[2] = m.digest}
           S == Committers(r, i)
<1>1. /\ m.op \in Opnum /\ m.digest \in Seq(Request) /\ m.from \in Replicas
      /\ m.size = Size(m.op, m.digest)
      /\ CommitMsg(m.from, m.op, Size(m.op, m.digest), m.digest) \in msgs
  BY VoteMessage
<1>2. t[1] = m.op /\ t[2] = m.digest /\ t[3] = m.from /\ t \in Certificate
  BY <1>1 DEF Certificate
<1>3. \A u \in T : u \in Certificate /\ u[3] \in Replicas /\ u[3] # r
                   /\ CommitMsg(u[3], m.op, m.size, m.digest) \in msgs
  <2> SUFFICES ASSUME NEW u \in T
               PROVE  u \in Certificate /\ u[3] \in Replicas /\ u[3] # r
                      /\ CommitMsg(u[3], m.op, m.size, m.digest) \in msgs
    OBVIOUS
  <2>1. u \in commit_quorum[r] \/ u = t
    OBVIOUS
  <2>2. u[1] = m.op /\ u[2] = m.digest
    OBVIOUS
  <2> HIDE DEF T, t
  <2>3. u \in Certificate
    BY <1>2, <2>1 DEF TypeOK
  <2>4. u[3] \in Replicas
    BY <2>3 DEF Certificate
  <2>5. u[3] # r /\ CommitMsg(u[3], u[1], Size(u[1], u[2]), u[2]) \in msgs
    BY <1>1, <1>2, <2>1 DEF VotesInv, QuorumsFromVotes
  <2> QED BY <1>1, <2>2, <2>3, <2>4, <2>5
<1>4. \A u \in T : u \in Certificate /\ u[1] = m.op /\ u[2] = m.digest /\ u[3] \in S
  <2>1. \A q : CommitMsg(q, m.op, m.size, m.digest) \in msgs =>
          \E x \in msgs : /\ x.type = "commit" /\ x.from = q
                          /\ i \in x.op .. (x.op + x.size) - 1
    BY DEF CommitMsg
  <2> QED BY <1>3, <2>1 DEF Committers
<1>5. S \in SUBSET Replicas /\ 2 * f \in Nat
  BY Group DEF Committers
<1>6. CommitCount(r, m.op, m.digest, m.from) = Cardinality(T)
  BY DEF CommitCount
<1> HIDE DEF T, S, t
<1>7. Cardinality(S) >= 2 * f
  BY <1>4, <1>5, <1>6, CertificatesOfSenders
<1> QED BY <1>7 DEF S

\* A quorum of COMMITs stays one.
LEMMA CommittersStay ==
  ASSUME NEW r \in Replicas, NEW i, msgs \subseteq msgs', Cardinality(Committers(r, i)) >= 2 * f
  PROVE  Cardinality(Committers(r, i)') >= 2 * f
<1> DEFINE S == Committers(r, i)
           T == Committers(r, i)'
<1>1. S \in SUBSET T /\ T \in SUBSET Replicas /\ 2 * f \in Nat
  BY Group DEF Committers
<1> HIDE DEF S, T
<1>2. Cardinality(S) >= 2 * f
  BY DEF S
<1>3. Cardinality(T) >= 2 * f
  BY <1>1, <1>2, MoreIsEnough, Group
<1> QED BY <1>3 DEF T

\* Every step keeps what is committed on a quorum.
LEMMA NextCommitted ==
  ASSUME TypeOK, VotesInv, CommittedInv, [Next]_vars
  PROVE  CommittedInv'
<1>1. Grows
  BY NextGrows
<1>2. CASE UNCHANGED <<committed, commit_number>>
  BY <1>1, <1>2, CommittersStay DEF CommittedInv, Grows
<1>3. ASSUME NEW r \in Replicas, NEW m \in msgs, NEW k \in Nat, Executes(r, m, k)
      PROVE  CommittedInv'
  <2> DEFINE batch == m.op .. (m.op + m.size) - 1
             done  == committed[r] \cup batch
  <2>1. /\ m.type = "commit" /\ m.from # r
        /\ CommitCount(r, m.op, m.digest, m.from) >= 2 * f
        /\ k \in ExecuteLimits(r, done)
        /\ committed'[r] = done /\ \A q \in Replicas : q # r => committed'[q] = committed[q]
        /\ commit_number'[r] = k
        /\ \A q \in Replicas : q # r => commit_number'[q] = commit_number[q]
    BY <1>3 DEF Executes, TypeOK
  <2>2. \A i \in batch : Cardinality(Committers(r, i)) >= 2 * f
    BY <2>1, CommitsOfCommitters
  <2> HIDE DEF batch
  <2>3. 1 .. k \subseteq done
    <3>1. commit_number[r] \in Nat /\ 1 .. commit_number[r] \subseteq committed[r]
      BY DEF CommittedInv, TypeOK
    <3>2. \A i \in (commit_number[r] + 1) .. k : i \in done
      BY <2>1 DEF ExecuteLimits
    <3>3. \A i \in 1 .. k : i \in 1 .. commit_number[r] \/ i \in (commit_number[r] + 1) .. k
      BY <3>1
    <3> QED BY <3>1, <3>2, <3>3
  <2> SUFFICES ASSUME NEW q \in Replicas
               PROVE  /\ 1 .. commit_number'[q] \subseteq committed'[q]
                      /\ \A i \in committed'[q] : Cardinality(Committers(q, i)') >= 2 * f
    BY DEF CommittedInv
  <2>4. \A i \in committed'[q] : Cardinality(Committers(q, i)) >= 2 * f
    BY <2>1, <2>2 DEF CommittedInv
  <2>5. \A i \in committed'[q] : Cardinality(Committers(q, i)') >= 2 * f
    BY <1>1, <2>4, CommittersStay DEF Grows
  <2>6. 1 .. commit_number'[q] \subseteq committed'[q]
    BY <2>1, <2>3 DEF CommittedInv
  <2> QED BY <2>5, <2>6
<1> QED BY <1>2, <1>3, ExecutesOrNot

\* What is executed stays executed.
LEMMA ExecutedStays ==
  ASSUME TypeOK, PrimaryOrder, [Next]_vars, NEW r \in Replicas
  PROVE  Executed(r) \subseteq Executed(r)'
<1>1. commit_number[r] \in Nat /\ commit_number[r] <= Len(log[r]) /\ Len(log[r]) \in Nat
  BY DEF TypeOK, PrimaryOrder, LogsArePrefixes
<1>2. \A i \in 1 .. Len(log[r]) : log'[r][i] = log[r][i]
  BY NextGrows DEF Grows
<1>3. commit_number'[r] \in Nat /\ commit_number[r] <= commit_number'[r]
  <2>1. ASSUME NEW q \in Replicas, NEW m \in msgs, NEW k \in Nat, Executes(q, m, k)
        PROVE  commit_number'[r] \in Nat /\ commit_number[r] <= commit_number'[r]
    BY <1>1, <2>1 DEF Executes, ExecuteLimits, TypeOK
  <2> QED BY <1>1, <2>1, ExecutesOrNot
<1>4. \A i \in 1 .. commit_number[r] : i \in 1 .. Len(log[r]) /\ i \in 1 .. commit_number'[r]
  BY <1>1, <1>3
<1> QED BY <1>2, <1>4 DEF Executed

\* A step of a replica: has_reply and replies appear for executed requests only.
LEMMA RepliesFrame ==
  ASSUME TypeOK, PrimaryOrder, RepliesInv, [Next]_vars,
         UNCHANGED <<pending, last_req, received>>,
         \A r \in Replicas, c \in Clients : client_table'[r][c].has_reply =>
            \/ client_table'[r][c] = client_table[r][c]
            \/ Req(c, client_table'[r][c].num) \in Executed(r)',
         \A m \in msgs' : \/ m \in msgs
                          \/ m.type # "reply"
                          \/ Req(m.client, m.num) \in Executed(m.from)'
  PROVE  RepliesInv'
<1>1. \A r \in Replicas : Executed(r) \subseteq Executed(r)'
  BY ExecutedStays
<1>2. \A m \in msgs' : m.type = "reply" => Req(m.client, m.num) \in Executed(m.from)'
  <2>1. \A m \in msgs : m.type = "reply" => m.from \in Replicas
    BY MessageFields DEF TypeOK
  <2> QED BY <1>1, <2>1 DEF RepliesInv
<1>3. \A r \in Replicas, c \in Clients :
        client_table'[r][c].has_reply => Req(c, client_table'[r][c].num) \in Executed(r)'
  BY <1>1 DEF RepliesInv
<1>4. \A c \in Clients :
        /\ pending'[c] \in {0, last_req'[c]}
        /\ pending'[c] # 0 => \A r \in received'[c] : Req(c, pending'[c]) \in Executed(r)'
  <2>1. \A c \in Clients : \A r \in received[c] : r \in Replicas
    BY DEF TypeOK
  <2> QED BY <1>1, <2>1 DEF RepliesInv
<1> QED BY <1>2, <1>3, <1>4 DEF RepliesInv, Req

\* After an execution the table's new entries are of executed requests.
LEMMA TableIsExecuted ==
  ASSUME TypeOK, NEW r \in Replicas, NEW first \in Nat, NEW k \in Nat, NEW c \in Clients,
         first > 0, k <= Len(log[r]),
         TableAfter(r, first, k)[c] # client_table[r][c]
  PROVE  \E i \in first .. k : Req(c, TableAfter(r, first, k)[c].num) = log[r][i]
<1> DEFINE ops  == {i \in first .. k : log[r][i].client = c}
           last == CHOOSE i \in ops : \A j \in ops : j <= i
<1>1. ops # {}
  BY DEF TableAfter
<1>2. \E i \in ops : \A j \in ops : j <= i
  <2>1. ops \in SUBSET (first .. k)
    OBVIOUS
  <2> HIDE DEF ops
  <2> QED BY <1>1, <2>1, LastOfOps
<1>3. last \in ops
  BY <1>2
<1>4. TableAfter(r, first, k)[c] = [num |-> log[r][last].num, has_reply |-> TRUE]
  BY <1>1 DEF TableAfter
<1>5. last \in first .. k /\ log[r][last].client = c
  BY <1>3
<1> HIDE DEF last, ops
<1>6. log[r][last] \in Request
  BY <1>5 DEF TypeOK
<1>7. log[r][last] = [client |-> c, num |-> log[r][last].num]
  BY <1>5, <1>6 DEF Request
<1>8. TableAfter(r, first, k)[c].num = log[r][last].num
  BY <1>4
<1> QED BY <1>5, <1>7, <1>8, Zenon DEF Req

\* An execution answers what it executes.
LEMMA ExecutesReplies ==
  ASSUME TypeOK, PrimaryOrder, RepliesInv, [Next]_vars,
         NEW r \in Replicas, NEW m \in msgs, NEW k \in Nat, Executes(r, m, k)
  PROVE  RepliesInv'
<1> DEFINE n == commit_number[r]
<1>1. /\ k \in ExecuteLimits(r, committed[r] \cup (m.op .. (m.op + m.size) - 1))
      /\ commit_number' = [commit_number EXCEPT ![r] = k]
      /\ client_table' = [client_table EXCEPT ![r] = TableAfter(r, n + 1, k)]
      /\ msgs' = msgs \cup {ReplyMsg(r, log[r][i]) : i \in (n + 1) .. k}
      /\ UNCHANGED <<log, pending, last_req, received>>
  BY DEF Executes
<1>2. n \in Nat /\ k <= Len(log[r])
  BY <1>1 DEF TypeOK, ExecuteLimits
<1>3. Executed(r)' = {log[r][i] : i \in 1 .. k}
  BY <1>1 DEF Executed, TypeOK
<1>4. \A i \in (n + 1) .. k : log[r][i] \in Executed(r)'
  BY <1>2, <1>3
<1>5. ASSUME NEW q \in Replicas, NEW c \in Clients
      PROVE  \/ client_table'[q][c] = client_table[q][c]
             \/ Req(c, client_table'[q][c].num) \in Executed(q)'
  <2>1. CASE q # r
    BY <1>1, <2>1 DEF TypeOK
  <2>2. CASE q = r /\ TableAfter(r, n + 1, k)[c] # client_table[r][c]
    <3>1. \E i \in (n + 1) .. k : Req(c, TableAfter(r, n + 1, k)[c].num) = log[r][i]
      <4> DEFINE first == n + 1
      <4>1. first \in Nat /\ first > 0
        BY <1>2
      <4> HIDE DEF first
      <4>2. TableAfter(r, first, k)[c] # client_table[r][c]
        BY <2>2 DEF first
      <4>3. \E i \in first .. k : Req(c, TableAfter(r, first, k)[c].num) = log[r][i]
        BY <1>2, <4>1, <4>2, TableIsExecuted
      <4> QED BY <4>3 DEF first
    <3>2. client_table'[q][c] = TableAfter(r, n + 1, k)[c]
      BY <1>1, <2>2 DEF TypeOK
    <3> QED BY <1>4, <2>2, <3>1, <3>2
  <2>3. q = r => client_table'[q][c] = TableAfter(r, n + 1, k)[c]
    BY <1>1 DEF TypeOK
  <2> QED BY <2>1, <2>2, <2>3
<1>6. ASSUME NEW x \in msgs', x \notin msgs
      PROVE  Req(x.client, x.num) \in Executed(x.from)'
  <2>1. PICK i \in (n + 1) .. k : x = ReplyMsg(r, log[r][i])
    BY <1>1, <1>6
  <2>2. log[r][i] \in Request
    BY <1>2, SMTT(30) DEF TypeOK
  <2>3. /\ x.client = log[r][i].client /\ x.num = log[r][i].num /\ x.from = r
    BY <2>1 DEF ReplyMsg
  <2>4. log[r][i] = [client |-> log[r][i].client, num |-> log[r][i].num]
    BY <2>2 DEF Request
  <2>5. Req(x.client, x.num) = log[r][i]
    BY <2>3, <2>4, Zenon DEF Req
  <2> QED BY <1>4, <2>3, <2>5
<1> QED BY <1>1, <1>5, <1>6, RepliesFrame

\* A step that leaves the client table and the clients alone and sends no reply.
LEMMA NoReplies ==
  ASSUME TypeOK, PrimaryOrder, RepliesInv, [Next]_vars,
         UNCHANGED <<client_table, pending, last_req, received>>,
         \A m \in msgs' : m \in msgs \/ m.type # "reply"
  PROVE  RepliesInv'
BY RepliesFrame

\* InsertPrepare and CloseBatch send no reply.
LEMMA NotReply ==
  /\ \A c, n, to : RequestMsg(c, n, to).type # "reply"
  /\ \A r, op, size, d : PrepareMsg(r, op, size, d).type # "reply"
  /\ \A r, op, size, d : CommitMsg(r, op, size, d).type # "reply"
  /\ \A lg, b : CloseBatch(lg, b).type # "reply"
BY DEF RequestMsg, PrepareMsg, CommitMsg, CloseBatch

\* InsertPrepare sends no reply.
LEMMA InsertPrepareNoReply ==
  ASSUME NEW r, NEW p, NEW s, NEW lastOp, NEW ms, InsertPrepare(r, p, s, lastOp, ms),
         \A m \in ms : m.type # "reply"
  PROVE  \A m \in msgs' : m \in msgs \/ m.type # "reply"
<1>1. \/ msgs' = msgs \cup ms
      \/ msgs' = msgs \cup {CommitMsg(r, p.op, p.size, p.digest)}
  BY DEF InsertPrepare, Send
<1> QED BY <1>1, NotReply

\* HandleRequest keeps what replies stand for.
LEMMA RequestReplies ==
  ASSUME TypeOK, PrimaryOrder, RepliesInv, [Next]_vars,
         NEW r \in Replicas, NEW m \in msgs, HandleRequest(r, m)
  PROVE  RepliesInv'
<1> DEFINE req   == [client |-> m.client, num |-> m.num]
           entry == client_table[r][m.client]
<1>1. m.client \in Clients /\ m.num \in Opnum
  BY MessageFields DEF TypeOK, HandleRequest
<1>2. CASE Stop(r)
  BY <1>2, NoReplies DEF Stop, replicaVars, clientVars
<1>3. CASE /\ Send(IF m.num = entry.num /\ entry.has_reply THEN {ReplyMsg(r, req)} ELSE {})
           /\ UNCHANGED <<client_table, pending, last_req, received>>
  <2>1. CASE m.num = entry.num /\ entry.has_reply
    <3>1. Req(m.client, m.num) \in Executed(r)'
      BY <1>1, <2>1, ExecutedStays DEF RepliesInv
    <3>2. \A x \in msgs' : x \in msgs \/ x = ReplyMsg(r, req)
      BY <1>3, <2>1 DEF Send
    <3>3. /\ ReplyMsg(r, req).client = m.client /\ ReplyMsg(r, req).num = m.num
          /\ ReplyMsg(r, req).from = r
      BY DEF ReplyMsg
    <3> QED BY <1>3, <3>1, <3>2, <3>3, RepliesFrame
  <2>2. CASE ~(m.num = entry.num /\ entry.has_reply)
    BY <1>3, <2>2, NoReplies DEF Send
  <2> QED BY <2>1, <2>2
<1>4. ASSUME NEW q \in Replicas, NEW num,
             client_table' = [client_table EXCEPT ![q][m.client] =
                                [num |-> num, has_reply |-> FALSE]],
             UNCHANGED <<pending, last_req, received>>,
             \A x \in msgs' : x \in msgs \/ x.type # "reply"
      PROVE  RepliesInv'
  <2>1. \A s \in Replicas, c \in Clients :
          \/ client_table'[s][c] = client_table[s][c]
          \/ client_table'[s][c] = [num |-> num, has_reply |-> FALSE]
    BY <1>4 DEF TypeOK
  <2>2. \A s \in Replicas, c \in Clients : client_table'[s][c].has_reply =>
          client_table'[s][c] = client_table[s][c]
    BY <2>1
  <2> QED BY <1>4, <2>2, RepliesFrame
<1>5. CASE LogRequest(req)
  <2>1. \A x \in msgs' : x \in msgs \/ x.type # "reply"
    BY <1>5, NotReply DEF LogRequest, Send
  <2>2. /\ client_table' = [client_table EXCEPT ![Primary][m.client] =
                              [num |-> m.num, has_reply |-> FALSE]]
        /\ UNCHANGED <<pending, last_req, received>>
    BY <1>5 DEF LogRequest, clientVars
  <2> QED BY <1>4, <2>1, <2>2, Group
<1>6. CASE /\ client_table' = [client_table EXCEPT ![r][m.client] =
                                 [num |-> 1, has_reply |-> FALSE]]
           /\ UNCHANGED <<pending, last_req, received, msgs>>
  BY <1>4, <1>6
<1>7. CASE /\ Send({RequestMsg(m.client, m.num, {Primary})})
           /\ UNCHANGED <<client_table, pending, last_req, received>>
  BY <1>7, NoReplies, NotReply DEF Send
<1> QED BY <1>2, <1>3, <1>5, <1>6, <1>7 DEF HandleRequest, replicaVars, clientVars

\* The clients' steps keep what replies stand for.
LEMMA ClientReplies ==
  ASSUME TypeOK, PrimaryOrder, RepliesInv, [Next]_vars, NEW c \in Clients, ClientStep(c)
  PROVE  RepliesInv'
<1>0. \A r \in Replicas : Executed(r) \subseteq Executed(r)'
  BY ExecutedStays
<1>1. CASE Invoke(c)
  <2>1. /\ pending' = [pending EXCEPT ![c] = last_req[c] + 1]
        /\ last_req' = [last_req EXCEPT ![c] = last_req[c] + 1]
        /\ received' = [received EXCEPT ![c] = {}]
        /\ UNCHANGED <<client_table, log, commit_number>>
        /\ \A x \in msgs' : x \in msgs \/ x.type # "reply"
    BY <1>1, NotReply DEF Invoke, Send, replicaVars
  <2>2. \A r \in Replicas : Executed(r)' = Executed(r)
    BY <2>1 DEF Executed
  <2>3. \A x \in msgs : x.type = "reply" => x.from \in Replicas
    BY MessageFields DEF TypeOK
  <2>4. \A d \in Clients :
          /\ pending'[d] \in {0, last_req'[d]}
          /\ pending'[d] # 0 => \A r \in received'[d] : Req(d, pending'[d]) \in Executed(r)'
    <3> SUFFICES ASSUME NEW d \in Clients
                 PROVE  /\ pending'[d] \in {0, last_req'[d]}
                        /\ pending'[d] # 0 =>
                             \A r \in received'[d] : Req(d, pending'[d]) \in Executed(r)'
      OBVIOUS
    <3>1. CASE d = c
      BY <2>1, <3>1 DEF TypeOK
    <3>2. CASE d # c
      <4>1. \A r \in received[d] : r \in Replicas
        BY DEF TypeOK
      <4> QED BY <2>1, <2>2, <3>2, <4>1 DEF TypeOK, RepliesInv
    <3> QED BY <3>1, <3>2
  <2>5. \A x \in msgs' : x.type = "reply" => Req(x.client, x.num) \in Executed(x.from)'
    BY <2>1, <2>2, <2>3 DEF RepliesInv
  <2> QED BY <2>1, <2>2, <2>4, <2>5 DEF RepliesInv, Req
<1>2. CASE ResendRequest(c)
  BY <1>2, NoReplies, NotReply
     DEF ResendRequest, Stop, Send, replicaVars, clientVars
<1>3. ASSUME NEW m \in msgs, ReceiveReply(c, m) PROVE RepliesInv'
  <2> DEFINE got == received[c] \cup {m.from}
  <2>1. /\ m.type = "reply" /\ m.client = c /\ pending[c] # 0 /\ m.num = pending[c]
        /\ received' = [received EXCEPT ![c] = got]
        /\ pending' = [pending EXCEPT ![c] = IF Cardinality(got) < RepliesNeeded THEN @ ELSE 0]
        /\ UNCHANGED <<client_table, log, commit_number, last_req, msgs>>
    BY <1>3 DEF ReceiveReply, replicaVars
  <2>2. \A r \in Replicas : Executed(r)' = Executed(r)
    BY <2>1 DEF Executed
  <2>3. \A x \in msgs : x.type = "reply" => x.from \in Replicas
    BY MessageFields DEF TypeOK
  <2>4. \A r \in got : r \in Replicas /\ Req(c, pending[c]) \in Executed(r)
    BY <2>1, <2>3 DEF RepliesInv, TypeOK
  <2> HIDE DEF got
  <2>5. \A d \in Clients :
          /\ pending'[d] \in {0, last_req'[d]}
          /\ pending'[d] # 0 => \A r \in received'[d] : Req(d, pending'[d]) \in Executed(r)'
    <3> SUFFICES ASSUME NEW d \in Clients
                 PROVE  /\ pending'[d] \in {0, last_req'[d]}
                        /\ pending'[d] # 0 =>
                             \A r \in received'[d] : Req(d, pending'[d]) \in Executed(r)'
      OBVIOUS
    <3>1. CASE d = c
      <4>1. pending'[d] \in {0, pending[c]} /\ received'[d] = got /\ last_req'[d] = last_req[c]
        BY <2>1, <3>1 DEF TypeOK
      <4>2. pending[c] \in {0, last_req[c]}
        BY DEF RepliesInv
      <4> QED BY <2>2, <2>4, <3>1, <4>1, <4>2
    <3>2. CASE d # c
      <4>1. \A r \in received[d] : r \in Replicas
        BY DEF TypeOK
      <4> QED BY <2>1, <2>2, <3>2, <4>1 DEF TypeOK, RepliesInv
    <3> QED BY <3>1, <3>2
  <2>6. \A x \in msgs' : x.type = "reply" => Req(x.client, x.num) \in Executed(x.from)'
    BY <2>1, <2>2, <2>3 DEF RepliesInv
  <2> QED BY <2>1, <2>2, <2>5, <2>6 DEF RepliesInv, Req
<1> QED BY <1>1, <1>2, <1>3 DEF ClientStep

\* Every step keeps what replies stand for.
LEMMA NextReplies ==
  ASSUME TypeOK, PrimaryOrder, RepliesInv, [Next]_vars
  PROVE  RepliesInv'
<1>1. CASE UNCHANGED vars
  BY <1>1, NoReplies DEF vars, replicaVars, clientVars
<1>2. CASE CloseBatchTimeout \/ RunCloseBatch
  BY <1>2, NoReplies, NotReply
     DEF CloseBatchTimeout, RunCloseBatch, Send, replicaVars, clientVars
<1>3. ASSUME NEW r \in Replicas, NEW m \in msgs, HandlePreprepare(r, m) PROVE RepliesInv'
  <2> DEFINE p == [op |-> m.op, size |-> Len(m.reqs), digest |-> m.digest]
  <2>1. CASE Stop(r)
    BY <2>1, NoReplies DEF Stop, replicaVars, clientVars
  <2>2. CASE /\ \E n : InsertPrepare(r, p, Primary, n, OwnPrepare(r, p))
             /\ UNCHANGED <<client_table, pending, last_req, received>>
    <3>1. \A x \in OwnPrepare(r, p) : x.type # "reply"
      BY NotReply DEF OwnPrepare
    <3>2. PICK n : InsertPrepare(r, p, Primary, n, OwnPrepare(r, p))
      BY <2>2
    <3> HIDE DEF p
    <3>3. \A x \in msgs' : x \in msgs \/ x.type # "reply"
      BY <3>1, <3>2, InsertPrepareNoReply
    <3> QED BY <2>2, <3>3, NoReplies
  <2> QED BY <1>3, <2>1, <2>2 DEF HandlePreprepare, clientVars
<1>4. ASSUME NEW r \in Replicas, NEW m \in msgs, HandlePrepare(r, m) PROVE RepliesInv'
  <2>1. CASE Stop(r)
    BY <2>1, NoReplies DEF Stop, replicaVars, clientVars
  <2>2. CASE /\ InsertPrepare(r, m, m.from, Len(log[r]), {})
             /\ UNCHANGED <<client_table, pending, last_req, received>>
    BY <2>2, NoReplies, InsertPrepareNoReply
  <2> QED BY <1>4, <2>1, <2>2 DEF HandlePrepare, clientVars
<1>5. ASSUME NEW r \in Replicas, NEW m \in msgs, HandleCommit(r, m) PROVE RepliesInv'
  <2>1. CASE UNCHANGED <<client_table, pending, last_req, received, msgs>>
    BY <2>1, NoReplies
  <2>2. CASE \E k \in Nat : Executes(r, m, k)
    BY <2>2, ExecutesReplies
  <2>3. CASE Stop(r)
    BY <2>1, <2>3 DEF Stop, replicaVars, clientVars
  <2>4. \A k : k \in ExecuteLimits(r, committed[r] \cup (m.op .. (m.op + m.size) - 1)) => k \in Nat
    BY DEF ExecuteLimits, TypeOK
  <2> QED BY <1>5, <2>1, <2>2, <2>3, <2>4 DEF HandleCommit, Executes, Send, clientVars
<1> QED BY <1>1, <1>2, <1>3, <1>4, <1>5, RequestReplies, ClientReplies DEF Next, Handle

\* The replicas that have executed request n of client c.
Executors(c, n) == {r \in Replicas : Req(c, n) \in Executed(r)}

\* The replicas that executed a request are some of the replicas.
LEMMA ExecutorsAre ==
  ASSUME NEW c, NEW n
  PROVE  Executors(c, n) = {r \in Replicas : \E i \in 1 .. commit_number[r] :
                              log[r][i] = [client |-> c, num |-> n]}
BY DEF Executors, Executed, Req

\* Every step keeps the executions that completed requests stand on.
LEMMA NextCompleted ==
  ASSUME TypeOK, PrimaryOrder, RepliesInv, CompletedIsExecuted, [Next]_vars
  PROVE  CompletedIsExecuted'
<1>0. f + 1 \in Nat
  BY Group
<1>1. ASSUME NEW c, NEW n, NEW S \in SUBSET Executors(c, n), Cardinality(S) >= f + 1
      PROVE  Cardinality(Executors(c, n)') >= f + 1
  <2> DEFINE T == Executors(c, n)'
  <2>1. T \in SUBSET Replicas /\ S \in SUBSET T
    BY ExecutedStays DEF Executors, Req
  <2> HIDE DEF T
  <2>2. Cardinality(T) >= f + 1
    BY <1>0, <1>1, <2>1, MoreIsEnough, Group
  <2> QED BY <2>2 DEF T
<1>2. \A c \in Clients : \A n \in 1 .. last_req[c] : n # pending[c] =>
        Cardinality(Executors(c, n)) >= f + 1
  BY ExecutorsAre DEF CompletedIsExecuted
<1>3. \A c \in Clients : \A n \in 1 .. last_req[c] : n # pending[c] =>
        Cardinality(Executors(c, n)') >= f + 1
  BY <1>1, <1>2
<1>4. ASSUME \A c \in Clients : \A n \in 1 .. last_req'[c] : n # pending'[c] =>
               Cardinality(Executors(c, n)') >= f + 1
      PROVE  CompletedIsExecuted'
  BY <1>4 DEF CompletedIsExecuted, Executors, Executed, Req
<1>5. CASE UNCHANGED <<pending, last_req>>
  BY <1>3, <1>4, <1>5
<1>6. ASSUME NEW c \in Clients, Invoke(c) PROVE CompletedIsExecuted'
  <2>1. /\ pending[c] = 0 /\ last_req[c] \in Nat
        /\ pending'[c] = last_req[c] + 1 /\ last_req'[c] = last_req[c] + 1
        /\ \A d \in Clients : d # c => pending'[d] = pending[d] /\ last_req'[d] = last_req[d]
    BY <1>6 DEF Invoke, TypeOK
  <2>2. \A n \in 1 .. last_req'[c] : n # pending'[c] => n \in 1 .. last_req[c] /\ n # pending[c]
    BY <2>1
  <2>3. \A d \in Clients : \A n \in 1 .. last_req'[d] : n # pending'[d] =>
          Cardinality(Executors(d, n)') >= f + 1
    BY <1>3, <2>1, <2>2
  <2> QED BY <1>4, <2>3
<1>7. ASSUME NEW c \in Clients, NEW m \in msgs, ReceiveReply(c, m) PROVE CompletedIsExecuted'
  <2> DEFINE got == received[c] \cup {m.from}
  <2>1. /\ m.type = "reply" /\ m.client = c /\ m.num = pending[c] /\ pending[c] # 0
        /\ pending' = [pending EXCEPT ![c] = IF Cardinality(got) < RepliesNeeded THEN @ ELSE 0]
        /\ UNCHANGED last_req
    BY <1>7 DEF ReceiveReply
  <2>2. m.from \in Replicas
    BY <2>1, MessageFields DEF TypeOK
  <2>3. got \in SUBSET Executors(c, pending[c])
    BY <2>1, <2>2 DEF RepliesInv, TypeOK, Executors
  <2>4. Cardinality(got) \in Nat
    <3>1. got \in SUBSET Replicas
      BY <2>2 DEF TypeOK
    <3> HIDE DEF got
    <3>2. IsFiniteSet(got)
      BY <3>1, Group, FS_Subset
    <3> QED BY <3>2, FS_CardinalityType
  <2> HIDE DEF got
  <2>5. CASE Cardinality(got) < f + 1
    <3>1. UNCHANGED pending
      BY <2>1, <2>5 DEF RepliesNeeded, TypeOK
    <3> QED BY <1>5, <2>1, <3>1
  <2>6. CASE ~(Cardinality(got) < f + 1)
    <3>1. Cardinality(got) >= f + 1
      BY <1>0, <2>4, <2>6
    <3>2. ASSUME NEW n, n = pending[c]
          PROVE  Cardinality(Executors(c, n)') >= f + 1
      BY <1>1, <2>3, <3>1, <3>2
    <3>3. \A d \in Clients : \A n \in 1 .. last_req'[d] :
            n # pending[d] \/ (d = c /\ n = pending[c]) \/ n = pending'[d]
      BY <2>1 DEF TypeOK
    <3>4. \A d \in Clients : \A n \in 1 .. last_req'[d] : n # pending'[d] =>
            Cardinality(Executors(d, n)') >= f + 1
      <4> SUFFICES ASSUME NEW d \in Clients, NEW n \in 1 .. last_req[d], n # pending'[d]
                   PROVE  Cardinality(Executors(d, n)') >= f + 1
        BY <2>1
      <4>1. CASE n # pending[d]
        BY <1>3, <4>1
      <4>2. CASE d = c /\ n = pending[c]
        BY <3>2, <4>2
      <4> QED BY <2>1, <3>3, <4>1, <4>2
    <3> QED BY <1>4, <3>4
  <2> QED BY <2>5, <2>6
<1>8. CASE UNCHANGED vars \/ CloseBatchTimeout \/ RunCloseBatch
  BY <1>5, <1>8 DEF vars, CloseBatchTimeout, RunCloseBatch, clientVars
<1>9. ASSUME NEW c \in Clients, ClientStep(c) PROVE CompletedIsExecuted'
  <2>1. CASE ResendRequest(c)
    BY <1>5, <2>1 DEF ResendRequest, Stop, clientVars
  <2> QED BY <1>6, <1>7, <1>9, <2>1 DEF ClientStep
<1>10. ASSUME NEW r \in Replicas, NEW m \in msgs, Handle(r, m) PROVE CompletedIsExecuted'
  <2>1. UNCHANGED <<pending, last_req>>
    BY <1>10 DEF Handle, HandleRequest, LogRequest, HandlePreprepare, HandlePrepare,
                 HandleCommit, Stop, clientVars
  <2> QED BY <1>5, <2>1
<1> QED BY <1>8, <1>9, <1>10 DEF Next

-----------------------------------------------------------------------------
(***************************************************************************)
(* The theorems.                                                           *)
(***************************************************************************)

\* QuorumInv holds in every reachable state.  VotesInv says what a counted vote
\* stands for, BatchesInv that batches are handled as wholes, and the rest what
\* is committed, executed, answered and completed.
THEOREM QuorumsInductive == Spec => []QuorumInv
<1>1. Init => QuorumInv
  BY InitType, InitOrder, InitVotes, InitBatches, InitReplies DEF QuorumInv, IInv
<1>2. QuorumInv /\ [Next]_vars => QuorumInv'
  <2> SUFFICES ASSUME QuorumInv, [Next]_vars PROVE QuorumInv'
    OBVIOUS
  <2>1. /\ TypeOK /\ PrimaryOrder /\ BatchIsSuffix /\ VotesInv /\ BatchesInv
        /\ CommittedInv /\ RepliesInv /\ CompletedIsExecuted
    BY DEF QuorumInv, IInv, PrimaryOrder
  <2>2. TypeOK' /\ PrimaryOrder' /\ BatchIsSuffix'
    BY <2>1, NextType, NextOrder DEF PrimaryOrder
  <2>3. VotesInv'
    BY <2>1, <2>2, NextVotes
  <2>4. BatchesInv'
    BY <2>1, <2>2, <2>3, NextBatches
  <2>5. CommittedInv' /\ RepliesInv' /\ CompletedIsExecuted'
    BY <2>1, NextCommitted, NextReplies, NextCompleted
  <2> QED BY <2>2, <2>3, <2>4, <2>5 DEF QuorumInv, IInv
<1> QED BY <1>1, <1>2, PTL DEF Spec

\* InsertPrepare: a COMMIT is sent only for a batch that 2f other replicas accepted.
THEOREM CommitHasCertificateHolds == Spec => []CommitHasCertificate
<1>1. QuorumInv => CommitHasCertificate
  BY DEF QuorumInv, VotesInv
<1> QED BY <1>1, QuorumsInductive, PTL

\* HandlePreprepare: the drain loop strands no request behind the end of the log.
THEOREM BufferWaitsForGapHolds == Spec => []BufferWaitsForGap
<1>1. QuorumInv => BufferWaitsForGap
  BY DEF QuorumInv, BatchesInv
<1> QED BY <1>1, QuorumsInductive, PTL

\* A replica that sent COMMIT for a batch has the whole batch in its log.
LEMMA CommittersHoldBatch ==
  ASSUME QuorumInv, NEW r \in Replicas, NEW i \in Nat \ {0}, NEW s \in Committers(r, i)
  PROVE  i <= Len(log[s])
<1>0. TypeOK /\ VotesInv /\ BatchesInv /\ BatchIsSuffix
  BY DEF QuorumInv, IInv, PrimaryOrder
<1>1. PICK m \in msgs : m.type = "commit" /\ m.from = s /\ i \in m.op .. (m.op + m.size) - 1
  BY DEF Committers
<1>2. s \in Replicas /\ Len(log[s]) \in Nat
  BY <1>0 DEF Committers, TypeOK
<1>3. PICK q \in Preprepares : q.op = m.op /\ q.digest = m.digest
  BY <1>0, <1>1, VoteMessage
<1>4. /\ q.op \in Nat /\ Len(q.digest) \in Nat /\ Len(q.reqs) \in Nat
      /\ (q.op + Len(q.reqs)) - 1 = Len(q.digest)
      /\ Len(q.reqs) = Size(q.op, q.digest)
  BY <1>0, BatchEnds DEF TypeOK, VotesInv, VotesForBatches, Preprepares
<1>5. m.size = Size(m.op, m.digest) /\ m.op <= Len(log[s])
  BY <1>0, <1>1, VoteMessage DEF VotesInv, CommitsFromLog
<1>6. i <= Len(q.digest) /\ q.op <= Len(log[s])
  <2>1. m.size = Len(q.reqs) /\ m.op = q.op
    BY <1>3, <1>4, <1>5
  <2> QED BY <1>1, <1>4, <1>5, <2>1
<1>7. Len(q.digest) <= Len(log[s])
  <2>1. CASE s = Primary
    <3>1. Len(q.digest) <= Sent
      BY <1>0 DEF BatchesInv, BatchesApart
    <3>2. Len(request_batch) \in Nat
      BY <1>0 DEF TypeOK
    <3> QED BY <1>2, <1>4, <2>1, <3>1, <3>2 DEF Sent
  <2>2. CASE s # Primary
    <3>1. Len(log[s]) < q.op \/ Len(q.digest) <= Len(log[s])
      BY <1>0, <1>2, <2>2 DEF BatchesInv, BackupsHoldBatches
    <3> QED BY <1>2, <1>4, <1>6, <3>1
  <2> QED BY <2>1, <2>2
<1> QED BY <1>2, <1>4, <1>6, <1>7

\* HandleCommit: what a replica executes is in the log of 2f others that sent COMMIT.
THEOREM ExecutedIsReplicatedHolds == Spec => []ExecutedIsReplicated
<1>1. QuorumInv => ExecutedIsReplicated
  <2> SUFFICES ASSUME QuorumInv, NEW r \in Replicas, NEW i \in 1 .. commit_number[r]
               PROVE  Cardinality({s \in Replicas \ {r} :
                        /\ \E m \in msgs : /\ m.type = "commit" /\ m.from = s
                                           /\ i \in m.op .. (m.op + m.size) - 1
                        /\ Len(log[s]) >= i /\ log[s][i] = log[r][i]}) >= 2 * f
    BY DEF ExecutedIsReplicated
  <2> DEFINE S == Committers(r, i)
             T == {s \in Replicas \ {r} :
                     /\ \E m \in msgs : /\ m.type = "commit" /\ m.from = s
                                        /\ i \in m.op .. (m.op + m.size) - 1
                     /\ Len(log[s]) >= i /\ log[s][i] = log[r][i]}
  <2>1. TypeOK /\ LogsArePrefixes /\ CommittedInv
    BY DEF QuorumInv, IInv, PrimaryOrder
  <2>2. /\ commit_number[r] \in Nat /\ i \in Nat \ {0} /\ i <= Len(log[r])
        /\ Len(log[r]) \in Nat
    BY <2>1 DEF TypeOK, LogsArePrefixes
  <2>3. Cardinality(S) >= 2 * f
    BY <2>1 DEF CommittedInv
  <2>4. S \in SUBSET T
    <3> SUFFICES ASSUME NEW s \in S
                 PROVE  s \in T
      OBVIOUS
    <3>1. s \in Replicas \ {r} /\ Len(log[s]) \in Nat
      BY <2>1 DEF Committers, TypeOK
    <3>2. i <= Len(log[s])
      BY <2>2, CommittersHoldBatch
    <3>3. log[s][i] = log[Primary][i] /\ log[r][i] = log[Primary][i]
      BY <2>1, <2>2, <3>1, <3>2 DEF LogsArePrefixes
    <3> QED BY <2>2, <3>1, <3>2, <3>3 DEF Committers
  <2>5. T \in SUBSET Replicas /\ 2 * f \in Nat
    BY Group
  <2> HIDE DEF S, T
  <2>6. Cardinality(T) >= 2 * f
    BY <2>3, <2>4, <2>5, MoreIsEnough, Group
  <2> QED BY <2>6 DEF T
<1> QED BY <1>1, QuorumsInductive, PTL

\* ReceiveMessage: f+1 replicas have executed a request whose continuation was called.
THEOREM CompletedIsExecutedHolds == Spec => []CompletedIsExecuted
<1>1. QuorumInv => CompletedIsExecuted
  BY DEF QuorumInv
<1> QED BY <1>1, QuorumsInductive, PTL

-----------------------------------------------------------------------------
(***************************************************************************)
(* PBFT implements ReplicatedLog: what its steps do to the log of the      *)
(* primary, to what is executed and to the clients.                        *)
(***************************************************************************)

\* A request in the network, its client has invoked.
RequestsInvoked ==
  \A m \in msgs : m.type = "request" => m.num \in 1 .. last_req[m.client]

\* Only the constructor of a request builds one.
LEMMA NotRequest ==
  /\ \A r, req : ReplyMsg(r, req).type # "request"
  /\ \A r, op, size, d : PrepareMsg(r, op, size, d).type # "request"
  /\ \A r, op, size, d : CommitMsg(r, op, size, d).type # "request"
  /\ \A lg, b : CloseBatch(lg, b).type # "request"
BY DEF ReplyMsg, PrepareMsg, CommitMsg, CloseBatch

\* A step that invokes nothing and sends no request but what a client has invoked.
LEMMA InvokedFrame ==
  ASSUME TypeOK, RequestsInvoked, UNCHANGED last_req,
         \A m \in msgs' : \/ m \in msgs \/ m.type # "request"
                          \/ m.num \in 1 .. last_req[m.client]
  PROVE  RequestsInvoked'
BY DEF RequestsInvoked

\* After every step all requests are ones that a client invoked.
LEMMA NextInvoked ==
  ASSUME TypeOK, RepliesInv, RequestsInvoked, [Next]_vars
  PROVE  RequestsInvoked'
<1>1. CASE UNCHANGED vars
  BY <1>1 DEF vars, clientVars, RequestsInvoked
<1>2. CASE CloseBatchTimeout \/ RunCloseBatch
  BY <1>2, InvokedFrame, NotRequest DEF CloseBatchTimeout, RunCloseBatch, Send, clientVars
<1>3. ASSUME NEW c \in Clients, Invoke(c) PROVE RequestsInvoked'
  <2> DEFINE to == IF last_req[c] = 0 THEN Replicas ELSE {Primary}
  <2>1. /\ last_req[c] \in Nat /\ last_req'[c] = last_req[c] + 1
        /\ \A d \in Clients : d # c => last_req'[d] = last_req[d]
        /\ msgs' = msgs \cup {RequestMsg(c, last_req[c] + 1, to)}
    BY <1>3 DEF Invoke, TypeOK, Send
  <2> HIDE DEF to
  <2>2. \A m \in msgs : m.type = "request" => m.client \in Clients /\ m.num \in 1 .. last_req[m.client]
    BY MessageFields DEF TypeOK, RequestsInvoked
  <2> QED BY <2>1, <2>2 DEF RequestsInvoked, RequestMsg, TypeOK
<1>4. ASSUME NEW c \in Clients, ResendRequest(c) PROVE RequestsInvoked'
  <2>1. last_req[c] \in Nat /\ pending[c] \in {0, last_req[c]}
    BY DEF TypeOK, RepliesInv
  <2>2. CASE /\ pending[c] # 0 /\ UNCHANGED last_req
             /\ msgs' = msgs \cup {RequestMsg(c, pending[c], Replicas)}
    BY <2>1, <2>2, InvokedFrame DEF RequestMsg
  <2>3. CASE UNCHANGED <<last_req, msgs>>
    BY <2>3, InvokedFrame
  <2> QED BY <1>4, <2>2, <2>3 DEF ResendRequest, Stop, Send, clientVars
<1>5. ASSUME NEW c \in Clients, NEW m \in msgs, ReceiveReply(c, m) PROVE RequestsInvoked'
  BY <1>5, InvokedFrame DEF ReceiveReply
<1>6. ASSUME NEW r \in Replicas, NEW m \in msgs, HandleRequest(r, m) PROVE RequestsInvoked'
  <2> DEFINE req == [client |-> m.client, num |-> m.num]
             b   == Append(request_batch, req)
             lg  == Append(log[Primary], req)
  <2>1. m.num \in 1 .. last_req[m.client]
    BY <1>6 DEF HandleRequest, RequestsInvoked
  <2>2. RequestMsg(m.client, m.num, {Primary}).num = m.num /\
        RequestMsg(m.client, m.num, {Primary}).client = m.client
    BY DEF RequestMsg
  <2>3. /\ UNCHANGED last_req
        /\ \/ msgs' = msgs
           \/ msgs' = msgs \cup {ReplyMsg(r, req)}
           \/ msgs' = msgs \cup {CloseBatch(lg, b)}
           \/ msgs' = msgs \cup {RequestMsg(m.client, m.num, {Primary})}
    BY <1>6 DEF HandleRequest, LogRequest, Stop, Send, clientVars
  <2> HIDE DEF req, b, lg
  <2> QED BY <2>1, <2>2, <2>3, InvokedFrame, NotRequest
<1>7. ASSUME NEW r, NEW p, NEW s, NEW lastOp, NEW ms, InsertPrepare(r, p, s, lastOp, ms),
             \A m \in ms : m.type # "request", UNCHANGED last_req
      PROVE  RequestsInvoked'
  BY <1>7, InvokedFrame, NotRequest DEF InsertPrepare, Send
<1>8. ASSUME NEW r \in Replicas, NEW m \in msgs, HandlePreprepare(r, m) PROVE RequestsInvoked'
  <2> DEFINE p == [op |-> m.op, size |-> Len(m.reqs), digest |-> m.digest]
  <2>1. CASE Stop(r)
    BY <2>1, InvokedFrame DEF Stop, clientVars
  <2>2. ASSUME NEW n, InsertPrepare(r, p, Primary, n, OwnPrepare(r, p)), UNCHANGED last_req
        PROVE  RequestsInvoked'
    <3>1. \A x \in OwnPrepare(r, p) : x.type # "request"
      BY NotRequest DEF OwnPrepare
    <3> HIDE DEF p
    <3> QED BY <1>7, <2>2, <3>1
  <2> QED BY <1>8, <2>1, <2>2 DEF HandlePreprepare, clientVars
<1>9. ASSUME NEW r \in Replicas, NEW m \in msgs, HandlePrepare(r, m) PROVE RequestsInvoked'
  <2>1. CASE Stop(r)
    BY <2>1, InvokedFrame DEF Stop, clientVars
  <2> QED BY <1>7, <1>9, <2>1 DEF HandlePrepare, clientVars
<1>10. ASSUME NEW r \in Replicas, NEW m \in msgs, HandleCommit(r, m) PROVE RequestsInvoked'
  <2>1. /\ UNCHANGED last_req
        /\ \A x \in msgs' : x \in msgs \/ \E req : x = ReplyMsg(r, req)
    BY <1>10 DEF HandleCommit, Stop, Send, clientVars
  <2> QED BY <2>1, InvokedFrame, NotRequest
<1> QED BY <1>1, <1>2, <1>3, <1>4, <1>5, <1>6, <1>8, <1>9, <1>10 DEF Next, ClientStep, Handle

\* A step that executes nothing keeps what is executed.
LEMMA ExecutedLogFrame ==
  ASSUME TypeOK, PrimaryOrder, Grows, UNCHANGED commit_number
  PROVE  ExecutedLog' = ExecutedLog
<1>1. ASSUME NEW r \in Replicas, NEW i \in 1 .. commit_number[r] PROVE log'[r][i] = log[r][i]
  <2>1. Len(log[r]) \in Nat
    BY DEF TypeOK
  <2>2. commit_number[r] \in Nat /\ commit_number[r] <= Len(log[r])
    BY DEF TypeOK, PrimaryOrder, LogsArePrefixes
  <2>3. i \in 1 .. Len(log[r])
    BY <2>1, <2>2
  <2> QED BY <2>3 DEF Grows
<1> QED BY <1>1 DEF ExecutedLog

\* The operator that ReplicatedLog counts with.
LEMMA SameCardinality == ASSUME NEW S PROVE Replicated!Cardinality(S) = Cardinality(S)
BY DEF Replicated!Cardinality, Cardinality

\* HandleCommit executes what comes next in the primary's log.
LEMMA CommitRefines ==
  ASSUME TypeOK, PrimaryOrder, [Next]_vars,
         NEW r \in Replicas, NEW m \in msgs, NEW k \in Nat, Executes(r, m, k)
  PROVE  [Replicated!Next]_Replicated!vars
<1>1. /\ commit_number[r] \in Nat /\ commit_number[r] <= k /\ k <= Len(log[r])
      /\ commit_number' = [commit_number EXCEPT ![r] = k]
      /\ UNCHANGED <<log, pending, last_req>>
  BY DEF Executes, ExecuteLimits, TypeOK
<1>2. /\ Len(log[r]) \in Nat /\ Len(log[Primary]) \in Nat /\ Len(log[r]) <= Len(log[Primary])
      /\ \A i \in 1 .. Len(log[r]) : log[r][i] = log[Primary][i]
  BY Group DEF PrimaryOrder, LogsArePrefixes, TypeOK
<1>3. /\ commit_number'[r] = k
      /\ \A s \in Replicas : s # r => commit_number'[s] = commit_number[s]
  BY <1>1 DEF TypeOK
<1>4. ExecutedLog' = [ExecutedLog EXCEPT ![r] = [i \in 1 .. k |-> log[r][i]]]
  <2> DEFINE new == [i \in 1 .. k |-> log[r][i]]
  <2>1. ExecutedLog'[r] = new
    BY <1>1, <1>3 DEF ExecutedLog
  <2>2. \A s \in Replicas : s # r => ExecutedLog'[s] = ExecutedLog[s]
    BY <1>1, <1>3 DEF ExecutedLog
  <2>3. ExecutedLog = [s \in Replicas |-> ExecutedLog[s]] /\ ExecutedLog' = [s \in Replicas |-> ExecutedLog'[s]]
    BY DEF ExecutedLog
  <2> HIDE DEF new
  <2>4. ExecutedLog' = [ExecutedLog EXCEPT ![r] = new]
    BY <2>1, <2>2, <2>3, ExceptIs
  <2> QED BY <2>4 DEF new
<1>5. [i \in 1 .. k |-> log[r][i]] = [i \in 1 .. k |-> log[Primary][i]]
  BY <1>1, <1>2
<1>6. /\ ExecutedLog[r] = [i \in 1 .. commit_number[r] |-> log[r][i]]
      /\ ExecutedLog'[r] = [i \in 1 .. k |-> log[r][i]]
  BY <1>1, <1>3 DEF ExecutedLog
<1>7. DOMAIN ExecutedLog[r] = 1 .. commit_number[r] /\ DOMAIN ExecutedLog'[r] = 1 .. k
  BY <1>6
<1>8. CASE k = commit_number[r]
  <2>1. UNCHANGED commit_number
    BY <1>1, <1>8 DEF TypeOK
  <2>2. ExecutedLog' = ExecutedLog
    BY <1>1, <2>1 DEF ExecutedLog
  <2> QED BY <1>1, <2>2 DEF Replicated!vars
<1>9. CASE k # commit_number[r]
  <2>1. k \in (1 .. k) \ (1 .. commit_number[r])
    BY <1>1, <1>9
  <2>2. (1 .. commit_number[r]) \subseteq 1 .. k /\ 1 .. k \subseteq 1 .. Len(log[Primary])
    BY <1>1, <1>2
  <2>3. \A i \in 1 .. commit_number[r], j \in (1 .. k) \ (1 .. commit_number[r]) : i < j
    BY <1>1
  <2>4. Replicated!NoGap(1 .. k)
    BY DEF Replicated!NoGap
  <2>5. Replicated!Execute(r)
    BY <1>1, <1>4, <1>5, <1>7, <2>1, <2>2, <2>3, <2>4 DEF Replicated!Execute
  <2> QED BY <2>5 DEF Replicated!Next
<1> QED BY <1>8, <1>9

\* HandleRequest at the primary orders a request that its client has invoked.
LEMMA RequestRefines ==
  ASSUME TypeOK, PrimaryOrder, RequestsInvoked, [Next]_vars,
         NEW r \in Replicas, NEW m \in msgs, HandleRequest(r, m)
  PROVE  [Replicated!Next]_Replicated!vars
<1> DEFINE req == [client |-> m.client, num |-> m.num]
<1>1. UNCHANGED <<commit_number, pending, last_req>>
  BY DEF HandleRequest, LogRequest, Stop, replicaVars, clientVars
<1>2. ExecutedLog' = ExecutedLog
  BY <1>1, ExecutedLogFrame, NextGrows
<1>3. m.client \in Clients /\ m.num \in 1 .. last_req[m.client]
  BY MessageFields DEF HandleRequest, RequestsInvoked, TypeOK
<1>4. CASE UNCHANGED log
  BY <1>1, <1>2, <1>4 DEF Replicated!vars
<1>5. CASE log' = [log EXCEPT ![Primary] = Append(log[Primary], req)]
  <2> DEFINE lg == log[Primary]
  <2>1. lg \in Seq(Request) /\ Len(lg) \in Nat /\ req \in Request
    <3>1. lg \in Seq(Request) /\ Len(lg) \in Nat
      BY Group DEF TypeOK
    <3>2. m.num \in Nat \ {0}
      BY MessageFields DEF TypeOK, HandleRequest, Opnum
    <3> QED BY <1>3, <3>1, <3>2 DEF Request
  <2>2. log'[Primary] = Append(lg, req)
    BY <1>5, Group DEF TypeOK
  <2>3. /\ Len(log'[Primary]) = Len(lg) + 1
        /\ \A i \in 1 .. Len(lg) : log'[Primary][i] = lg[i]
        /\ log'[Primary][Len(lg) + 1] = req
    BY <2>1, <2>2
  <2>4. \A i \in Len(lg) + 1 .. Len(log'[Primary]) : log'[Primary][i] = req
    BY <2>1, <2>3
  <2>5. req = Replicated!Request(m.client, m.num)
    BY DEF Replicated!Request
  <2> HIDE DEF lg, req
  <2>6. Len(lg) < Len(log'[Primary])
    BY <2>1, <2>3
  <2>7. Replicated!Order
    BY <1>1, <1>2, <1>3, <2>3, <2>4, <2>5, <2>6 DEF Replicated!Order, lg
  <2> QED BY <2>7 DEF Replicated!Next
<1>6. UNCHANGED log \/ log' = [log EXCEPT ![Primary] = Append(log[Primary], req)]
  BY DEF HandleRequest, LogRequest, Stop, replicaVars
<1> QED BY <1>4, <1>5, <1>6

\* A client's step invokes a request, completes one, or changes neither.
LEMMA ClientRefines ==
  ASSUME TypeOK, PrimaryOrder, RepliesInv, [Next]_vars, NEW c \in Clients, ClientStep(c)
  PROVE  [Replicated!Next]_Replicated!vars
<1>1. UNCHANGED <<log, commit_number>>
  BY DEF ClientStep, Invoke, ResendRequest, ReceiveReply, Stop, replicaVars
<1>2. ExecutedLog' = ExecutedLog
  BY <1>1 DEF ExecutedLog
<1>3. CASE UNCHANGED <<pending, last_req>>
  BY <1>1, <1>2, <1>3 DEF Replicated!vars
<1>4. CASE Invoke(c)
  <2>1. /\ pending[c] = 0 /\ last_req' = [last_req EXCEPT ![c] = @ + 1]
        /\ pending' = [pending EXCEPT ![c] = last_req[c] + 1]
        /\ last_req'[c] = last_req[c] + 1
    BY <1>4 DEF Invoke, TypeOK
  <2>2. Replicated!Invoke(c)
    BY <1>1, <1>2, <2>1 DEF Replicated!Invoke
  <2> QED BY <2>2 DEF Replicated!Next
<1>5. CASE ResendRequest(c)
  BY <1>3, <1>5 DEF ResendRequest, Stop, clientVars
<1>6. ASSUME NEW m \in msgs, ReceiveReply(c, m)
      PROVE  [Replicated!Next]_Replicated!vars
  <2> DEFINE got == received[c] \cup {m.from}
             n   == pending[c]
             S   == {r \in Replicas : \E i \in DOMAIN ExecutedLog[r] :
                       ExecutedLog[r][i] = Replicated!Request(c, n)}
  <2>1. /\ m.type = "reply" /\ m.client = c /\ m.num = n /\ n # 0
        /\ pending' = [pending EXCEPT ![c] = IF Cardinality(got) < f + 1 THEN @ ELSE 0]
        /\ UNCHANGED last_req
    BY <1>6 DEF ReceiveReply, RepliesNeeded
  <2>2. m.from \in Replicas
    BY <2>1, MessageFields DEF TypeOK
  <2>3. got \in SUBSET Replicas /\ \A r \in got : Req(c, n) \in Executed(r)
    BY <2>1, <2>2 DEF RepliesInv, TypeOK
  <2>4. got \in SUBSET S
    <3> SUFFICES ASSUME NEW r \in got PROVE r \in S
      OBVIOUS
    <3>1. r \in Replicas /\ Req(c, n) \in Executed(r)
      BY <2>3
    <3>2. PICK i \in 1 .. commit_number[r] : log[r][i] = Req(c, n)
      BY <3>1 DEF Executed
    <3>3. i \in DOMAIN ExecutedLog[r] /\ ExecutedLog[r][i] = log[r][i]
      BY <3>1, <3>2 DEF ExecutedLog
    <3>4. Req(c, n) = Replicated!Request(c, n)
      BY DEF Req, Replicated!Request
    <3> QED BY <3>1, <3>2, <3>3, <3>4
  <2> HIDE DEF got, S
  <2>5. CASE Cardinality(got) < f + 1
    BY <1>3, <2>1, <2>5 DEF TypeOK
  <2>6. CASE ~(Cardinality(got) < f + 1)
    <3>1. Cardinality(got) \in Nat
      BY <2>3, Group, FS_Subset, FS_CardinalityType
    <3>2. Cardinality(got) >= f + 1 /\ f + 1 \in Nat
      BY <2>6, <3>1, Group
    <3>3. Cardinality(S) >= f + 1
      <4>1. S \in SUBSET Replicas
        BY DEF S
      <4> QED BY <2>4, <3>2, <4>1, MoreIsEnough, Group
    <3>4. pending' = [pending EXCEPT ![c] = 0]
      BY <2>1, <2>6
    <3>5. Replicated!Answer(c)
      BY <1>1, <1>2, <2>1, <3>3, <3>4, SameCardinality DEF Replicated!Answer, S
    <3> QED BY <3>5 DEF Replicated!Next
  <2> QED BY <2>5, <2>6
<1> QED BY <1>4, <1>5, <1>6 DEF ClientStep

\* Every step of PBFT is a step of ReplicatedLog, or changes nothing it speaks of.
LEMMA NextRefines ==
  ASSUME TypeOK, PrimaryOrder, RepliesInv, RequestsInvoked, [Next]_vars
  PROVE  [Replicated!Next]_Replicated!vars
<1>1. ASSUME UNCHANGED <<commit_number, pending, last_req>>, log'[Primary] = log[Primary]
      PROVE  [Replicated!Next]_Replicated!vars
  BY <1>1, ExecutedLogFrame, NextGrows DEF Replicated!vars
<1>2. CASE UNCHANGED vars \/ CloseBatchTimeout \/ RunCloseBatch
  BY <1>1, <1>2 DEF vars, CloseBatchTimeout, RunCloseBatch, replicaVars, clientVars
<1>3. ASSUME NEW r \in Replicas, NEW m \in msgs, HandlePreprepare(r, m)
      PROVE  [Replicated!Next]_Replicated!vars
  <2>1. /\ UNCHANGED <<commit_number, pending, last_req>> /\ r # Primary
        /\ log' = log \/ \E x : log' = [log EXCEPT ![r] = x]
    BY <1>3 DEF HandlePreprepare, Stop, replicaVars, clientVars
  <2>2. log'[Primary] = log[Primary]
    BY <2>1, Group DEF TypeOK
  <2> QED BY <1>1, <2>1, <2>2
<1>4. ASSUME NEW r \in Replicas, NEW m \in msgs, HandlePrepare(r, m)
      PROVE  [Replicated!Next]_Replicated!vars
  BY <1>1, <1>4 DEF HandlePrepare, Stop, replicaVars, clientVars
<1>5. ASSUME NEW r \in Replicas, NEW m \in msgs, HandleCommit(r, m)
      PROVE  [Replicated!Next]_Replicated!vars
  <2>1. UNCHANGED <<log, pending, last_req>>
    BY <1>5 DEF HandleCommit, Stop, replicaVars, clientVars
  <2> QED BY <1>1, <2>1, ExecutesOrNot, CommitRefines
<1> QED BY <1>2, <1>3, <1>4, <1>5, ClientRefines, RequestRefines DEF Next, Handle

\* PBFT with batching and reordered messages is a log that all replicas execute in
\* one order, without a gap, whose answers f+1 replicas stand for.
THEOREM ReplicatesLogHolds == Spec => ReplicatesLog
<1>1. Init => RequestsInvoked /\ Replicated!Init
  <2> SUFFICES ASSUME Init PROVE RequestsInvoked /\ Replicated!Init
    OBVIOUS
  <2>1. RequestsInvoked
    BY DEF Init, RequestsInvoked
  <2>2. log[Primary] = <<>>
    BY Group DEF Init
  <2>3. <<>> \in Seq({})
    OBVIOUS
  <2>4. ExecutedLog = [r \in Replicas |-> <<>>]
    <3>1. \A r \in Replicas : [i \in 1 .. commit_number[r] |-> log[r][i]] = <<>>
      BY DEF Init
    <3> QED BY <3>1 DEF ExecutedLog
  <2> QED BY <2>1, <2>2, <2>3, <2>4 DEF Init, Replicated!Init
<1>2. QuorumInv => TypeOK /\ PrimaryOrder /\ RepliesInv
  BY DEF QuorumInv, IInv
<1>3. TypeOK /\ RepliesInv /\ RequestsInvoked /\ [Next]_vars => RequestsInvoked'
  BY NextInvoked
<1>4. TypeOK /\ PrimaryOrder /\ RepliesInv /\ RequestsInvoked /\ [Next]_vars
        => [Replicated!Next]_Replicated!vars
  BY NextRefines
<1> QED BY <1>1, <1>2, <1>3, <1>4, QuorumsInductive, PTL
        DEF Spec, ReplicatesLog, Replicated!Spec
=============================================================================
