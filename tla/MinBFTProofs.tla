---------------------------- MODULE MinBFTProofs ----------------------------
(***************************************************************************)
(* The invariants of MinBFT, for every number of replicas, clients,        *)
(* requests and queued messages, and whatever is received out of order.    *)
(*                                                                         *)
(* What the primary sends alternates: a PREPARE, and its COMMIT with the   *)
(* next UI (PrimaryInv).  A backup handles the primary's messages in the   *)
(* order of their UIs, so that its log is the primary's up to the batch of *)
(* the last PREPARE before next_ui (BackupInv).  A COMMIT comes from a     *)
(* replica that has the batch, and the primary's is handled after the      *)
(* PREPARE (VoteInv): hence executions stand on f+1 replicas (ExecInv),    *)
(* replies on executions (RepliesInv).                                     *)
(***************************************************************************)
EXTENDS MinBFT, ProofFacts

\* 2f+1 replicas, some of which the clients' requests reach.
Group ==
  /\ IsFiniteSet(Replicas) /\ f \in Nat
  /\ Cardinality(Replicas) = 2 * f + 1
  /\ Primary \in Replicas /\ Hear \subseteq Replicas

Backups == Replicas \ {Primary}

\* The length of the log without the requests that wait for their batch to be closed.
Closed == Len(log[Primary]) - Len(request_batch)

\* reqs are the requests of batch b of the primary's log.
IsBatch(b, reqs) ==
  /\ 1 <= b.low /\ b.high <= Closed /\ b.high + 1 = b.low + Len(reqs)
  /\ \A i \in 1 .. Len(reqs) : reqs[i] = log[Primary][(b.low + i) - 1]

HasBatch(s, ui) == \E b \in batches[s] : b.ui = ui

IsPrepare(ui) == ui \in DOMAIN sent[Primary] /\ sent[Primary][ui].type = "prepare"
IsCommit(ui)  == ui \in DOMAIN sent[Primary] /\ sent[Primary][ui].type = "commit"

\* The requests that wait are the end of the log; the first message is a PREPARE.
PrimaryLog ==
  /\ 0 <= Closed
  /\ \A i \in 1 .. Len(request_batch) : request_batch[i] = log[Primary][Closed + i]
  /\ Len(sent[Primary]) = 0 => Closed = 0
  /\ 1 \in DOMAIN sent[Primary] => IsPrepare(1)

\* A PREPARE is followed by its COMMIT, and this by the next PREPARE.
PrimaryUIs ==
  \A ui \in DOMAIN sent[Primary] :
       /\ IsPrepare(ui) => IsCommit(ui + 1) /\ sent[Primary][ui + 1].ui = ui /\ HasBatch(Primary, ui)
       /\ IsCommit(ui) => /\ sent[Primary][ui].ui = ui - 1 /\ IsPrepare(ui - 1)
                          /\ ui + 1 \in DOMAIN sent[Primary] => IsPrepare(ui + 1)

\* Every PREPARE has its batch of the log, and every batch is followed by the next.
PrimaryBatches ==
  \A b \in batches[Primary] :
       /\ IsPrepare(b.ui) /\ IsBatch(b, sent[Primary][b.ui].reqs)
       /\ b.ui + 1 = Len(sent[Primary]) => b.high = Closed
       /\ \A c \in batches[Primary] : /\ c.ui = b.ui => c = b
                                      /\ c.ui = b.ui + 2 => c.low = b.high + 1

PrimaryInv == PrimaryLog /\ PrimaryUIs /\ PrimaryBatches

\* What comes early waits; the others send nothing but COMMITs.
UIInv ==
  \A r, s \in Replicas :
    /\ 1 <= next_ui[r][s] /\ next_ui[r][s] <= Len(sent[s]) + 1
    /\ ui_queue[r][s] \subseteq DOMAIN sent[s]
    /\ ui_queue[r][r] = {}
    /\ s # Primary => \A ui \in DOMAIN sent[s] : sent[s][ui].type = "commit"

\* A backup has the batches of the PREPAREs before next_ui, and no other.
BackupInv ==
  \A r \in Backups :
    /\ Len(log[r]) <= Closed
    /\ \A i \in 1 .. Len(log[r]) : log[r][i] = log[Primary][i]
    /\ next_ui[r][Primary] >= Len(sent[Primary]) => Len(log[r]) = Closed
    /\ batches[r] = {b \in batches[Primary] : b.ui < next_ui[r][Primary]}
    /\ \A b \in batches[r] : b.high <= Len(log[r])
    /\ \A b \in batches[Primary] :
         b.ui \in {next_ui[r][Primary], next_ui[r][Primary] + 1} => b.low = Len(log[r]) + 1

\* Who sent a COMMIT has the batch; who handled the primary's has it too.
CommitsSent ==
  \A s \in Replicas : \A ui \in DOMAIN sent[s] :
    sent[s][ui].type = "commit" => HasBatch(s, sent[s][ui].ui)

VoteInv ==
  /\ CommitsSent
  /\ \A r \in Replicas : \A v \in commit_quorum[r] :
       HasBatch(v[2], v[1]) /\ (v[2] = Primary => HasBatch(r, v[1]))

Holders(ui) == {s \in Replicas : HasBatch(s, ui)}

\* What is committed is in a batch that f+1 replicas have.
ExecInv ==
  \A r \in Replicas :
    /\ \A i \in committed[r] :
         \E b \in batches[r] : b.low <= i /\ i <= b.high /\ Cardinality(Holders(b.ui)) >= f + 1
    /\ 1 .. commit_number[r] \subseteq committed[r]

\* The primary's table is at least as new as its log, and no request is there twice.
TableInv ==
  /\ \A i \in 1 .. Len(log[Primary]) :
       log[Primary][i].num <= client_table[Primary][log[Primary][i].client].num
  /\ \A i, j \in 1 .. Len(log[Primary]) : i < j => log[Primary][i] # log[Primary][j]

Req(c, n) == [client |-> c, num |-> n]
Done(r)   == {log[r][i] : i \in 1 .. commit_number[r]}

\* A reply, sent, kept or still to be sent, is one to an executed request.
RepliesInv ==
  /\ \A m \in replies : Req(m.client, m.num) \in Done(m.from)
  /\ \A r \in Replicas : \A m \in epilogue_list[r] : m.from = r /\ Req(m.client, m.num) \in Done(r)
  /\ \A r \in Replicas, c \in Clients :
       client_table[r][c].ready => Req(c, client_table[r][c].reply) \in Done(r)
  /\ \A c \in Clients : \A r \in received[c] : Req(c, last_req[c]) \in Done(r)

\* The loop that drains a queue ends only behind a duplicate.
DrainInv ==
  \A r, s \in Replicas :
    draining # <<r, s>> /\ r \notin stopped /\ next_ui[r][s] \in ui_queue[r][s] =>
      \E u \in ui_queue[r][s] : u < next_ui[r][s]

IInv == /\ TypeOK /\ PrimaryInv /\ UIInv /\ BackupInv /\ VoteInv /\ ExecInv
        /\ TableInv /\ RepliesInv /\ DrainInv /\ CompletedIsExecuted /\ NoneStops

-----------------------------------------------------------------------------
(***************************************************************************)
(* What the executions of AddCommit change.                                *)
(***************************************************************************)

Message == [type : {"prepare"}, reqs : Seq(Request)] \cup [type : {"commit"}, ui : Nat]
BatchType == [ui : Nat, low : Nat, high : Nat]
Entries == [Clients -> [num : Nat, ready : BOOLEAN, reply : Nat]]
ReplyType == [from : Replicas, client : Clients, num : Nat]

\* The fields of the messages of each type, and that no message is of both.
LEMMA MessageFields ==
  ASSUME NEW m \in Message
  PROVE  /\ m.type \in {"prepare", "commit"}
         /\ m.type = "prepare" => m.reqs \in Seq(Request)
         /\ m.type = "commit" => m.ui \in Nat /\ m = Commit(m.ui)
BY DEF Message, Commit

\* The interval from n + 1 to m has m - n elements.
LEMMA IntervalSize ==
  ASSUME NEW n \in Nat, NEW m \in Nat, n <= m
  PROVE  IsFiniteSet(n + 1 .. m) /\ Cardinality(n + 1 .. m) = m - n
<1> DEFINE a == n + 1
<1>1. a \in Int /\ m \in Int
  OBVIOUS
<1>2. IsFiniteSet(a .. m) /\ Cardinality(a .. m) = IF a > m THEN 0 ELSE (m - a) + 1
  <2> HIDE DEF a
  <2> QED BY <1>1, FS_Interval
<1> QED BY <1>2

\* What is executable follows what was executed, without a gap, and is done.
LEMMA ExecutableIsInterval ==
  ASSUME NEW r \in Replicas, NEW lg \in Seq(Request), NEW done, commit_number[r] \in Nat
  PROVE  LET ops == Executable(r, lg, done) IN
         /\ Cardinality(ops) \in Nat
         /\ ops = commit_number[r] + 1 .. commit_number[r] + Cardinality(ops)
         /\ ops \subseteq done
         /\ ops \subseteq 1 .. Len(lg)
<1> DEFINE n == commit_number[r]
           ops == Executable(r, lg, done)
           size == Cardinality(ops)
<1>1. n \in Nat /\ Len(lg) \in Nat
  OBVIOUS
<1>2. /\ ops \subseteq n + 1 .. Len(lg)
      /\ \A i \in ops : n + 1 .. i \subseteq done
      /\ \A i \in n + 1 .. Len(lg) : n + 1 .. i \subseteq done => i \in ops
  BY DEF Executable
<1>3. ASSUME NEW i \in ops PROVE i \in done /\ n + 1 .. i \subseteq ops
  <2>1. i \in n + 1 .. Len(lg) /\ n + 1 .. i \subseteq done
    BY <1>2
  <2>2. ASSUME NEW j \in n + 1 .. i PROVE j \in ops
    BY <2>1, <1>1, <1>2
  <2> QED BY <2>1, <2>2, <1>1
<1> HIDE DEF n, ops
<1>4. IsFiniteSet(n + 1 .. Len(lg))
  BY <1>1, FS_Interval
<1>5. IsFiniteSet(ops) /\ size \in Nat
  BY <1>2, <1>4, FS_Subset, FS_CardinalityType
<1>6. ops \subseteq n + 1 .. n + size
  <2> SUFFICES ASSUME NEW i \in ops, i > n + size PROVE FALSE
    BY <1>1, <1>2, <1>5
  <2>1. i \in Nat /\ n <= i
    BY <1>1, <1>2
  <2>2. Cardinality(n + 1 .. i) <= size
    BY <1>3, <1>5, FS_Subset
  <2> QED BY <2>1, <2>2, <1>1, <1>5, IntervalSize
<1>7. ops = n + 1 .. n + size
  <2>1. n + size \in Nat /\ n <= n + size
    BY <1>1, <1>5
  <2>2. IsFiniteSet(n + 1 .. n + size) /\ Cardinality(n + 1 .. n + size) = (n + size) - n
    BY <2>1, <1>1, IntervalSize
  <2>3. Cardinality(n + 1 .. n + size) = size
    BY <2>2, <1>1, <1>5
  <2> QED BY <2>2, <2>3, <1>6, FS_Subset
<1>8. ops \subseteq 1 .. Len(lg)
  BY <1>1, <1>2
<1> QED BY <1>3, <1>5, <1>7, <1>8 DEF ops, n

\* An execution of the opnums from commit_number on answers the clients that have an
\* entry, and keeps the numbers in the table.
LEMMA ExecuteEffect ==
  ASSUME TypeOK, NEW r \in Replicas, NEW lg \in Seq(Request), NEW table \in Entries,
         NEW ops \in SUBSET (1 .. Len(lg)), Cardinality(ops) \in Nat,
         Execute(r, lg, table, ops)
  PROVE  /\ commit_number' = [commit_number EXCEPT ![r] = @ + Cardinality(ops)]
         /\ client_table' \in [Replicas -> Entries]
         /\ epilogue_list' \in [Replicas -> SUBSET ReplyType]
         /\ \A s \in Replicas \ {r} : client_table'[s] = client_table[s] /\ epilogue_list'[s] = epilogue_list[s]
         /\ \A c \in Clients :
              /\ client_table'[r][c].num = table[c].num
              /\ \/ client_table'[r][c] = table[c]
                 \/ \E i \in ops : lg[i] = Req(c, client_table'[r][c].reply)
         /\ \A m \in epilogue_list'[r] \ epilogue_list[r] :
              m.from = r /\ \E i \in ops : lg[i] = Req(m.client, m.num)
<1> DEFINE of(c) == {i \in ops : lg[i].client = c}
           last(c) == CHOOSE i \in of(c) : \A j \in of(c) : j <= i
           entry(c) == IF of(c) = {} \/ table[c].num = 0 THEN table[c]
                       ELSE [num |-> table[c].num, ready |-> TRUE, reply |-> lg[last(c)].num]
           new == {Reply(r, lg[i]) : i \in {j \in ops : table[lg[j].client].num # 0}}
<1>1. /\ commit_number' = [commit_number EXCEPT ![r] = @ + Cardinality(ops)]
      /\ client_table' = [client_table EXCEPT ![r] = [c \in Clients |-> entry(c)]]
      /\ epilogue_list' = [epilogue_list EXCEPT ![r] = @ \cup new]
  BY DEF Execute
<1>2. ASSUME NEW i \in ops PROVE lg[i] \in Request /\ lg[i] = Req(lg[i].client, lg[i].num)
  <2>1. lg[i] \in Request
    OBVIOUS
  <2> QED BY <2>1 DEF Request, Req
<1>3. ASSUME NEW c \in Clients, of(c) # {} PROVE last(c) \in ops /\ lg[last(c)].client = c
  <2>1. of(c) \in SUBSET (0 .. Len(lg)) /\ Len(lg) \in Nat
    <3>1. Len(lg) \in Nat
      OBVIOUS
    <3>2. of(c) \subseteq ops
      BY Zenon
    <3>3. ops \subseteq 0 .. Len(lg)
      BY <3>1
    <3> QED BY <3>1, <3>2, <3>3, Zenon
  <2>2. \E i \in of(c) : \A j \in of(c) : j <= i
    <3> HIDE DEF of
    <3> QED BY <2>1, <1>3, LastOfOps
  <2>3. last(c) \in of(c)
    <3> HIDE DEF of
    <3> QED BY <2>2
  <2> QED BY <2>3
<1>4. ASSUME NEW c \in Clients
      PROVE  /\ entry(c) \in [num : Nat, ready : BOOLEAN, reply : Nat]
             /\ entry(c).num = table[c].num
             /\ entry(c) = table[c] \/ \E i \in ops : lg[i] = Req(c, entry(c).reply)
  <2>1. table[c] \in [num : Nat, ready : BOOLEAN, reply : Nat]
    BY DEF Entries
  <2>2. CASE of(c) = {} \/ table[c].num = 0
    BY <2>1, <2>2
  <2>3. CASE of(c) # {} /\ table[c].num # 0
    <3>1. last(c) \in ops /\ lg[last(c)].client = c
      BY <2>3, <1>3
    <3>2. lg[last(c)].num \in Nat
      BY <3>1, <1>2 DEF Request
    <3> HIDE DEF last, of
    <3>3. entry(c) = [num |-> table[c].num, ready |-> TRUE, reply |-> lg[last(c)].num]
      BY <2>3
    <3> HIDE DEF entry
    <3>4. entry(c) \in [num : Nat, ready : BOOLEAN, reply : Nat] /\ entry(c).num = table[c].num
          /\ entry(c).reply = lg[last(c)].num
      BY <3>2, <3>3, <2>1
    <3>5. lg[last(c)] = Req(c, entry(c).reply)
      BY <3>1, <3>4, <1>2
    <3> QED BY <3>1, <3>4, <3>5
  <2> QED BY <2>2, <2>3
<1>5. new \subseteq ReplyType /\ \A m \in new : m.from = r /\ \E i \in ops : lg[i] = Req(m.client, m.num)
  <2> SUFFICES ASSUME NEW i \in ops
               PROVE  /\ Reply(r, lg[i]) \in ReplyType /\ Reply(r, lg[i]).from = r
                      /\ lg[i] = Req(Reply(r, lg[i]).client, Reply(r, lg[i]).num)
    OBVIOUS
  <2> QED BY <1>2 DEF Reply, ReplyType, Request
<1> HIDE DEF entry, new
<1>6. client_table \in [Replicas -> Entries] /\ epilogue_list \in [Replicas -> SUBSET ReplyType]
  BY DEF TypeOK, Entries, ReplyType
<1>7. [c \in Clients |-> entry(c)] \in Entries
  BY <1>4 DEF Entries
<1>8. /\ client_table'[r] = [c \in Clients |-> entry(c)]
      /\ epilogue_list'[r] = epilogue_list[r] \cup new
      /\ \A s \in Replicas \ {r} : client_table'[s] = client_table[s] /\ epilogue_list'[s] = epilogue_list[s]
  BY <1>1, <1>6
<1>9. client_table' \in [Replicas -> Entries] /\ epilogue_list' \in [Replicas -> SUBSET ReplyType]
  BY <1>1, <1>5, <1>6, <1>7
<1> QED BY <1>1, <1>4, <1>5, <1>8, <1>9

\* What AddCommit changes: r counts a COMMIT of s, and may execute opnums of log lg.
CommitEffect(r, ui, s, lg, table, known) ==
  LET run == commit_number[r] + 1 .. commit_number'[r] IN
  /\ commit_quorum' = [commit_quorum EXCEPT ![r] = @ \cup {<<ui, s>>}]
  /\ committed' \in [Replicas -> SUBSET Nat] /\ commit_number' \in [Replicas -> Nat]
  /\ client_table' \in [Replicas -> Entries]
  /\ epilogue_list' \in [Replicas -> SUBSET ReplyType]
  /\ \A q \in Replicas \ {r} :
       /\ committed'[q] = committed[q] /\ commit_number'[q] = commit_number[q]
       /\ client_table'[q] = client_table[q] /\ epilogue_list'[q] = epilogue_list[q]
  /\ committed[r] \subseteq committed'[r]
  /\ \A i \in committed'[r] \ committed[r] :
       /\ \E b \in known : b.ui = ui /\ b.low <= i /\ i <= b.high
       /\ Cardinality(Committers(r, ui) \cup {s}) >= f + 1
  /\ commit_number[r] <= commit_number'[r]
  /\ run \subseteq committed'[r] /\ run \subseteq 1 .. Len(lg)
  /\ \A c \in Clients :
       /\ client_table'[r][c].num = table[c].num
       /\ \/ client_table'[r][c] = table[c]
          \/ \E i \in run : lg[i] = Req(c, client_table'[r][c].reply)
  /\ \A m \in epilogue_list'[r] \ epilogue_list[r] :
       m.from = r /\ \E i \in run : lg[i] = Req(m.client, m.num)

\* The number of COMMITs for a PREPARE.
LEMMA CommittersSize ==
  ASSUME Group, NEW r \in Replicas, NEW ui, NEW s \in Replicas
  PROVE  Cardinality(Committers(r, ui) \cup {s}) \in Nat
<1>1. Committers(r, ui) \cup {s} \subseteq Replicas
  BY DEF Committers
<1> QED BY <1>1, FS_Subset, FS_CardinalityType DEF Group

\* AddCommit does what CommitEffect says.
LEMMA AddCommitEffect ==
  ASSUME Group, TypeOK, NEW r \in Replicas, NEW ui \in Nat, NEW s \in Replicas,
         NEW lg \in Seq(Request), NEW table \in Entries, NEW known \in SUBSET BatchType,
         AddCommit(r, ui, s, lg, table, known)
  PROVE  CommitEffect(r, ui, s, lg, table, known)
<1> DEFINE votes == Cardinality(Committers(r, ui) \cup {s})
<1>0. votes \in Nat /\ f \in Nat
  BY CommittersSize DEF Group
<1>1. /\ commit_quorum' = [commit_quorum EXCEPT ![r] = @ \cup {<<ui, s>>}]
      /\ IF votes < f + 1
           THEN /\ client_table' = [client_table EXCEPT ![r] = table]
                /\ UNCHANGED <<committed, commit_number, epilogue_list>>
           ELSE \E b \in known :
                  LET done == committed[r] \cup (b.low .. b.high)
                  IN  /\ b.ui = ui
                      /\ committed' = [committed EXCEPT ![r] = done]
                      /\ Execute(r, lg, table, Executable(r, lg, done))
  BY DEF AddCommit
<1>2. /\ client_table \in [Replicas -> Entries] /\ epilogue_list \in [Replicas -> SUBSET ReplyType]
      /\ committed \in [Replicas -> SUBSET Nat] /\ commit_number \in [Replicas -> Nat]
  BY DEF TypeOK, Entries, ReplyType
<1>3. commit_number[r] \in Nat
  BY <1>2
<1> HIDE DEF votes
<1>4. CASE votes < f + 1
  <2>1. /\ client_table' = [client_table EXCEPT ![r] = table]
        /\ committed' = committed /\ commit_number' = commit_number /\ epilogue_list' = epilogue_list
    BY <1>1, <1>4
  <2>2. client_table' \in [Replicas -> Entries] /\ client_table'[r] = table
        /\ \A q \in Replicas \ {r} : client_table'[q] = client_table[q]
    BY <2>1, <1>2
  <2>3. commit_number[r] + 1 .. commit_number'[r] = {} /\ commit_number[r] <= commit_number'[r]
    BY <2>1, <1>3
  <2> QED BY <1>1, <1>2, <2>1, <2>2, <2>3 DEF CommitEffect
<1>5. CASE ~(votes < f + 1)
  <2>1. PICK b \in known :
          /\ b.ui = ui
          /\ committed' = [committed EXCEPT ![r] = committed[r] \cup (b.low .. b.high)]
          /\ Execute(r, lg, table, Executable(r, lg, committed[r] \cup (b.low .. b.high)))
    BY <1>1, <1>5
  <2> DEFINE done == committed[r] \cup (b.low .. b.high)
             ops == Executable(r, lg, done)
             n == Cardinality(ops)
  <2>2. b \in BatchType /\ b.low \in Nat /\ b.high \in Nat
    BY DEF BatchType
  <2>3. /\ n \in Nat /\ ops = commit_number[r] + 1 .. commit_number[r] + n
        /\ ops \subseteq done /\ ops \subseteq 1 .. Len(lg)
    BY <1>3, ExecutableIsInterval
  <2>4. Execute(r, lg, table, ops)
    BY <2>1
  <2> HIDE DEF ops
  <2>5. /\ commit_number' = [commit_number EXCEPT ![r] = @ + n]
        /\ client_table' \in [Replicas -> Entries]
        /\ epilogue_list' \in [Replicas -> SUBSET ReplyType]
        /\ \A q \in Replicas \ {r} : client_table'[q] = client_table[q] /\ epilogue_list'[q] = epilogue_list[q]
        /\ \A c \in Clients :
             /\ client_table'[r][c].num = table[c].num
             /\ \/ client_table'[r][c] = table[c]
                \/ \E i \in ops : lg[i] = Req(c, client_table'[r][c].reply)
        /\ \A m \in epilogue_list'[r] \ epilogue_list[r] :
             m.from = r /\ \E i \in ops : lg[i] = Req(m.client, m.num)
    BY <2>3, <2>4, ExecuteEffect
  <2> HIDE DEF n
  <2>6. /\ commit_number' \in [Replicas -> Nat] /\ commit_number'[r] = commit_number[r] + n
        /\ \A q \in Replicas \ {r} : commit_number'[q] = commit_number[q]
    BY <1>2, <2>3, <2>5
  <2>7. commit_number[r] <= commit_number'[r] /\ commit_number[r] + 1 .. commit_number'[r] = ops
    BY <1>3, <2>3, <2>6
  <2>8. /\ committed'[r] = done /\ \A q \in Replicas \ {r} : committed'[q] = committed[q]
        /\ committed' \in [Replicas -> SUBSET Nat]
    BY <1>2, <2>1, <2>2
  <2>9. votes >= f + 1
    BY <1>0, <1>5
  <2>10. \A i \in committed'[r] \ committed[r] :
           /\ \E x \in known : x.ui = ui /\ x.low <= i /\ i <= x.high
           /\ votes >= f + 1
    BY <2>1, <2>2, <2>8, <2>9
  <2>11. committed[r] \subseteq committed'[r]
    BY <2>8
  <2> HIDE DEF done
  <2>12. ops \subseteq committed'[r]
    BY <2>3, <2>8
  <2> QED BY <1>1, <2>3, <2>5, <2>6, <2>7, <2>8, <2>10, <2>11, <2>12, Zenon DEF CommitEffect, votes
<1> QED BY <1>4, <1>5

-----------------------------------------------------------------------------
(***************************************************************************)
(* The order: how the primary's log, its messages and batches, and the     *)
(* logs of the backups grow.                                               *)
(***************************************************************************)

OrderInv == PrimaryInv /\ UIInv /\ BackupInv

\* The types of what orders.
LEMMA OrderTypes ==
  TypeOK => /\ log \in [Replicas -> Seq(Request)] /\ request_batch \in Seq(Request)
            /\ batches \in [Replicas -> SUBSET BatchType]
            /\ sent \in [Replicas -> Seq(Message)]
            /\ next_ui \in [Replicas -> [Replicas -> Nat]]
            /\ ui_queue \in [Replicas -> [Replicas -> SUBSET Nat]]
BY DEF TypeOK, BatchType, Message

\* The primary closes a batch: the requests of its log lg behind the closed ones.
CloseStep(lg, reqs) ==
  LET ui == Len(sent[Primary]) + 1
      prepare == [type |-> "prepare", reqs |-> reqs]
  IN  /\ log' = [log EXCEPT ![Primary] = lg]
      /\ request_batch' = << >>
      /\ batches' = [batches EXCEPT ![Primary] = @ \cup {Batch(ui, (Len(lg) + 1) - Len(reqs), Len(lg))}]
      /\ sent' = [sent EXCEPT ![Primary] = Append(Append(@, prepare), Commit(ui))]
      /\ UNCHANGED uiVars

\* Closing a batch keeps the order.
LEMMA OrderClose ==
  ASSUME Group, TypeOK, OrderInv, NEW lg \in Seq(Request), NEW reqs \in Seq(Request),
         CloseStep(lg, reqs), Closed + Len(reqs) = Len(lg),
         \A i \in 1 .. Closed : lg[i] = log[Primary][i],
         \A i \in 1 .. Len(reqs) : reqs[i] = lg[Closed + i]
  PROVE  OrderInv'
<1> DEFINE pm == [type |-> "prepare", reqs |-> reqs]
<1>1. /\ log \in [Replicas -> Seq(Request)] /\ batches \in [Replicas -> SUBSET BatchType]
      /\ sent \in [Replicas -> Seq(Message)] /\ request_batch \in Seq(Request)
      /\ next_ui \in [Replicas -> [Replicas -> Nat]]
      /\ ui_queue \in [Replicas -> [Replicas -> SUBSET Nat]]
  BY OrderTypes
<1>2. Primary \in Replicas
  BY DEF Group
<1>p. PICK L \in Nat : L = Len(sent[Primary])
  BY <1>1, <1>2
<1>q. PICK C \in Nat : C = Closed
  <2>1. Len(log[Primary]) \in Nat /\ Len(request_batch) \in Nat /\ 0 <= Closed
    BY <1>1, <1>2 DEF OrderInv, PrimaryInv, PrimaryLog, PrimaryUIs, PrimaryBatches
  <2>2. Closed \in Int
    BY <2>1 DEF Closed
  <2> QED BY <2>1, <2>2
<1>3. /\ Len(lg) \in Nat /\ Len(reqs) \in Nat /\ C + Len(reqs) = Len(lg)
  BY <1>1, <1>2, <1>q
<1>b. PICK nb : nb = Batch(L + 1, (Len(lg) + 1) - Len(reqs), Len(lg))
  OBVIOUS
<1>4. nb.ui = L + 1 /\ nb.low = C + 1 /\ nb.high = Len(lg)
  <2>1. (Len(lg) + 1) - Len(reqs) = C + 1
    BY <1>3
  <2> QED BY <2>1, <1>b DEF Batch
<1>c. \A i \in 1 .. C : lg[i] = log[Primary][i]
  BY <1>q
<1>5. /\ log'[Primary] = lg /\ \A r \in Backups : log'[r] = log[r]
      /\ request_batch' = << >>
      /\ batches'[Primary] = batches[Primary] \cup {nb} /\ \A r \in Backups : batches'[r] = batches[r]
      /\ sent'[Primary] = Append(Append(sent[Primary], pm), Commit(L + 1))
      /\ \A r \in Backups : sent'[r] = sent[r]
      /\ next_ui' = next_ui /\ ui_queue' = ui_queue
  BY <1>1, <1>2, <1>p, <1>b DEF CloseStep, Backups, uiVars
<1>6. /\ DOMAIN sent'[Primary] = 1 .. L + 2 /\ DOMAIN sent[Primary] = 1 .. L /\ Len(sent'[Primary]) = L + 2
      /\ \A i \in 1 .. L : sent'[Primary][i] = sent[Primary][i]
      /\ sent'[Primary][L + 1] = pm /\ sent'[Primary][L + 2] = Commit(L + 1)
  <2>1. sent[Primary] \in Seq(Message) /\ pm \in Message /\ Commit(L + 1) \in Message
    BY <1>1, <1>2 DEF Message, Commit
  <2> DEFINE x == sent[Primary]
             y == Append(x, pm)
             cm == Commit(L + 1)
  <2>2. y \in Seq(Message) /\ Len(y) = L + 1 /\ y[L + 1] = pm /\ \A i \in 1 .. L : y[i] = x[i]
    BY <2>1, <1>p
  <2> HIDE DEF y, cm
  <2>3. /\ Append(y, cm) \in Seq(Message) /\ Len(Append(y, cm)) = L + 2 /\ Append(y, cm)[L + 2] = cm
        /\ \A i \in 1 .. L + 1 : Append(y, cm)[i] = y[i]
    BY <2>1, <2>2, <1>3 DEF cm
  <2>4. sent'[Primary] = Append(y, cm)
    BY <1>5 DEF y, cm
  <2> QED BY <2>1, <2>2, <2>3, <2>4, <1>p DEF cm
<1>7. Closed' = Len(lg)
  BY <1>3, <1>5 DEF Closed
<1>8. /\ pm.type = "prepare" /\ pm.reqs = reqs /\ Commit(L + 1).type = "commit" /\ Commit(L + 1).ui = L + 1
  BY DEF Commit
<1>9. \A ui \in Nat : /\ IsPrepare(ui)' <=> IsPrepare(ui) \/ ui = L + 1
                      /\ IsCommit(ui)' <=> IsCommit(ui) \/ ui = L + 2
  <2> SUFFICES ASSUME NEW ui \in Nat
               PROVE  /\ IsPrepare(ui)' <=> IsPrepare(ui) \/ ui = L + 1
                      /\ IsCommit(ui)' <=> IsCommit(ui) \/ ui = L + 2
    OBVIOUS
  <2>1. CASE ui \in 1 .. L
    BY SMTT(30), <2>1, <1>6 DEF IsPrepare, IsCommit
  <2>2. CASE ui = L + 1
    BY <2>2, <1>6, <1>8 DEF IsPrepare, IsCommit
  <2>3. CASE ui = L + 2
    BY <2>3, <1>6, <1>8 DEF IsPrepare, IsCommit
  <2>4. CASE ui \notin 1 .. L + 2
    BY <2>4, <1>6 DEF IsPrepare, IsCommit
  <2> QED BY <2>1, <2>2, <2>3, <2>4
<1>10. \A b \in batches[Primary] : /\ b \in BatchType /\ b.ui \in Nat /\ b.low \in Nat /\ b.high \in Nat
  BY <1>1, <1>2 DEF BatchType
<1>11. \A b \in batches[Primary] :
         /\ IsPrepare(b.ui) /\ IsBatch(b, sent[Primary][b.ui].reqs) /\ b.ui + 1 <= L /\ 1 <= b.ui
  <2> SUFFICES ASSUME NEW b \in batches[Primary]
               PROVE  IsPrepare(b.ui) /\ IsBatch(b, sent[Primary][b.ui].reqs) /\ b.ui + 1 <= L /\ 1 <= b.ui
    OBVIOUS
  <2>1. IsPrepare(b.ui) /\ IsBatch(b, sent[Primary][b.ui].reqs)
    BY DEF OrderInv, PrimaryInv, PrimaryLog, PrimaryUIs, PrimaryBatches
  <2>2. IsCommit(b.ui + 1)
    BY <2>1 DEF OrderInv, PrimaryInv, PrimaryLog, PrimaryUIs, PrimaryBatches, IsPrepare
  <2> QED BY <2>1, <2>2, <1>6, <1>10, <1>3 DEF IsPrepare, IsCommit
<1> HIDE DEF pm
<1>12. PrimaryInv'
  <2>1. 0 <= Closed' /\ Len(request_batch') = 0
    BY <1>3, <1>5, <1>7
  <2>2. Len(sent'[Primary]) # 0
    BY <1>3, <1>6
  <2>3. IsPrepare(1)'
    <3>1. CASE L = 0
      BY <3>1, <1>9
    <3>2. CASE L # 0
      <4>1. 1 \in DOMAIN sent[Primary]
        BY <3>2, <1>3, <1>6
      <4> QED BY <4>1, <1>9 DEF OrderInv, PrimaryInv, PrimaryLog, PrimaryUIs, PrimaryBatches
    <3> QED BY <3>1, <3>2
  <2>4. ASSUME NEW ui \in 1 .. L + 2, IsPrepare(ui)'
        PROVE  IsCommit(ui + 1)' /\ sent'[Primary][ui + 1].ui = ui /\ HasBatch(Primary, ui)'
    <3>1. CASE IsPrepare(ui)
      <4>1. ui \in DOMAIN sent[Primary] /\ ui \in Nat
        BY <3>1 DEF IsPrepare
      <4>2. IsCommit(ui + 1) /\ sent[Primary][ui + 1].ui = ui /\ HasBatch(Primary, ui)
        BY <3>1, <4>1 DEF OrderInv, PrimaryInv, PrimaryLog, PrimaryUIs, PrimaryBatches
      <4>3. ui + 1 \in 1 .. L /\ IsCommit(ui + 1)'
        BY <4>1, <4>2, <1>6, <1>9 DEF IsCommit
      <4> QED BY <4>2, <4>3, <1>5, <1>6 DEF HasBatch
    <3>2. CASE ui = L + 1
      BY SMTT(30), <3>2, <1>3, <1>4, <1>5, <1>6, <1>8, <1>9 DEF HasBatch
    <3> QED BY <2>4, <3>1, <3>2, <1>9
  <2>5. ASSUME NEW ui \in 1 .. L + 2, IsCommit(ui)'
        PROVE  /\ sent'[Primary][ui].ui = ui - 1 /\ IsPrepare(ui - 1)'
               /\ ui + 1 \in 1 .. L + 2 => IsPrepare(ui + 1)'
    <3>1. CASE IsCommit(ui)
      <4>1. ui \in DOMAIN sent[Primary] /\ ui \in 1 .. L
        BY <3>1, <1>6 DEF IsCommit
      <4>2. /\ sent[Primary][ui].ui = ui - 1 /\ IsPrepare(ui - 1)
            /\ ui + 1 \in DOMAIN sent[Primary] => IsPrepare(ui + 1)
        BY <3>1, <4>1 DEF OrderInv, PrimaryInv, PrimaryLog, PrimaryUIs, PrimaryBatches
      <4>3. ui - 1 \in Nat /\ ui + 1 \in Nat /\ (ui + 1 \in 1 .. L \/ ui + 1 = L + 1)
        BY <4>1, <1>3
      <4> QED BY <4>1, <4>2, <4>3, <1>6, <1>9
    <3>2. CASE ui = L + 2
      <4>1. ui - 1 = L + 1 /\ L + 1 \in Nat /\ ~(ui + 1 \in 1 .. L + 2)
        BY <3>2, <1>3
      <4> QED BY <3>2, <4>1, <1>6, <1>8, <1>9
    <3> QED BY <2>5, <3>1, <3>2, <1>9
  <2>6. ASSUME NEW b \in batches[Primary]
        PROVE  /\ IsPrepare(b.ui)' /\ IsBatch(b, sent[Primary][b.ui].reqs)'
               /\ b.ui + 1 # L + 2
               /\ \A c \in batches[Primary] \cup {nb} : /\ c.ui = b.ui => c = b
                                                        /\ c.ui = b.ui + 2 => c.low = b.high + 1
    <3>1. /\ IsPrepare(b.ui) /\ IsBatch(b, sent[Primary][b.ui].reqs) /\ b.ui + 1 <= L /\ 1 <= b.ui
          /\ b.ui \in Nat /\ b.low \in Nat /\ b.high \in Nat
      BY <1>10, <1>11
    <3>2. IsPrepare(b.ui)' /\ b.ui + 1 # L + 2 /\ sent'[Primary][b.ui] = sent[Primary][b.ui]
      BY SMTT(30), <3>1, <1>3, <1>6, <1>9
    <3>3. IsBatch(b, sent[Primary][b.ui].reqs)'
      <4> DEFINE q == sent[Primary][b.ui].reqs
      <4>1. /\ sent'[Primary][b.ui].reqs = q /\ q \in Seq(Request)
        BY <3>1, <3>2, <1>1, <1>2, MessageFields DEF IsPrepare
      <4> HIDE DEF q
      <4>2. /\ 1 <= b.low /\ b.high <= C /\ b.high + 1 = b.low + Len(q)
            /\ \A i \in 1 .. Len(q) : q[i] = log[Primary][(b.low + i) - 1]
        BY <3>1, <1>q DEF IsBatch, q
      <4>3. \A i \in 1 .. Len(q) : (b.low + i) - 1 \in 1 .. C
        <5> SUFFICES ASSUME NEW i \in 1 .. Len(q) PROVE (b.low + i) - 1 \in 1 .. C
          OBVIOUS
        <5>1. Len(q) \in Nat
          BY <4>1
        <5>2. 1 <= b.low /\ b.high <= C /\ b.high + 1 = b.low + Len(q) /\ b.low \in Nat /\ b.high \in Nat
          BY <4>2, <3>1
        <5> HIDE DEF q
        <5> QED BY SMTT(30), <5>1, <5>2
      <4>4. \A i \in 1 .. Len(q) : q[i] = lg[(b.low + i) - 1]
        BY <4>2, <4>3, <1>c
      <4>5. b.high <= Len(lg)
        BY <4>2, <3>1, <1>3
      <4> QED BY <4>1, <4>2, <4>4, <4>5, <1>5, <1>7 DEF IsBatch
    <3>4. ASSUME NEW c \in batches[Primary]
          PROVE  (c.ui = b.ui => c = b) /\ (c.ui = b.ui + 2 => c.low = b.high + 1)
      BY DEF OrderInv, PrimaryInv, PrimaryLog, PrimaryUIs, PrimaryBatches
    <3>5. nb.ui # b.ui /\ (nb.ui = b.ui + 2 => nb.low = b.high + 1)
      <4>1. b.ui + 1 = L => b.high = C
        BY <1>p, <1>q DEF OrderInv, PrimaryInv, PrimaryLog, PrimaryUIs, PrimaryBatches
      <4> QED BY SMTT(30), <4>1, <3>1, <1>3, <1>4
    <3> QED BY <3>2, <3>3, <3>4, <3>5
  <2>7. /\ IsPrepare(nb.ui)' /\ IsBatch(nb, sent[Primary][nb.ui].reqs)' /\ nb.high = Closed'
        /\ \A c \in batches[Primary] : c.ui # nb.ui /\ c.ui # nb.ui + 2
    <3>1. sent'[Primary][nb.ui].reqs = reqs
      BY <1>4, <1>6, <1>8
    <3>2. IsPrepare(nb.ui)' /\ nb.high = Closed' /\ nb.ui \in Nat /\ nb.low \in Nat /\ nb.high \in Nat
      BY <1>3, <1>4, <1>7, <1>9
    <3>3. \A i \in 1 .. Len(reqs) : reqs[i] = lg[(nb.low + i) - 1]
      <4>1. \A i \in 1 .. Len(reqs) : (nb.low + i) - 1 = Closed + i
        BY <1>3, <1>4, <1>q
      <4> QED BY <4>1
    <3>4. IsBatch(nb, reqs)'
      <4>1. 1 <= nb.low /\ nb.high <= Len(lg) /\ nb.high + 1 = nb.low + Len(reqs)
        BY <1>3, <1>4
      <4> QED BY <4>1, <3>3, <1>5, <1>7 DEF IsBatch
    <3>5. \A c \in batches[Primary] : c.ui # nb.ui /\ c.ui # nb.ui + 2
      BY <1>3, <1>4, <1>10, <1>11
    <3>6. IsBatch(nb, sent[Primary][nb.ui].reqs)'
      BY <3>1, <3>4, Zenon DEF IsBatch
    <3> QED BY <3>2, <3>5, <3>6
  <2>8. nb.ui # nb.ui + 2
    BY <1>3, <1>4
  <2>9. \A b \in batches'[Primary] :
           /\ IsPrepare(b.ui)' /\ IsBatch(b, sent[Primary][b.ui].reqs)'
           /\ b.ui + 1 = Len(sent'[Primary]) => b.high = Closed'
           /\ \A c \in batches'[Primary] : /\ c.ui = b.ui => c = b
                                           /\ c.ui = b.ui + 2 => c.low = b.high + 1
    BY <2>6, <2>7, <2>8, <1>4, <1>5, <1>6
  <2>10. \A ui \in DOMAIN sent'[Primary] :
           /\ IsPrepare(ui)' => IsCommit(ui + 1)' /\ sent'[Primary][ui + 1].ui = ui /\ HasBatch(Primary, ui)'
           /\ IsCommit(ui)' => /\ sent'[Primary][ui].ui = ui - 1 /\ IsPrepare(ui - 1)'
                               /\ ui + 1 \in DOMAIN sent'[Primary] => IsPrepare(ui + 1)'
    BY <2>4, <2>5, <1>6
  <2>11. \A i \in 1 .. Len(request_batch') : request_batch'[i] = log'[Primary][Closed' + i]
    BY <2>1
  <2>12. PrimaryLog'
    BY <2>1, <2>2, <2>3, <2>11 DEF PrimaryLog
  <2>13. PrimaryUIs'
    BY <2>10 DEF PrimaryUIs
  <2>14. PrimaryBatches'
    BY <2>9 DEF PrimaryBatches
  <2> QED BY <2>12, <2>13, <2>14 DEF PrimaryInv
<1>13. UIInv'
  <2> SUFFICES ASSUME NEW r \in Replicas, NEW s \in Replicas
               PROVE  /\ 1 <= next_ui[r][s] /\ next_ui[r][s] <= Len(sent'[s]) + 1
                      /\ ui_queue[r][s] \subseteq DOMAIN sent'[s]
                      /\ ui_queue[r][r] = {}
                      /\ s # Primary => \A ui \in DOMAIN sent'[s] : sent'[s][ui].type = "commit"
    BY <1>5 DEF UIInv
  <2>1. /\ 1 <= next_ui[r][s] /\ next_ui[r][s] <= Len(sent[s]) + 1 /\ next_ui[r][s] \in Nat
        /\ ui_queue[r][s] \subseteq DOMAIN sent[s]
        /\ ui_queue[r][r] = {}
        /\ s # Primary => \A ui \in DOMAIN sent[s] : sent[s][ui].type = "commit"
    BY <1>1 DEF OrderInv, UIInv
  <2>2. CASE s # Primary
    BY <2>1, <2>2, <1>5 DEF Backups
  <2>3. CASE s = Primary
    BY <2>1, <2>3, <1>3, <1>6
  <2> QED BY <2>2, <2>3
<1>14. BackupInv'
  <2> SUFFICES ASSUME NEW r \in Backups
               PROVE  LET n == next_ui[r][Primary] IN
                      /\ Len(log[r]) <= Len(lg)
                      /\ \A i \in 1 .. Len(log[r]) : log[r][i] = lg[i]
                      /\ ~(n >= L + 2)
                      /\ batches[r] = {b \in batches[Primary] \cup {nb} : b.ui < n}
                      /\ \A b \in batches[r] : b.high <= Len(log[r])
                      /\ \A b \in batches[Primary] \cup {nb} : b.ui \in {n, n + 1} => b.low = Len(log[r]) + 1
    <3>1. /\ \A r \in Backups : log'[r] = log[r] /\ batches'[r] = batches[r]
          /\ log'[Primary] = lg /\ Len(sent'[Primary]) = L + 2 /\ Closed' = Len(lg)
          /\ batches'[Primary] = batches[Primary] \cup {nb} /\ next_ui' = next_ui
      BY <1>5, <1>6, <1>7
    <3> QED BY SMTT(30), <1>5, <3>1 DEF BackupInv
  <2> DEFINE n == next_ui[r][Primary]
  <2>1. r \in Replicas /\ Len(log[r]) \in Nat /\ n \in Nat
    BY <1>1, <1>2 DEF Backups
  <2>2. n <= L + 1
    BY <2>1, <1>2, <1>p DEF OrderInv, UIInv
  <2>3. /\ Len(log[r]) <= C
        /\ \A i \in 1 .. Len(log[r]) : log[r][i] = log[Primary][i]
        /\ n >= L => Len(log[r]) = C
        /\ batches[r] = {b \in batches[Primary] : b.ui < n}
        /\ \A b \in batches[r] : b.high <= Len(log[r])
        /\ \A b \in batches[Primary] : b.ui \in {n, n + 1} => b.low = Len(log[r]) + 1
    BY <1>p, <1>q DEF OrderInv, BackupInv
  <2> HIDE DEF n
  <2>4. Len(log[r]) <= Len(lg) /\ 1 .. Len(log[r]) \subseteq 1 .. C
    BY <2>1, <2>3, <1>3
  <2>5. ~(nb.ui < n) /\ (nb.ui \in {n, n + 1} => nb.low = Len(log[r]) + 1) /\ ~(n >= L + 2)
    BY <2>1, <2>2, <2>3, <1>3, <1>4
  <2>6. \A i \in 1 .. Len(log[r]) : log[r][i] = lg[i]
    BY <2>3, <2>4, <1>c
  <2>7. batches[r] = {b \in batches[Primary] \cup {nb} : b.ui < n}
    BY <2>3, <2>5
  <2> QED BY <2>3, <2>4, <2>5, <2>6, <2>7 DEF n
<1> QED BY <1>12, <1>13, <1>14 DEF OrderInv

\* The primary logs a request that waits for its batch to be closed.
AppendStep(req) ==
  /\ log' = [log EXCEPT ![Primary] = Append(@, req)]
  /\ request_batch' = Append(request_batch, req)
  /\ UNCHANGED <<sent, batches, uiVars>>

\* Logging a request that waits for its batch keeps the order.
LEMMA OrderAppend ==
  ASSUME Group, TypeOK, OrderInv, NEW req \in Request, AppendStep(req)
  PROVE  OrderInv'
<1>1. /\ log \in [Replicas -> Seq(Request)] /\ request_batch \in Seq(Request)
      /\ Primary \in Replicas
  BY OrderTypes DEF Group
<1>p. PICK n \in Nat : n = Len(log[Primary])
  BY <1>1
<1>q. PICK k \in Nat : k = Len(request_batch)
  BY <1>1
<1>2. /\ log'[Primary] = Append(log[Primary], req) /\ \A r \in Backups : log'[r] = log[r]
      /\ Len(log'[Primary]) = n + 1 /\ log'[Primary][n + 1] = req
      /\ \A i \in 1 .. n : log'[Primary][i] = log[Primary][i]
  <2>1. log'[Primary] = Append(log[Primary], req) /\ \A r \in Backups : log'[r] = log[r]
    BY <1>1 DEF AppendStep, Backups
  <2>2. log[Primary] \in Seq(Request)
    BY <1>1
  <2> QED BY <2>1, <2>2, <1>p
<1>3. /\ Len(request_batch') = k + 1 /\ request_batch'[k + 1] = req
      /\ \A i \in 1 .. k : request_batch'[i] = request_batch[i]
  BY <1>1, <1>q DEF AppendStep
<1>4. sent' = sent /\ batches' = batches /\ next_ui' = next_ui /\ ui_queue' = ui_queue
  BY DEF AppendStep, uiVars
<1>5. Closed' = Closed /\ Closed = n - k /\ 0 <= Closed /\ Closed \in Nat
  <2>1. Closed' = (n + 1) - (k + 1) /\ Closed = n - k
    BY <1>2, <1>3, <1>p, <1>q DEF Closed
  <2>2. 0 <= Closed
    BY DEF OrderInv, PrimaryInv, PrimaryLog
  <2> QED BY <2>1, <2>2
<1>6. \A i \in 1 .. Closed : i \in 1 .. n /\ log'[Primary][i] = log[Primary][i]
  BY <1>2, <1>5
<1>7. PrimaryLog'
  <2>1. \A i \in 1 .. k + 1 : request_batch'[i] = log'[Primary][Closed + i]
    <3> SUFFICES ASSUME NEW i \in 1 .. k + 1 PROVE request_batch'[i] = log'[Primary][Closed + i]
      OBVIOUS
    <3>1. CASE i = k + 1
      <4>1. Closed + i = n + 1
        BY <3>1, <1>5
      <4> QED BY <4>1, <3>1, <1>2, <1>3
    <3>2. CASE i \in 1 .. k
      <4>1. Closed + i \in 1 .. n
        BY <3>2, <1>5
      <4>2. request_batch[i] = log[Primary][Closed + i]
        BY <3>2, <1>q DEF OrderInv, PrimaryInv, PrimaryLog
      <4> QED BY <4>1, <4>2, <3>2, <1>2, <1>3
    <3> QED BY <3>1, <3>2
  <2> QED BY <2>1, <1>3, <1>4, <1>5 DEF OrderInv, PrimaryInv, PrimaryLog, IsPrepare
<1>8. PrimaryUIs'
  BY <1>4 DEF OrderInv, PrimaryInv, PrimaryUIs, IsPrepare, IsCommit, HasBatch
<1>9. PrimaryBatches'
  <2>1. ASSUME NEW b \in batches[Primary] PROVE IsBatch(b, sent[Primary][b.ui].reqs)'
    <3> DEFINE q == sent[Primary][b.ui].reqs
    <3>1. IsPrepare(b.ui) /\ IsBatch(b, q)
      BY DEF OrderInv, PrimaryInv, PrimaryBatches
    <3>2. q \in Seq(Request) /\ b.low \in Nat /\ b.high \in Nat
      BY <3>1, <1>1, OrderTypes, MessageFields DEF IsPrepare, BatchType
    <3>3. sent'[Primary][b.ui].reqs = q
      BY <1>4
    <3> HIDE DEF q
    <3>4. /\ 1 <= b.low /\ b.high <= Closed /\ b.high + 1 = b.low + Len(q)
          /\ \A i \in 1 .. Len(q) : q[i] = log[Primary][(b.low + i) - 1]
      BY <3>1 DEF IsBatch
    <3>5. \A i \in 1 .. Len(q) : (b.low + i) - 1 \in 1 .. Closed
      <4>1. Len(q) \in Nat /\ 1 <= b.low /\ b.high <= Closed /\ b.high + 1 = b.low + Len(q)
        BY <3>2, <3>4
      <4> QED BY <4>1, <3>2, <1>5
    <3>6. \A i \in 1 .. Len(q) : q[i] = log'[Primary][(b.low + i) - 1]
      BY <3>4, <3>5, <1>6
    <3> QED BY <3>3, <3>4, <3>6, <1>5 DEF IsBatch
  <2> QED BY <2>1, <1>4, <1>5 DEF OrderInv, PrimaryInv, PrimaryBatches, IsPrepare
<1>10. UIInv'
  BY <1>4 DEF OrderInv, UIInv
<1>11. BackupInv'
  <2>1. ASSUME NEW r \in Backups
        PROVE  \A i \in 1 .. Len(log[r]) : log[r][i] = log'[Primary][i]
    <3>1. Len(log[r]) \in Nat /\ Len(log[r]) <= Closed /\ \A i \in 1 .. Len(log[r]) : log[r][i] = log[Primary][i]
      BY <1>1 DEF OrderInv, BackupInv, Backups
    <3>2. 1 .. Len(log[r]) \subseteq 1 .. Closed
      BY <3>1, <1>5
    <3> QED BY <3>1, <3>2, <1>6
  <2>2. ASSUME NEW r \in Backups
        PROVE  LET next == next_ui[r][Primary] IN
               /\ Len(log[r]) <= Closed
               /\ next >= Len(sent[Primary]) => Len(log[r]) = Closed
               /\ batches[r] = {b \in batches[Primary] : b.ui < next}
               /\ \A b \in batches[r] : b.high <= Len(log[r])
               /\ \A b \in batches[Primary] : b.ui \in {next, next + 1} => b.low = Len(log[r]) + 1
    BY DEF OrderInv, BackupInv
  <2>3. \A r \in Backups : log'[r] = log[r]
    BY <1>2
  <2> QED BY <2>1, <2>2, <2>3, <1>4, <1>5 DEF BackupInv
<1> QED BY <1>7, <1>8, <1>9, <1>10, <1>11 DEF OrderInv, PrimaryInv

\* A receiver gets on to the next UI of a sender; the message may have waited.
NextUI(r, s) ==
  /\ next_ui' = [next_ui EXCEPT ![r][s] = @ + 1]
  /\ \/ ui_queue' = ui_queue
     \/ ui_queue' = [ui_queue EXCEPT ![r][s] = @ \ {next_ui[r][s]}]

\* Only the position and the queue of one sender change.
LEMMA NextUIEffect ==
  ASSUME TypeOK, NEW r \in Replicas, NEW s \in Replicas, NextUI(r, s)
  PROVE  /\ next_ui' \in [Replicas -> [Replicas -> Nat]] /\ ui_queue' \in [Replicas -> [Replicas -> SUBSET Nat]]
         /\ next_ui'[r][s] = next_ui[r][s] + 1
         /\ \A q, t \in Replicas : <<q, t>> # <<r, s>> => next_ui'[q][t] = next_ui[q][t]
         /\ \A q, t \in Replicas : /\ ui_queue'[q][t] \subseteq ui_queue[q][t]
                                   /\ <<q, t>> # <<r, s>> => ui_queue'[q][t] = ui_queue[q][t]
         /\ ui_queue' = ui_queue \/ ui_queue'[r][s] = ui_queue[r][s] \ {next_ui[r][s]}
<1>1. next_ui \in [Replicas -> [Replicas -> Nat]] /\ ui_queue \in [Replicas -> [Replicas -> SUBSET Nat]]
  BY OrderTypes
<1>2. next_ui' = [next_ui EXCEPT ![r] = [next_ui[r] EXCEPT ![s] = next_ui[r][s] + 1]]
  BY DEF NextUI
<1>3. /\ next_ui' \in [Replicas -> [Replicas -> Nat]]
      /\ next_ui'[r][s] = next_ui[r][s] + 1
      /\ \A q, t \in Replicas : <<q, t>> # <<r, s>> => next_ui'[q][t] = next_ui[q][t]
  BY <1>1, <1>2
<1>4. CASE ui_queue' = ui_queue
  BY <1>1, <1>3, <1>4
<1>5. CASE ui_queue' = [ui_queue EXCEPT ![r] = [ui_queue[r] EXCEPT ![s] = ui_queue[r][s] \ {next_ui[r][s]}]]
  <2>1. /\ ui_queue' \in [Replicas -> [Replicas -> SUBSET Nat]]
        /\ ui_queue'[r][s] = ui_queue[r][s] \ {next_ui[r][s]}
        /\ \A q, t \in Replicas : <<q, t>> # <<r, s>> => ui_queue'[q][t] = ui_queue[q][t]
    BY <1>1, <1>5
  <2> QED BY <2>1, <1>3
<1> QED BY <1>4, <1>5 DEF NextUI

\* A receiver handles a COMMIT.
SkipStep(r, s) ==
  /\ next_ui[r][s] \in DOMAIN sent[s] /\ sent[s][next_ui[r][s]].type = "commit"
  /\ NextUI(r, s)
  /\ UNCHANGED <<log, request_batch, sent, batches>>

\* Passing a COMMIT keeps the order.
LEMMA OrderSkip ==
  ASSUME Group, TypeOK, OrderInv, NEW r \in Replicas, NEW s \in Replicas, SkipStep(r, s)
  PROVE  OrderInv'
<1>1. /\ next_ui \in [Replicas -> [Replicas -> Nat]] /\ sent \in [Replicas -> Seq(Message)]
      /\ Primary \in Replicas /\ batches \in [Replicas -> SUBSET BatchType]
  BY OrderTypes DEF Group
<1>2. log' = log /\ request_batch' = request_batch /\ sent' = sent /\ batches' = batches
  BY DEF SkipStep
<1>3. /\ next_ui'[r][s] = next_ui[r][s] + 1
      /\ \A q, t \in Replicas : <<q, t>> # <<r, s>> => next_ui'[q][t] = next_ui[q][t]
      /\ \A q, t \in Replicas : ui_queue'[q][t] \subseteq ui_queue[q][t]
  BY NextUIEffect DEF SkipStep
<1>4. PrimaryInv'
  <2>1. Closed' = Closed
    BY <1>2 DEF Closed
  <2>2. PrimaryLog'
    BY <2>1, <1>2 DEF OrderInv, PrimaryInv, PrimaryLog, IsPrepare
  <2>3. PrimaryUIs'
    BY <1>2 DEF OrderInv, PrimaryInv, PrimaryUIs, IsPrepare, IsCommit, HasBatch
  <2>4. PrimaryBatches'
    BY <2>1, <1>2 DEF OrderInv, PrimaryInv, PrimaryBatches, IsPrepare, IsBatch
  <2> QED BY <2>2, <2>3, <2>4 DEF PrimaryInv
<1>5. UIInv'
  <2> SUFFICES ASSUME NEW q \in Replicas, NEW t \in Replicas
               PROVE  /\ 1 <= next_ui'[q][t] /\ next_ui'[q][t] <= Len(sent[t]) + 1
                      /\ ui_queue'[q][t] \subseteq DOMAIN sent[t]
                      /\ ui_queue'[q][q] = {}
                      /\ t # Primary => \A ui \in DOMAIN sent[t] : sent[t][ui].type = "commit"
    BY <1>2 DEF UIInv
  <2>1. /\ 1 <= next_ui[q][t] /\ next_ui[q][t] <= Len(sent[t]) + 1
        /\ ui_queue[q][t] \subseteq DOMAIN sent[t]
        /\ ui_queue[q][q] = {}
        /\ t # Primary => \A ui \in DOMAIN sent[t] : sent[t][ui].type = "commit"
    BY DEF OrderInv, UIInv
  <2>2. sent[t] \in Seq(Message) /\ next_ui[q][t] \in Nat
    BY <1>1
  <2>3. ui_queue'[q][t] \subseteq DOMAIN sent[t] /\ ui_queue'[q][q] = {}
    BY <2>1, <1>3
  <2>4. CASE <<q, t>> = <<r, s>>
    <3>1. next_ui[q][t] \in DOMAIN sent[t] /\ next_ui'[q][t] = next_ui[q][t] + 1
      BY <2>4, <1>3 DEF SkipStep
    <3> QED BY <3>1, <2>1, <2>2, <2>3
  <2>5. CASE <<q, t>> # <<r, s>>
    BY <2>1, <2>3, <2>5, <1>3
  <2> QED BY <2>4, <2>5
<1>6. BackupInv'
  <2> SUFFICES ASSUME NEW q \in Backups
               PROVE  LET n == next_ui'[q][Primary] IN
                      /\ Len(log[q]) <= Closed
                      /\ \A i \in 1 .. Len(log[q]) : log[q][i] = log[Primary][i]
                      /\ n >= Len(sent[Primary]) => Len(log[q]) = Closed
                      /\ batches[q] = {b \in batches[Primary] : b.ui < n}
                      /\ \A b \in batches[q] : b.high <= Len(log[q])
                      /\ \A b \in batches[Primary] : b.ui \in {n, n + 1} => b.low = Len(log[q]) + 1
    BY <1>2 DEF BackupInv, Closed
  <2> DEFINE n == next_ui[q][Primary]
             m == next_ui'[q][Primary]
  <2>1. /\ Len(log[q]) <= Closed
        /\ \A i \in 1 .. Len(log[q]) : log[q][i] = log[Primary][i]
        /\ n >= Len(sent[Primary]) => Len(log[q]) = Closed
        /\ batches[q] = {b \in batches[Primary] : b.ui < n}
        /\ \A b \in batches[q] : b.high <= Len(log[q])
        /\ \A b \in batches[Primary] : b.ui \in {n, n + 1} => b.low = Len(log[q]) + 1
    BY DEF OrderInv, BackupInv
  <2>2. q \in Replicas /\ n \in Nat
    BY <1>1 DEF Backups
  <2>3. CASE q # r \/ s # Primary
    <3>1. m = n
      BY <2>2, <2>3, <1>1, <1>3
    <3> QED BY <2>1, <3>1
  <2>4. CASE q = r /\ s = Primary
    <3>1. m = n + 1 /\ IsCommit(n) /\ n \in DOMAIN sent[Primary]
      BY <2>4, <1>3 DEF SkipStep, IsCommit
    <3>2. n + 1 \in DOMAIN sent[Primary] => IsPrepare(n + 1)
      BY <3>1 DEF OrderInv, PrimaryInv, PrimaryUIs
    <3>3. \A b \in batches[Primary] : b.ui \in Nat /\ b.ui # n /\ b.ui # n + 2
      <4> SUFFICES ASSUME NEW b \in batches[Primary] PROVE b.ui \in Nat /\ b.ui # n /\ b.ui # n + 2
        OBVIOUS
      <4>1. IsPrepare(b.ui) /\ b.ui \in Nat
        BY <1>1 DEF OrderInv, PrimaryInv, PrimaryBatches, BatchType
      <4>2. b.ui # n
        BY <4>1, <3>1 DEF IsPrepare, IsCommit
      <4>3. ASSUME b.ui = n + 2 PROVE FALSE
        <5>1. n + 2 \in DOMAIN sent[Primary] /\ sent[Primary] \in Seq(Message)
          BY <4>1, <4>3, <1>1 DEF IsPrepare
        <5>2. n + 1 \in DOMAIN sent[Primary]
          BY <5>1, <2>2
        <5>3. IsPrepare(n + 1)
          BY <5>2, <3>2
        <5>4. IsCommit((n + 1) + 1)
          BY <5>2, <5>3 DEF OrderInv, PrimaryInv, PrimaryUIs
        <5>5. (n + 1) + 1 = n + 2
          BY <2>2
        <5> QED BY <5>4, <5>5, <4>1, <4>3 DEF IsPrepare, IsCommit
      <4> QED BY <4>1, <4>2, <4>3
    <3>4. m >= Len(sent[Primary]) => n >= Len(sent[Primary])
      <4> SUFFICES ASSUME n + 1 >= Len(sent[Primary]), ~(n >= Len(sent[Primary])) PROVE FALSE
        BY <3>1
      <4>1. sent[Primary] \in Seq(Message)
        BY <1>1
      <4>2. n + 1 \in DOMAIN sent[Primary] /\ n + 1 = Len(sent[Primary])
        BY <4>1, <2>2
      <4>3. IsPrepare(n + 1)
        BY <4>2, <3>2
      <4>4. IsCommit((n + 1) + 1)
        BY <4>2, <4>3 DEF OrderInv, PrimaryInv, PrimaryUIs
      <4> QED BY <4>1, <4>2, <4>4, <2>2 DEF IsCommit
    <3> HIDE DEF m, n
    <3>5. batches[q] = {b \in batches[Primary] : b.ui < m}
      <4>1. \A b \in batches[Primary] : b.ui < m <=> b.ui < n
        BY <3>1, <3>3, <2>2
      <4> QED BY <4>1, <2>1
    <3>6. \A b \in batches[Primary] : b.ui \in {m, m + 1} => b.low = Len(log[q]) + 1
      <4>1. \A b \in batches[Primary] : b.ui \in {m, m + 1} => b.ui \in {n, n + 1}
        BY <3>1, <3>3, <2>2
      <4> QED BY <4>1, <2>1
    <3> QED BY <3>4, <3>5, <3>6, <2>1 DEF m
  <2> QED BY <2>3, <2>4
<1> QED BY <1>4, <1>5, <1>6 DEF OrderInv

\* A backup handles a PREPARE: it appends the batch, and sends a COMMIT.
PrepareStep(r) ==
  LET ui == next_ui[r][Primary]
      reqs == sent[Primary][ui].reqs
      lg == log[r] \o reqs
  IN  /\ IsPrepare(ui)
      /\ log' = [log EXCEPT ![r] = lg]
      /\ batches' = [batches EXCEPT ![r] = @ \cup {Batch(ui, Len(log[r]) + 1, Len(lg))}]
      /\ sent' = [sent EXCEPT ![r] = Append(@, Commit(ui))]
      /\ NextUI(r, Primary)
      /\ UNCHANGED request_batch

\* The batch it appends is the primary's.
LEMMA PrepareIsNext ==
  ASSUME Group, TypeOK, OrderInv, NEW r \in Backups, NEW ui \in Nat, ui = next_ui[r][Primary], IsPrepare(ui)
  PROVE  \E b \in batches[Primary] :
           LET reqs == sent[Primary][ui].reqs IN
           /\ reqs \in Seq(Request) /\ b \in BatchType
           /\ b.ui = ui /\ b.low = Len(log[r]) + 1 /\ b.high = Len(log[r]) + Len(reqs) /\ b.high <= Closed
           /\ b = Batch(ui, Len(log[r]) + 1, Len(log[r] \o reqs))
           /\ \A i \in 1 .. Len(reqs) : reqs[i] = log[Primary][Len(log[r]) + i]
<1> DEFINE reqs == sent[Primary][ui].reqs
<1>1. /\ sent \in [Replicas -> Seq(Message)] /\ batches \in [Replicas -> SUBSET BatchType]
      /\ log \in [Replicas -> Seq(Request)] /\ Primary \in Replicas /\ r \in Replicas
  BY OrderTypes DEF Group, Backups
<1>2. reqs \in Seq(Request)
  <2>1. sent[Primary][ui] \in Message /\ sent[Primary][ui].type = "prepare"
    BY <1>1 DEF IsPrepare
  <2> QED BY <2>1, MessageFields
<1>3. PICK b \in batches[Primary] : b.ui = ui
  BY DEF OrderInv, PrimaryInv, PrimaryUIs, IsPrepare, HasBatch
<1>4. b \in BatchType /\ b.ui \in Nat /\ b.low \in Nat /\ b.high \in Nat
  BY <1>1, <1>3 DEF BatchType
<1>5. b.low = Len(log[r]) + 1
  BY <1>3 DEF OrderInv, BackupInv
<1>6. IsBatch(b, reqs)
  BY <1>3 DEF OrderInv, PrimaryInv, PrimaryBatches
<1> HIDE DEF reqs
<1>7. b.high + 1 = b.low + Len(reqs) /\ b.high <= Closed
      /\ \A i \in 1 .. Len(reqs) : reqs[i] = log[Primary][(b.low + i) - 1]
  BY <1>6 DEF IsBatch
<1>8. Len(reqs) \in Nat /\ Len(log[r]) \in Nat
  BY <1>1, <1>2
<1>9. b.high = Len(log[r]) + Len(reqs)
  <2>1. PICK k \in Nat, n \in Nat : k = Len(reqs) /\ n = Len(log[r])
    BY <1>8
  <2>2. PICK h \in Nat, l \in Nat : h = b.high /\ l = b.low
    BY <1>4
  <2>3. h + 1 = l + k /\ l = n + 1
    BY <1>5, <1>7, <2>1, <2>2, Zenon
  <2>4. h = n + k
    BY <2>3
  <2> QED BY <2>1, <2>2, <2>4, Zenon
<1>10. \A i \in 1 .. Len(reqs) : reqs[i] = log[Primary][Len(log[r]) + i]
  <2>1. \A i \in 1 .. Len(reqs) : (b.low + i) - 1 = Len(log[r]) + i
    BY <1>5, <1>8
  <2> QED BY <2>1, <1>7
<1>11. b = Batch(ui, Len(log[r]) + 1, Len(log[r] \o reqs))
  <2>1. Len(log[r] \o reqs) = Len(log[r]) + Len(reqs)
    BY <1>1, <1>2, ConcatLength
  <2>2. b = [ui |-> b.ui, low |-> b.low, high |-> b.high]
    BY <1>4 DEF BatchType
  <2> QED BY <2>1, <2>2, <1>3, <1>5, <1>9 DEF Batch
<1> QED BY <1>2, <1>3, <1>4, <1>5, <1>7, <1>9, <1>10, <1>11 DEF reqs

\* Handling a PREPARE keeps the order.
LEMMA OrderPrepare ==
  ASSUME Group, TypeOK, OrderInv, NEW r \in Backups, PrepareStep(r)
  PROVE  OrderInv'
<1>1. /\ next_ui \in [Replicas -> [Replicas -> Nat]] /\ sent \in [Replicas -> Seq(Message)]
      /\ Primary \in Replicas /\ batches \in [Replicas -> SUBSET BatchType]
      /\ log \in [Replicas -> Seq(Request)] /\ r \in Replicas /\ r # Primary
  BY OrderTypes DEF Group, Backups
<1>u. PICK ui \in Nat : ui = next_ui[r][Primary]
  BY <1>1
<1>q. PICK reqs : reqs = sent[Primary][ui].reqs
  OBVIOUS
<1>2. IsPrepare(ui)
  BY <1>u DEF PrepareStep
<1>3. PICK nb \in batches[Primary] :
        /\ reqs \in Seq(Request) /\ nb \in BatchType
        /\ nb.ui = ui /\ nb.low = Len(log[r]) + 1 /\ nb.high = Len(log[r]) + Len(reqs) /\ nb.high <= Closed
        /\ nb = Batch(ui, Len(log[r]) + 1, Len(log[r] \o reqs))
        /\ \A i \in 1 .. Len(reqs) : reqs[i] = log[Primary][Len(log[r]) + i]
  <2>1. \E b \in batches[Primary] :
           LET reqs1 == sent[Primary][ui].reqs IN
           /\ reqs1 \in Seq(Request) /\ b \in BatchType
           /\ b.ui = ui /\ b.low = Len(log[r]) + 1 /\ b.high = Len(log[r]) + Len(reqs1) /\ b.high <= Closed
           /\ b = Batch(ui, Len(log[r]) + 1, Len(log[r] \o reqs1))
           /\ \A i \in 1 .. Len(reqs1) : reqs1[i] = log[Primary][Len(log[r]) + i]
    BY <1>u, <1>2, PrepareIsNext
  <2> QED BY <2>1, <1>q, Zenon
<1>n. PICK n \in Nat : n = Len(log[r])
  BY <1>1
<1>4. /\ log' = [log EXCEPT ![r] = log[r] \o reqs]
      /\ batches' = [batches EXCEPT ![r] = @ \cup {nb}]
      /\ sent' = [sent EXCEPT ![r] = Append(@, Commit(ui))]
      /\ NextUI(r, Primary)
      /\ request_batch' = request_batch
  BY <1>u, <1>q, <1>3 DEF PrepareStep
<1>5. /\ log'[r] = log[r] \o reqs /\ \A s \in Replicas \ {r} : log'[s] = log[s]
      /\ batches'[r] = batches[r] \cup {nb} /\ \A s \in Replicas \ {r} : batches'[s] = batches[s]
      /\ sent'[r] = Append(sent[r], Commit(ui)) /\ \A s \in Replicas \ {r} : sent'[s] = sent[s]
  BY <1>1, <1>4
<1>6. /\ next_ui'[r][Primary] = ui + 1
      /\ \A q, t \in Replicas : <<q, t>> # <<r, Primary>> => next_ui'[q][t] = next_ui[q][t]
      /\ \A q, t \in Replicas : ui_queue'[q][t] \subseteq ui_queue[q][t]
  BY <1>1, <1>4, <1>u, NextUIEffect
<1>7. /\ log'[Primary] = log[Primary] /\ batches'[Primary] = batches[Primary] /\ sent'[Primary] = sent[Primary]
      /\ Closed' = Closed
  BY <1>1, <1>4, <1>5 DEF Closed
<1>8. PrimaryInv'
  <2>2. PrimaryLog'
    BY <1>4, <1>7 DEF OrderInv, PrimaryInv, PrimaryLog, IsPrepare
  <2>3. PrimaryUIs'
    BY <1>7 DEF OrderInv, PrimaryInv, PrimaryUIs, IsPrepare, IsCommit, HasBatch
  <2>4. PrimaryBatches'
    BY <1>7 DEF OrderInv, PrimaryInv, PrimaryBatches, IsPrepare, IsBatch
  <2> QED BY <2>2, <2>3, <2>4 DEF PrimaryInv
<1>9. UIInv'
  <2> SUFFICES ASSUME NEW q \in Replicas, NEW t \in Replicas
               PROVE  /\ 1 <= next_ui'[q][t] /\ next_ui'[q][t] <= Len(sent'[t]) + 1
                      /\ ui_queue'[q][t] \subseteq DOMAIN sent'[t]
                      /\ ui_queue'[q][q] = {}
                      /\ t # Primary => \A u \in DOMAIN sent'[t] : sent'[t][u].type = "commit"
    BY DEF UIInv
  <2>1. /\ 1 <= next_ui[q][t] /\ next_ui[q][t] <= Len(sent[t]) + 1
        /\ ui_queue[q][t] \subseteq DOMAIN sent[t]
        /\ ui_queue[q][q] = {}
        /\ t # Primary => \A u \in DOMAIN sent[t] : sent[t][u].type = "commit"
    BY DEF OrderInv, UIInv
  <2>2. sent[t] \in Seq(Message) /\ next_ui[q][t] \in Nat
    BY <1>1
  <2>3. /\ Len(sent[t]) <= Len(sent'[t]) /\ Len(sent'[t]) \in Nat /\ DOMAIN sent[t] \subseteq DOMAIN sent'[t]
        /\ t # Primary => \A u \in DOMAIN sent'[t] : sent'[t][u].type = "commit"
    <3>1. CASE t = r
      <4>1. Commit(ui) \in Message /\ Commit(ui).type = "commit"
        BY DEF Commit, Message
      <4>2. sent'[t] = Append(sent[t], Commit(ui))
        BY <3>1, <1>5
      <4>3. PICK m : m = Commit(ui)
        OBVIOUS
      <4>4. /\ Len(sent'[t]) = Len(sent[t]) + 1 /\ Len(sent[t]) \in Nat
            /\ DOMAIN sent'[t] = 1 .. Len(sent[t]) + 1 /\ DOMAIN sent[t] = 1 .. Len(sent[t])
            /\ \A u \in DOMAIN sent[t] : sent'[t][u] = sent[t][u]
            /\ sent'[t][Len(sent[t]) + 1] = m
        BY <4>1, <4>2, <4>3, <2>2
      <4>5. \A u \in DOMAIN sent'[t] : u \in DOMAIN sent[t] \/ u = Len(sent[t]) + 1
        BY <4>4
      <4>6. \A u \in DOMAIN sent'[t] : sent'[t][u].type = "commit"
        <5>1. \A u \in DOMAIN sent[t] : sent[t][u].type = "commit"
          BY <2>1, <3>1, <1>1
        <5> QED BY <5>1, <4>1, <4>3, <4>4, <4>5
      <4> QED BY <4>4, <4>6
    <3>2. CASE t # r
      BY <3>2, <2>1, <2>2, <1>5
    <3> QED BY <3>1, <3>2
  <2>4. ui_queue'[q][t] \subseteq DOMAIN sent'[t] /\ ui_queue'[q][q] = {}
    BY <2>1, <2>3, <1>6
  <2>5. CASE <<q, t>> = <<r, Primary>>
    <3>1. next_ui'[q][t] = ui + 1 /\ ui \in DOMAIN sent[t] /\ sent'[t] = sent[t]
      BY <2>5, <1>2, <1>6, <1>7 DEF IsPrepare
    <3> QED BY <3>1, <2>2, <2>3, <2>4
  <2>6. CASE <<q, t>> # <<r, Primary>>
    <3>1. next_ui'[q][t] = next_ui[q][t]
      BY <2>6, <1>6
    <3> QED BY <3>1, <2>1, <2>2, <2>3, <2>4
  <2> QED BY <2>5, <2>6
<1>10. BackupInv'
  <2> DEFINE Has(q, lg, m, known) ==
               /\ Len(lg) <= Closed
               /\ \A i \in 1 .. Len(lg) : lg[i] = log[Primary][i]
               /\ m >= Len(sent[Primary]) => Len(lg) = Closed
               /\ known = {b \in batches[Primary] : b.ui < m}
               /\ \A b \in known : b.high <= Len(lg)
               /\ \A b \in batches[Primary] : b.ui \in {m, m + 1} => b.low = Len(lg) + 1
  <2>1. \A q \in Backups : Has(q, log[q], next_ui[q][Primary], batches[q])
    BY DEF OrderInv, BackupInv
  <2>2. ASSUME NEW q \in Backups, q # r PROVE Has(q, log'[q], next_ui'[q][Primary], batches'[q])
    <3>1. log'[q] = log[q] /\ next_ui'[q][Primary] = next_ui[q][Primary] /\ batches'[q] = batches[q]
      BY <2>2, <1>1, <1>5, <1>6 DEF Backups
    <3> QED BY <3>1, <2>1
  <2>3. Has(r, log'[r], ui + 1, batches'[r])
    <3>1. /\ n <= Closed /\ \A i \in 1 .. n : log[r][i] = log[Primary][i]
          /\ batches[r] = {b \in batches[Primary] : b.ui < ui}
          /\ \A b \in batches[r] : b.high <= n
      BY <2>1, <1>n, <1>u
    <3> HIDE DEF Has
    <3>2. /\ log'[r] \in Seq(Request) /\ Len(log'[r]) = n + Len(reqs) /\ Len(reqs) \in Nat
          /\ \A i \in 1 .. n : log'[r][i] = log[r][i]
          /\ \A i \in 1 .. Len(reqs) : log'[r][n + i] = reqs[i]
      <4>1. log[r] \in Seq(Request) /\ reqs \in Seq(Request) /\ log'[r] = log[r] \o reqs
        BY <1>1, <1>3, <1>5
      <4> QED BY <4>1, <1>n
    <3>3. Len(log'[r]) = nb.high /\ nb.high <= Closed /\ nb.high \in Nat
      BY <3>2, <1>3, <1>n DEF BatchType
    <3>4. ASSUME NEW i \in 1 .. n + Len(reqs) PROVE log'[r][i] = log[Primary][i]
      <4>1. CASE i \in 1 .. n
        BY <4>1, <3>1, <3>2
      <4>2. CASE i \notin 1 .. n
        <5>1. i - n \in 1 .. Len(reqs) /\ n + (i - n) = i
          BY <4>2, <3>2
        <5>2. log'[r][n + (i - n)] = reqs[i - n] /\ reqs[i - n] = log[Primary][n + (i - n)]
          BY <5>1, <3>2, <1>3, <1>n
        <5> QED BY <5>1, <5>2
      <4> QED BY <4>1, <4>2
    <3>5. IsCommit(ui + 1)
      BY <1>2 DEF OrderInv, PrimaryInv, PrimaryUIs, IsPrepare
    <3>6. ui + 1 >= Len(sent[Primary]) => Len(log'[r]) = Closed
      <4>1. sent[Primary] \in Seq(Message)
        BY <1>1
      <4>2. ui + 1 = Len(sent[Primary]) => nb.high = Closed
        BY <1>3 DEF OrderInv, PrimaryInv, PrimaryBatches
      <4> QED BY <4>1, <4>2, <3>3, <3>5 DEF IsCommit
    <3>7. \A b \in batches[Primary] :
            /\ b.ui \in Nat /\ b.ui # ui + 1
            /\ b.ui = ui => b = nb
            /\ b.ui = ui + 2 => b.low = nb.high + 1
      <4>1. \A b \in batches[Primary] : IsPrepare(b.ui) /\ b.ui \in Nat
        BY <1>1 DEF OrderInv, PrimaryInv, PrimaryBatches, BatchType
      <4>2. \A b \in batches[Primary] : (b.ui = nb.ui => b = nb) /\ (b.ui = nb.ui + 2 => b.low = nb.high + 1)
        BY DEF OrderInv, PrimaryInv, PrimaryBatches
      <4> QED BY <4>1, <4>2, <3>5, <1>3 DEF IsPrepare, IsCommit
    <3>8. batches'[r] = {b \in batches[Primary] : b.ui < ui + 1}
      <4>1. \A b \in batches[Primary] : b.ui < ui + 1 <=> b.ui < ui \/ b = nb
        BY <3>7, <1>3
      <4> QED BY <4>1, <3>1, <1>3, <1>5
    <3>9. \A b \in batches'[r] : b.high <= Len(log'[r])
      <4>1. \A b \in batches[r] : b.high \in Nat
        BY <1>1 DEF BatchType
      <4>2. \A b \in batches[r] : b.high <= n + Len(reqs)
        BY <4>1, <3>1, <3>2
      <4> QED BY <4>2, <3>2, <3>3, <1>5
    <3>10. \A b \in batches[Primary] : b.ui \in {ui + 1, (ui + 1) + 1} => b.low = Len(log'[r]) + 1
      <4>1. (ui + 1) + 1 = ui + 2
        OBVIOUS
      <4> QED BY <4>1, <3>3, <3>7
    <3> QED BY <3>2, <3>3, <3>4, <3>6, <3>8, <3>9, <3>10 DEF Has
  <2>4. \A q \in Backups : Has(q, log'[q], next_ui'[q][Primary], batches'[q])
    BY <2>2, <2>3, <1>6
  <2> QED BY <2>4, <1>7 DEF BackupInv
<1> QED BY <1>8, <1>9, <1>10 DEF OrderInv

\* A message waits.
LEMMA OrderStore ==
  ASSUME Group, TypeOK, OrderInv, NEW r \in Replicas, NEW s \in Replicas, r # s, NEW ui \in DOMAIN sent[s],
         ui_queue' = [ui_queue EXCEPT ![r][s] = @ \cup {ui}],
         UNCHANGED <<log, request_batch, sent, batches, next_ui>>
  PROVE  OrderInv'
<1>1. ui_queue \in [Replicas -> [Replicas -> SUBSET Nat]]
  BY OrderTypes
<1>2. ui_queue' = [ui_queue EXCEPT ![r] = [ui_queue[r] EXCEPT ![s] = ui_queue[r][s] \cup {ui}]]
  OBVIOUS
<1>3. /\ ui_queue'[r][s] = ui_queue[r][s] \cup {ui}
      /\ \A q, t \in Replicas : <<q, t>> # <<r, s>> => ui_queue'[q][t] = ui_queue[q][t]
  BY <1>1, <1>2
<1>4. UIInv'
  BY <1>3 DEF OrderInv, UIInv
<1>5. PrimaryInv'
  BY DEF OrderInv, PrimaryInv, PrimaryLog, PrimaryUIs, PrimaryBatches, Closed, IsPrepare, IsCommit, IsBatch, HasBatch
<1>6. BackupInv'
  BY DEF OrderInv, BackupInv, Closed
<1> QED BY <1>4, <1>5, <1>6 DEF OrderInv

-----------------------------------------------------------------------------
(***************************************************************************)
(* What is counted, executed and replied as logs and batches grow.         *)
(***************************************************************************)

\* The batches of a replica are the primary's, in its log, one for every UI.
LEMMA BatchesAgree ==
  ASSUME Group, TypeOK, OrderInv, NEW r \in Replicas, NEW b \in batches[r]
  PROVE  /\ b \in BatchType /\ b \in batches[Primary]
         /\ 1 <= b.low /\ b.high <= Len(log[r])
         /\ \A c \in batches[Primary] : c.ui = b.ui => c = b
<1>1. batches \in [Replicas -> SUBSET BatchType] /\ log \in [Replicas -> Seq(Request)]
      /\ request_batch \in Seq(Request)
  BY OrderTypes
<1>2. b \in BatchType /\ b.low \in Nat /\ b.high \in Nat
  BY <1>1 DEF BatchType
<1>3. b \in batches[Primary] /\ (r # Primary => b.high <= Len(log[r]))
  BY DEF OrderInv, BackupInv, Backups
<1>4. IsBatch(b, sent[Primary][b.ui].reqs) /\ \A c \in batches[Primary] : c.ui = b.ui => c = b
  BY <1>3 DEF OrderInv, PrimaryInv, PrimaryBatches
<1>5. 1 <= b.low /\ b.high <= Closed
  BY <1>4 DEF IsBatch
<1>6. Closed <= Len(log[Primary]) /\ Closed \in Int /\ Len(log[Primary]) \in Int
  <2>1. Len(log[Primary]) \in Nat /\ Len(request_batch) \in Nat
    BY <1>1 DEF Group
  <2> QED BY <2>1 DEF Closed
<1>7. b.high <= Len(log[Primary])
  <2> HIDE DEF Closed
  <2> QED BY <1>2, <1>5, <1>6
<1> QED BY <1>2, <1>3, <1>4, <1>5, <1>7

\* What is executed is in the log.
LEMMA ExecutedInLog ==
  ASSUME Group, TypeOK, OrderInv, ExecInv, NEW r \in Replicas
  PROVE  commit_number[r] \in Nat /\ commit_number[r] <= Len(log[r])
<1>1. commit_number[r] \in Nat /\ log[r] \in Seq(Request)
  BY DEF TypeOK
<1>2. CASE commit_number[r] = 0
  BY <1>1, <1>2
<1>3. CASE commit_number[r] # 0
  <2>1. commit_number[r] \in 1 .. commit_number[r]
    BY <1>1, <1>3
  <2>2. commit_number[r] \in committed[r]
    BY <2>1 DEF ExecInv
  <2>3. PICK b \in batches[r] : commit_number[r] <= b.high
    BY <2>2 DEF ExecInv
  <2>4. b.high \in Nat /\ b.high <= Len(log[r])
    BY BatchesAgree DEF BatchType
  <2> QED BY <1>1, <2>3, <2>4
<1> QED BY <1>2, <1>3

\* Logs and batches grow.
Extend ==
  \A r \in Replicas : /\ batches[r] \subseteq batches'[r]
                      /\ \A i \in 1 .. Len(log[r]) : log'[r][i] = log[r][i]

\* What is executed stays executed, and what is executed next is so too.
LEMMA DoneGrows ==
  ASSUME Group, TypeOK, OrderInv, ExecInv, Extend, NEW r \in Replicas,
         commit_number'[r] \in Nat, commit_number[r] <= commit_number'[r]
  PROVE  /\ Done(r) \subseteq Done(r)'
         /\ \A i \in commit_number[r] + 1 .. commit_number'[r] : log'[r][i] \in Done(r)'
<1>1. commit_number[r] \in Nat /\ commit_number[r] <= Len(log[r]) /\ Len(log[r]) \in Nat
  <2>1. log[r] \in Seq(Request)
    BY OrderTypes
  <2> QED BY <2>1, ExecutedInLog
<1>2. \A i \in 1 .. commit_number[r] : i \in 1 .. Len(log[r]) /\ i \in 1 .. commit_number'[r]
  BY <1>1
<1>3. \A i \in 1 .. commit_number[r] : log[r][i] = log'[r][i]
  BY <1>2 DEF Extend
<1>4. \A i \in commit_number[r] + 1 .. commit_number'[r] : i \in 1 .. commit_number'[r]
  BY <1>1
<1> QED BY <1>2, <1>3, <1>4 DEF Done

\* Requests that were executed by enough replicas still are.
LEMMA CompletedGrows ==
  ASSUME Group, CompletedIsExecuted, \A r \in Replicas : Done(r) \subseteq Done(r)',
         UNCHANGED <<last_req, pending>>
  PROVE  CompletedIsExecuted'
<1> SUFFICES ASSUME NEW c \in Clients, NEW n \in 1 .. last_req[c], n = last_req[c] => ~pending[c]
             PROVE  Cardinality({r \in Replicas : \E i \in 1 .. commit_number'[r] :
                                   log'[r][i] = [client |-> c, num |-> n]}) >= f + 1
  BY DEF CompletedIsExecuted
<1> DEFINE S == {r \in Replicas : \E i \in 1 .. commit_number[r] : log[r][i] = [client |-> c, num |-> n]}
           T == {r \in Replicas : \E i \in 1 .. commit_number'[r] : log'[r][i] = [client |-> c, num |-> n]}
<1>1. Cardinality(S) >= f + 1
  BY DEF CompletedIsExecuted
<1>2. S \subseteq T
  BY DEF Done
<1>3. T \subseteq Replicas /\ f + 1 \in Nat /\ IsFiniteSet(Replicas)
  BY DEF Group
<1> HIDE DEF S, T
<1>4. Cardinality(T) >= f + 1
  BY <1>1, <1>2, <1>3, MoreIsEnough
<1> QED BY <1>4 DEF T

\* The COMMITs for a PREPARE come from replicas that have its batch.
LEMMA VotersHold ==
  ASSUME Group, VoteInv, Extend, NEW r \in Replicas, NEW ui, NEW s \in Replicas, HasBatch(s, ui)'
  PROVE  /\ Committers(r, ui) \cup {s} \subseteq Holders(ui)'
         /\ Holders(ui) \subseteq Holders(ui)' /\ Holders(ui)' \subseteq Replicas
<1>1. Committers(r, ui) \subseteq Holders(ui)
  BY DEF Committers, Holders, VoteInv
<1>2. Holders(ui) \subseteq Holders(ui)'
  BY DEF Holders, HasBatch, Extend
<1> QED BY <1>1, <1>2 DEF Holders

\* A COMMIT is counted of a replica that has the batch.
LEMMA VoteKept ==
  ASSUME Group, TypeOK, VoteInv, Extend, NEW r \in Replicas, NEW ui, NEW s \in Replicas,
         commit_quorum' = [commit_quorum EXCEPT ![r] = @ \cup {<<ui, s>>}],
         HasBatch(s, ui)', s = Primary => HasBatch(r, ui)', CommitsSent'
  PROVE  VoteInv'
<1>1. commit_quorum \in [Replicas -> SUBSET (Nat \X Replicas)]
  BY DEF TypeOK
<1>2. ASSUME NEW q \in Replicas, NEW v \in commit_quorum'[q]
      PROVE  HasBatch(v[2], v[1])' /\ (v[2] = Primary => HasBatch(q, v[1])')
  <2>1. CASE v \in commit_quorum[q]
    <3>1. HasBatch(v[2], v[1]) /\ (v[2] = Primary => HasBatch(q, v[1])) /\ v[2] \in Replicas
      BY <2>1, <1>1 DEF VoteInv
    <3> QED BY <3>1 DEF HasBatch, Extend
  <2>2. CASE v \notin commit_quorum[q]
    <3>1. q = r /\ v = <<ui, s>>
      BY <2>2, <1>1
    <3> QED BY <3>1
  <2> QED BY <2>1, <2>2
<1> QED BY <1>2 DEF VoteInv

\* An opnum is committed with its batch, by f+1 replicas that have it.
LEMMA ExecKept ==
  ASSUME Group, TypeOK, VoteInv, ExecInv, Extend,
         NEW r \in Replicas, NEW ui \in Nat, NEW s \in Replicas, NEW lg, NEW table,
         CommitEffect(r, ui, s, lg, table, batches'[r]), HasBatch(s, ui)'
  PROVE  ExecInv'
<1>1. /\ \A q \in Replicas \ {r} : committed'[q] = committed[q] /\ commit_number'[q] = commit_number[q]
      /\ committed[r] \subseteq committed'[r]
      /\ \A i \in committed'[r] \ committed[r] :
           /\ \E b \in batches'[r] : b.ui = ui /\ b.low <= i /\ i <= b.high
           /\ Cardinality(Committers(r, ui) \cup {s}) >= f + 1
      /\ commit_number[r] + 1 .. commit_number'[r] \subseteq committed'[r]
      /\ commit_number' \in [Replicas -> Nat]
  BY DEF CommitEffect
<1>2. f + 1 \in Nat /\ IsFiniteSet(Replicas)
  BY DEF Group
<1>3. ASSUME NEW b, Cardinality(Holders(b.ui)) >= f + 1 PROVE Cardinality(Holders(b.ui)') >= f + 1
  <2>1. Holders(b.ui) \subseteq Holders(b.ui)' /\ Holders(b.ui)' \subseteq Replicas
    BY DEF Holders, HasBatch, Extend
  <2> QED BY <1>2, <1>3, <2>1, MoreIsEnough
<1>4. ASSUME NEW q \in Replicas, NEW i \in committed'[q]
      PROVE  \E b \in batches'[q] : b.low <= i /\ i <= b.high /\ Cardinality(Holders(b.ui)') >= f + 1
  <2>1. CASE i \in committed[q]
    <3>1. PICK b \in batches[q] : b.low <= i /\ i <= b.high /\ Cardinality(Holders(b.ui)) >= f + 1
      BY <2>1 DEF ExecInv
    <3>2. b \in batches'[q]
      BY DEF Extend
    <3> QED BY <3>1, <3>2, <1>3
  <2>2. CASE i \notin committed[q]
    <3>1. q = r
      BY <2>2, <1>1
    <3>2. PICK b \in batches'[r] : b.ui = ui /\ b.low <= i /\ i <= b.high
      BY <2>2, <3>1, <1>1
    <3>3. Cardinality(Committers(r, ui) \cup {s}) >= f + 1
      BY <2>2, <3>1, <1>1
    <3>4. Committers(r, ui) \cup {s} \subseteq Holders(ui)' /\ Holders(ui)' \subseteq Replicas
      BY VotersHold
    <3>5. Cardinality(Holders(ui)') >= f + 1
      BY <3>3, <3>4, <1>2, MoreIsEnough
    <3> QED BY <3>1, <3>2, <3>5
  <2> QED BY <2>1, <2>2
<1>5. ASSUME NEW q \in Replicas PROVE 1 .. commit_number'[q] \subseteq committed'[q]
  <2>1. 1 .. commit_number[q] \subseteq committed[q] /\ commit_number[q] \in Nat
    BY DEF ExecInv, TypeOK
  <2>2. CASE q # r
    BY <2>1, <2>2, <1>1
  <2>3. CASE q = r
    <3>1. \A i \in 1 .. commit_number'[r] : i \in 1 .. commit_number[r] \/ i \in commit_number[r] + 1 .. commit_number'[r]
      BY <2>1, <2>3, <1>1
    <3> QED BY <3>1, <2>1, <2>3, <1>1
  <2> QED BY <2>2, <2>3
<1> QED BY <1>4, <1>5 DEF ExecInv

\* The replies of a table are those of r's.
Answers(r, table) == \A c \in Clients : table[c].ready => table[c] = client_table[r][c]

\* The replies kept are to requests executed before or now.
LEMMA RepliesKept ==
  ASSUME Group, TypeOK, OrderInv, ExecInv, RepliesInv, CompletedIsExecuted, Extend,
         NEW r \in Replicas, NEW ui \in Nat, NEW s \in Replicas, NEW lg, NEW table, NEW known,
         CommitEffect(r, ui, s, lg, table, known), lg = log'[r],
         Answers(r, table), last_req' = last_req, pending' = pending, received' = received, replies' = replies
  PROVE  RepliesInv' /\ CompletedIsExecuted'
<1>1. /\ commit_number' \in [Replicas -> Nat] /\ commit_number[r] <= commit_number'[r]
      /\ \A q \in Replicas \ {r} : /\ commit_number'[q] = commit_number[q]
                                   /\ client_table'[q] = client_table[q] /\ epilogue_list'[q] = epilogue_list[q]
  BY DEF CommitEffect
<1>2. /\ \A c \in Clients :
           \/ client_table'[r][c] = table[c]
           \/ \E i \in commit_number[r] + 1 .. commit_number'[r] : log'[r][i] = Req(c, client_table'[r][c].reply)
      /\ \A m \in epilogue_list'[r] \ epilogue_list[r] :
           m.from = r /\ \E i \in commit_number[r] + 1 .. commit_number'[r] : log'[r][i] = Req(m.client, m.num)
  BY DEF CommitEffect
<1>3. last_req' = last_req /\ pending' = pending /\ received' = received /\ replies' = replies
  OBVIOUS
<1>4. commit_number \in [Replicas -> Nat] /\ replies \in SUBSET ReplyType /\ received \in [Clients -> SUBSET Replicas]
  BY DEF TypeOK, ReplyType
<1>5. ASSUME NEW q \in Replicas
      PROVE  /\ Done(q) \subseteq Done(q)'
             /\ \A i \in commit_number[q] + 1 .. commit_number'[q] : log'[q][i] \in Done(q)'
  <2>1. commit_number'[q] \in Nat /\ commit_number[q] <= commit_number'[q]
    BY <1>1, <1>4
  <2> QED BY <2>1, DoneGrows
<1>6. CompletedIsExecuted'
  BY <1>3, <1>5, CompletedGrows
<1>7. \A m \in replies' : Req(m.client, m.num) \in Done(m.from)'
  <2>1. \A m \in replies : m.from \in Replicas
    BY <1>4 DEF ReplyType
  <2> QED BY <2>1, <1>3, <1>5 DEF RepliesInv
<1>8. ASSUME NEW q \in Replicas, NEW m \in epilogue_list'[q] PROVE m.from = q /\ Req(m.client, m.num) \in Done(q)'
  <2>1. CASE m \in epilogue_list[q]
    BY <2>1, <1>5 DEF RepliesInv
  <2>2. CASE m \notin epilogue_list[q]
    <3>1. q = r
      BY <2>2, <1>1
    <3> QED BY <2>2, <3>1, <1>2, <1>5
  <2> QED BY <2>1, <2>2
<1>9. ASSUME NEW q \in Replicas, NEW c \in Clients, client_table'[q][c].ready
      PROVE  Req(c, client_table'[q][c].reply) \in Done(q)'
  <2>1. CASE client_table'[q][c] = client_table[q][c]
    BY <2>1, <1>9, <1>5 DEF RepliesInv
  <2>2. CASE client_table'[q][c] # client_table[q][c]
    <3>1. q = r
      BY <2>2, <1>1
    <3>2. \E i \in commit_number[r] + 1 .. commit_number'[r] : log'[r][i] = Req(c, client_table'[r][c].reply)
      BY <2>2, <3>1, <1>2, <1>9 DEF Answers
    <3> QED BY <3>1, <3>2, <1>5
  <2> QED BY <2>1, <2>2
<1>10. \A c \in Clients : \A q \in received'[c] : Req(c, last_req'[c]) \in Done(q)'
  <2>1. \A c \in Clients : \A q \in received[c] : q \in Replicas
    BY <1>4
  <2> QED BY <2>1, <1>3, <1>5 DEF RepliesInv
<1> QED BY <1>6, <1>7, <1>8, <1>9, <1>10 DEF RepliesInv

\* The primary's COMMITs are for its own batches.
LEMMA PrimaryCommits ==
  OrderInv => \A u \in DOMAIN sent[Primary] :
                sent[Primary][u].type = "commit" => HasBatch(Primary, sent[Primary][u].ui)
<1> SUFFICES ASSUME OrderInv, NEW u \in DOMAIN sent[Primary], sent[Primary][u].type = "commit"
             PROVE  HasBatch(Primary, sent[Primary][u].ui)
  OBVIOUS
<1>1. sent[Primary][u].ui = u - 1 /\ IsPrepare(u - 1)
  BY DEF OrderInv, PrimaryInv, PrimaryUIs, IsCommit
<1> QED BY <1>1 DEF OrderInv, PrimaryInv, PrimaryUIs, IsPrepare

\* What is counted and executed has its types.
TypesLeft ==
  /\ commit_quorum \in [Replicas -> SUBSET (Nat \X Replicas)]
  /\ committed \in [Replicas -> SUBSET Nat] /\ commit_number \in [Replicas -> Nat]
  /\ client_table \in [Replicas -> Entries] /\ epilogue_list \in [Replicas -> SUBSET ReplyType]

TypesOrder ==
  /\ log \in [Replicas -> Seq(Request)] /\ request_batch \in Seq(Request)
  /\ batches \in [Replicas -> SUBSET BatchType]
  /\ sent \in [Replicas -> Seq(Message)]
  /\ next_ui \in [Replicas -> [Replicas -> Nat]]
  /\ ui_queue \in [Replicas -> [Replicas -> SUBSET Nat]]

TypesRest ==
  /\ close_queued \in Nat /\ draining \in {<< >>} \cup (Replicas \X Replicas)
  /\ stopped \in SUBSET Replicas
  /\ last_req \in [Clients -> Nat] /\ pending \in [Clients -> BOOLEAN]
  /\ received \in [Clients -> SUBSET Replicas] /\ replies \in SUBSET ReplyType

\* The three parts of the types.
LEMMA TypeParts == TypeOK <=> TypesLeft /\ TypesOrder /\ TypesRest
BY DEF TypeOK, TypesLeft, TypesOrder, TypesRest, Entries, ReplyType, BatchType, Message

\* An AddCommit keeps the types of what it counts and executes.
LEMMA CommitTypes ==
  ASSUME TypeOK, NEW r \in Replicas, NEW ui \in Nat, NEW s \in Replicas, NEW lg, NEW table, NEW known,
         CommitEffect(r, ui, s, lg, table, known)
  PROVE  TypesLeft'
<1>1. commit_quorum \in [Replicas -> SUBSET (Nat \X Replicas)]
  BY DEF TypeOK
<1>2. commit_quorum' = [commit_quorum EXCEPT ![r] = @ \cup {<<ui, s>>}]
  BY DEF CommitEffect
<1>3. commit_quorum' \in [Replicas -> SUBSET (Nat \X Replicas)]
  BY <1>1, <1>2
<1> QED BY <1>3 DEF CommitEffect, TypesLeft

\* CloseBatch is a step of the order, counts the primary's COMMIT, and keeps
\* the numbers of the client table it is given.
LEMMA CloseBatchKeeps ==
  ASSUME Group, TypeOK, OrderInv, VoteInv, ExecInv, RepliesInv, CompletedIsExecuted,
         NEW lg \in Seq(Request), NEW reqs \in Seq(Request), NEW table \in Entries,
         CloseBatch(lg, reqs, table), log' = [log EXCEPT ![Primary] = lg],
         Closed + Len(reqs) = Len(lg),
         \A i \in 1 .. Len(log[Primary]) : lg[i] = log[Primary][i],
         \A i \in 1 .. Len(reqs) : reqs[i] = lg[Closed + i],
         Answers(Primary, table),
         UNCHANGED <<uiVars, clientVars, replies>>
  PROVE  /\ TypesLeft' /\ TypesOrder' /\ OrderInv' /\ VoteInv' /\ ExecInv' /\ RepliesInv' /\ CompletedIsExecuted'
         /\ \A c \in Clients : client_table'[Primary][c].num = table[c].num
<1>1. TypesOrder /\ Primary \in Replicas
  BY TypeParts DEF Group
<1>2. PICK L \in Nat : L = Len(sent[Primary])
  <2>1. sent[Primary] \in Seq(Message)
    BY <1>1 DEF TypesOrder
  <2> QED BY SMTT(30), <2>1
<1>3. PICK nb : nb = Batch(L + 1, (Len(lg) + 1) - Len(reqs), Len(lg))
  OBVIOUS
<1>4. PICK pm : pm = [type |-> "prepare", reqs |-> reqs]
  OBVIOUS
<1>5. /\ request_batch' = << >>
      /\ batches' = [batches EXCEPT ![Primary] = batches[Primary] \cup {nb}]
      /\ sent' = [sent EXCEPT ![Primary] = Append(Append(sent[Primary], pm), Commit(L + 1))]
      /\ AddCommit(Primary, L + 1, Primary, lg, table, batches[Primary] \cup {nb})
  BY <1>2, <1>3, <1>4 DEF CloseBatch, SendCommit, Broadcast
<1>6. CloseStep(lg, reqs)
  BY <1>1, <1>2, <1>3, <1>4, <1>5 DEF CloseStep, TypesOrder
<1>7. \A i \in 1 .. Closed : lg[i] = log[Primary][i]
  <2>1. Len(log[Primary]) \in Nat /\ Len(request_batch) \in Nat
    BY <1>1 DEF TypesOrder
  <2>2. \A i \in 1 .. Closed : i \in 1 .. Len(log[Primary])
    BY <2>1 DEF Closed
  <2> QED BY <2>2
<1>8. OrderInv'
  BY <1>6, <1>7, OrderClose
<1>9. nb \in BatchType /\ nb.ui = L + 1
  <2>1. Len(lg) \in Nat /\ Len(reqs) \in Nat /\ Closed \in Int /\ 0 <= Closed
    <3>1. Len(log[Primary]) \in Nat /\ Len(request_batch) \in Nat
      BY <1>1 DEF TypesOrder
    <3> QED BY <3>1 DEF Closed, OrderInv, PrimaryInv, PrimaryLog
  <2>2. (Len(lg) + 1) - Len(reqs) \in Nat
    <3> HIDE DEF Closed
    <3> QED BY <2>1
  <2> QED BY <2>1, <2>2, <1>3 DEF Batch, BatchType
<1>10. /\ batches'[Primary] = batches[Primary] \cup {nb} /\ \A s \in Backups : batches'[s] = batches[s]
       /\ log'[Primary] = lg /\ \A s \in Backups : log'[s] = log[s]
       /\ \A s \in Backups : sent'[s] = sent[s]
       /\ batches[Primary] \cup {nb} \in SUBSET BatchType
  BY <1>1, <1>5, <1>9 DEF Backups, TypesOrder
<1>11. Extend
  <2> SUFFICES ASSUME NEW r \in Replicas
               PROVE  batches[r] \subseteq batches'[r] /\ \A i \in 1 .. Len(log[r]) : log'[r][i] = log[r][i]
    BY DEF Extend
  <2> QED BY <1>10 DEF Backups
<1>12. CommitEffect(Primary, L + 1, Primary, lg, table, batches[Primary] \cup {nb})
  <2>1. L + 1 \in Nat
    OBVIOUS
  <2> QED BY <2>1, <1>1, <1>5, <1>10, AddCommitEffect
<1>13. CommitEffect(Primary, L + 1, Primary, log'[Primary], table, batches'[Primary])
  BY <1>10, <1>12
<1>14. TypesLeft' /\ \A c \in Clients : client_table'[Primary][c].num = table[c].num
  <2>1. L + 1 \in Nat
    OBVIOUS
  <2>2. TypesLeft'
    BY <2>1, <1>1, <1>12, CommitTypes
  <2>3. \A c \in Clients : client_table'[Primary][c].num = table[c].num
    BY <1>12 DEF CommitEffect
  <2> QED BY <2>2, <2>3
<1>15. TypesOrder'
  <2>1. pm \in Message /\ Commit(L + 1) \in Message
    BY <1>4 DEF Message, Commit
  <2>2. Append(Append(sent[Primary], pm), Commit(L + 1)) \in Seq(Message)
    <3>1. Append(sent[Primary], pm) \in Seq(Message)
      BY <2>1, <1>1 DEF TypesOrder
    <3> QED BY <3>1, <2>1
  <2>3. sent' \in [Replicas -> Seq(Message)]
    BY <2>2, <1>1, <1>5 DEF TypesOrder
  <2>4. batches' \in [Replicas -> SUBSET BatchType] /\ log' \in [Replicas -> Seq(Request)]
    BY <1>1, <1>5, <1>10 DEF TypesOrder
  <2> QED BY <2>3, <2>4, <1>1, <1>5 DEF TypesOrder, uiVars
<1>16. HasBatch(Primary, L + 1)'
  BY <1>9, <1>10 DEF HasBatch
<1>17. CommitsSent'
  <2>1. (\A u \in DOMAIN sent[Primary] : sent[Primary][u].type = "commit" => HasBatch(Primary, sent[Primary][u].ui))'
    BY <1>8, PrimaryCommits, PTL
  <2>2. ASSUME NEW s \in Backups, NEW u \in DOMAIN sent'[s], sent'[s][u].type = "commit"
        PROVE  HasBatch(s, sent[s][u].ui)'
    BY <2>2, <1>10 DEF VoteInv, CommitsSent, HasBatch, Backups
  <2> QED BY <2>1, <2>2 DEF CommitsSent, Backups
<1>18. VoteInv'
  <2>1. commit_quorum' = [commit_quorum EXCEPT ![Primary] = @ \cup {<<L + 1, Primary>>}]
    BY <1>12 DEF CommitEffect
  <2> QED BY <2>1, <1>1, <1>11, <1>16, <1>17, VoteKept
<1>19. ExecInv'
  <2>1. L + 1 \in Nat
    OBVIOUS
  <2> QED BY <2>1, <1>1, <1>11, <1>13, <1>16, ExecKept
<1>20. RepliesInv' /\ CompletedIsExecuted'
  <2>1. last_req' = last_req /\ pending' = pending /\ received' = received /\ replies' = replies
    BY DEF clientVars
  <2>3. L + 1 \in Nat /\ lg = log'[Primary]
    BY <1>10
  <2> QED BY <2>1, <2>3, <1>1, <1>11, <1>12, RepliesKept
<1> QED BY <1>8, <1>14, <1>15, <1>18, <1>19, <1>20

\* HandlePrepare is a step of the order, and counts the replica's own COMMIT.
LEMMA HandlePrepareKeeps ==
  ASSUME Group, TypeOK, OrderInv, VoteInv, ExecInv, RepliesInv, CompletedIsExecuted,
         NEW r \in Backups, NEW ui \in Nat, NEW reqs, ui = next_ui[r][Primary],
         IsPrepare(ui), reqs = sent[Primary][ui].reqs, HandlePrepare(r, ui, reqs),
         NextUI(r, Primary), UNCHANGED <<primaryVars, clientVars, replies>>
  PROVE  /\ TypesLeft' /\ TypesOrder' /\ OrderInv' /\ VoteInv' /\ ExecInv' /\ RepliesInv' /\ CompletedIsExecuted'
         /\ stopped' = stopped /\ log'[Primary] = log[Primary]
         /\ client_table'[Primary] = client_table[Primary]
<1>1. TypesOrder /\ TypesLeft /\ Primary \in Replicas /\ r \in Replicas /\ r # Primary
  BY TypeParts DEF Group, Backups
<1>2. PICK nb \in batches[Primary] :
        /\ reqs \in Seq(Request) /\ nb \in BatchType /\ nb.ui = ui
        /\ nb = Batch(ui, Len(log[r]) + 1, Len(log[r] \o reqs))
  <2>1. \E b \in batches[Primary] :
           LET reqs1 == sent[Primary][ui].reqs IN
           /\ reqs1 \in Seq(Request) /\ b \in BatchType
           /\ b.ui = ui /\ b.low = Len(log[r]) + 1 /\ b.high = Len(log[r]) + Len(reqs1) /\ b.high <= Closed
           /\ b = Batch(ui, Len(log[r]) + 1, Len(log[r] \o reqs1))
           /\ \A i \in 1 .. Len(reqs1) : reqs1[i] = log[Primary][Len(log[r]) + i]
    BY PrepareIsNext
  <2> QED BY <2>1, Zenon
<1>3. PICK lg : lg = log[r] \o reqs
  OBVIOUS
<1>4. lg \in Seq(Request) /\ \A i \in 1 .. Len(log[r]) : lg[i] = log[r][i]
  <2>1. log[r] \in Seq(Request)
    BY <1>1 DEF TypesOrder
  <2>2. PICK x \in Seq(Request) : x = log[r]
    BY <2>1
  <2>3. reqs \in Seq(Request) /\ lg = x \o reqs
    BY <1>2, <1>3, <2>2, Zenon
  <2>4. x \o reqs \in Seq(Request)
    BY <2>3, ConcatLength
  <2>5. \A i \in 1 .. Len(x) : (x \o reqs)[i] = x[i]
    BY <2>3, ConcatKeeps
  <2> QED BY <2>2, <2>3, <2>4, <2>5
<1>5. /\ log' = [log EXCEPT ![r] = lg]
      /\ batches' = [batches EXCEPT ![r] = batches[r] \cup {nb}]
      /\ sent' = [sent EXCEPT ![r] = Append(sent[r], Commit(ui))]
      /\ AddCommit(r, ui, r, lg, client_table[r], batches[r] \cup {nb})
      /\ stopped' = stopped /\ request_batch' = request_batch
  BY <1>2, <1>3 DEF HandlePrepare, SendCommit, Broadcast, primaryVars
<1>6. PrepareStep(r)
  BY <1>2, <1>3, <1>5 DEF PrepareStep
<1>7. OrderInv'
  BY <1>6, OrderPrepare
<1>8. /\ batches'[r] = batches[r] \cup {nb} /\ \A s \in Replicas \ {r} : batches'[s] = batches[s]
      /\ log'[r] = lg /\ \A s \in Replicas \ {r} : log'[s] = log[s]
      /\ sent'[r] = Append(sent[r], Commit(ui)) /\ \A s \in Replicas \ {r} : sent'[s] = sent[s]
      /\ batches[r] \cup {nb} \in SUBSET BatchType
  BY <1>1, <1>2, <1>5 DEF TypesOrder
<1>9. Extend
  <2> SUFFICES ASSUME NEW s \in Replicas
               PROVE  batches[s] \subseteq batches'[s] /\ \A i \in 1 .. Len(log[s]) : log'[s][i] = log[s][i]
    BY DEF Extend
  <2> QED BY <1>4, <1>8
<1>10. client_table[r] \in Entries
  BY <1>1 DEF TypesLeft
<1>11. CommitEffect(r, ui, r, lg, client_table[r], batches[r] \cup {nb})
  BY <1>1, <1>4, <1>5, <1>8, <1>10, AddCommitEffect
<1>12. CommitEffect(r, ui, r, lg, client_table[r], batches'[r])
  BY <1>8, <1>11
<1>13. TypesLeft'
  BY <1>1, <1>11, CommitTypes
<1>14. client_table'[Primary] = client_table[Primary] /\ log'[Primary] = log[Primary]
  BY <1>1, <1>8, <1>11 DEF CommitEffect
<1>15. TypesOrder'
  <2>1. Commit(ui) \in Message
    BY DEF Message, Commit
  <2>2. Append(sent[r], Commit(ui)) \in Seq(Message)
    BY <2>1, <1>1 DEF TypesOrder
  <2>3. sent' \in [Replicas -> Seq(Message)]
    BY <2>2, <1>1, <1>5 DEF TypesOrder
  <2>4. batches' \in [Replicas -> SUBSET BatchType] /\ log' \in [Replicas -> Seq(Request)]
    BY <1>1, <1>4, <1>5, <1>8 DEF TypesOrder
  <2>5. next_ui' \in [Replicas -> [Replicas -> Nat]] /\ ui_queue' \in [Replicas -> [Replicas -> SUBSET Nat]]
    BY <1>1, NextUIEffect
  <2> QED BY <2>3, <2>4, <2>5, <1>1, <1>5 DEF TypesOrder
<1>16. HasBatch(r, ui)'
  BY <1>2, <1>8 DEF HasBatch
<1>17. CommitsSent'
  <2>1. \A s \in Replicas : \A u : HasBatch(s, u) => HasBatch(s, u)'
    BY <1>9 DEF Extend, HasBatch
  <2>2. ASSUME NEW s \in Replicas, s # r, NEW u \in DOMAIN sent'[s], sent'[s][u].type = "commit"
        PROVE  HasBatch(s, sent[s][u].ui)'
    <3>1. sent'[s] = sent[s]
      BY <1>8, <2>2
    <3>2. HasBatch(s, sent[s][u].ui)
      BY <2>2, <3>1 DEF VoteInv, CommitsSent
    <3>3. \E b \in batches'[s] : b.ui = sent[s][u].ui
      BY <2>1, <3>2 DEF HasBatch
    <3> QED BY <3>1, <3>3 DEF HasBatch
  <2>3. ASSUME NEW u \in DOMAIN sent'[r], sent'[r][u].type = "commit"
        PROVE  HasBatch(r, sent[r][u].ui)'
    <3> DEFINE old == sent[r]
    <3>1. PICK m : m = Commit(ui)
      OBVIOUS
    <3>2. old \in Seq(Message) /\ sent'[r] = Append(old, m)
      BY <3>1, <1>1, <1>8 DEF TypesOrder
    <3> HIDE DEF old
    <3>3. u \in 1 .. Len(old) + 1 /\ Len(old) \in Nat
      BY <3>2, <2>3
    <3>4. CASE u \in 1 .. Len(old)
      <4>1. sent'[r][u] = old[u] /\ u \in DOMAIN old
        BY <3>2, <3>4
      <4>2. HasBatch(r, old[u].ui)
        BY <2>3, <4>1, <1>1 DEF VoteInv, CommitsSent, old
      <4>3. \E b \in batches'[r] : b.ui = old[u].ui
        BY <2>1, <4>2, <1>1 DEF HasBatch
      <4> QED BY <4>1, <4>3 DEF HasBatch
    <3>5. CASE u = Len(old) + 1
      <4>1. sent'[r][u] = m
        BY <3>2, <3>5
      <4>2. sent'[r][u].ui = ui
        BY <4>1, <3>1 DEF Commit
      <4> QED BY <4>2, <1>16 DEF HasBatch
    <3> QED BY <3>3, <3>4, <3>5
  <2> QED BY <2>2, <2>3 DEF CommitsSent
<1>18. VoteInv'
  <2>1. commit_quorum' = [commit_quorum EXCEPT ![r] = @ \cup {<<ui, r>>}]
    BY <1>11 DEF CommitEffect
  <2> QED BY <2>1, <1>1, <1>9, <1>16, <1>17, VoteKept
<1>19. ExecInv'
  BY <1>1, <1>9, <1>12, <1>16, ExecKept
<1>20. RepliesInv' /\ CompletedIsExecuted'
  <2>1. last_req' = last_req /\ pending' = pending /\ received' = received /\ replies' = replies
    BY DEF clientVars
  <2>2. lg = log'[r] /\ Answers(r, client_table[r])
    BY <1>8 DEF Answers
  <2> QED BY <2>1, <2>2, <1>1, <1>9, <1>11, RepliesKept
<1> QED BY <1>5, <1>7, <1>13, <1>14, <1>15, <1>18, <1>19, <1>20

\* A step that changes no batch and no COMMIT changes nothing of what they stand for.
LEMMA VotesSame ==
  ASSUME VoteInv, ExecInv, batches' = batches, commit_quorum' = commit_quorum, committed' = committed,
         commit_number' = commit_number, sent' = sent
  PROVE  VoteInv' /\ ExecInv'
<1>1. VoteInv'
  BY DEF VoteInv, CommitsSent, HasBatch
<1>2. ASSUME NEW r \in Replicas, NEW i \in committed'[r]
      PROVE  \E b \in batches'[r] : b.low <= i /\ i <= b.high /\ Cardinality(Holders(b.ui)') >= f + 1
  <2>1. PICK b \in batches[r] : b.low <= i /\ i <= b.high /\ Cardinality(Holders(b.ui)) >= f + 1
    BY DEF ExecInv
  <2>2. Holders(b.ui)' = Holders(b.ui)
    BY DEF Holders, HasBatch
  <2> QED BY <2>1, <2>2
<1>3. \A r \in Replicas : 1 .. commit_number'[r] \subseteq committed'[r]
  BY DEF ExecInv
<1> QED BY <1>1, <1>2, <1>3 DEF ExecInv

\* A step that changes no log, batch, COMMIT or reply changes nothing of these.
LEMMA SameKeeps ==
  ASSUME VoteInv, ExecInv, RepliesInv, CompletedIsExecuted,
         UNCHANGED <<logVars, epilogue_list, sent, clientVars, replies>>
  PROVE  VoteInv' /\ ExecInv' /\ RepliesInv' /\ CompletedIsExecuted'
<1>1. /\ log' = log /\ batches' = batches /\ commit_quorum' = commit_quorum /\ committed' = committed
      /\ commit_number' = commit_number /\ client_table' = client_table /\ epilogue_list' = epilogue_list
      /\ sent' = sent /\ last_req' = last_req /\ pending' = pending /\ received' = received /\ replies' = replies
  BY DEF logVars, clientVars
<1>2. VoteInv' /\ ExecInv'
  BY <1>1, VotesSame
<1>4. RepliesInv'
  BY <1>1 DEF RepliesInv, Done
<1>5. CompletedIsExecuted'
  BY <1>1 DEF CompletedIsExecuted
<1> QED BY <1>2, <1>4, <1>5

\* The primary's COMMIT comes to a replica that has handled the PREPARE.
LEMMA KnownFromPrimary ==
  ASSUME Group, TypeOK, OrderInv, NEW r \in Backups, NEW n, n = next_ui[r][Primary],
         IsCommit(n)
  PROVE  HasBatch(r, sent[Primary][n].ui)
<1>1. n \in Nat
  BY OrderTypes DEF Group, Backups
<1>2. sent[Primary][n].ui = n - 1 /\ IsPrepare(n - 1)
  BY DEF OrderInv, PrimaryInv, PrimaryUIs, IsCommit
<1>3. PICK b \in batches[Primary] : b.ui = n - 1
  BY <1>2 DEF OrderInv, PrimaryInv, PrimaryUIs, IsPrepare, HasBatch
<1>4. b.ui < n
  BY <1>1, <1>3
<1>5. b \in batches[r]
  BY <1>3, <1>4 DEF OrderInv, BackupInv
<1> QED BY <1>2, <1>3, <1>5 DEF HasBatch

\* A quorum of COMMITs for a batch that r does not know is one of f+1 backups
\* other than r, of which there are 2f-1.
LEMMA UnknownNeedsMore ==
  ASSUME Group, TypeOK, OrderInv, VoteInv, NEW r \in Replicas, NEW s \in Replicas, r # s, NEW ui,
         HasBatch(s, ui), s = Primary => HasBatch(r, ui), ~HasBatch(r, ui),
         Cardinality(Committers(r, ui) \cup {s}) >= f + 1
  PROVE  f > 1
<1> DEFINE V == Committers(r, ui) \cup {s}
<1>1. \A v \in V : v \in Replicas /\ v # Primary /\ v # r
  BY DEF Committers, VoteInv
<1>2. r # Primary
  <2>1. PICK b \in batches[s] : b.ui = ui
    BY DEF HasBatch
  <2>2. b \in batches[Primary]
    BY BatchesAgree
  <2> QED BY <2>1, <2>2 DEF HasBatch
<1> DEFINE T == Replicas \ {r}
           U == T \ {Primary}
<1>3. IsFiniteSet(Replicas) /\ Cardinality(Replicas) = 2 * f + 1 /\ Primary \in Replicas /\ f \in Nat
  BY DEF Group
<1>4. IsFiniteSet(T) /\ Cardinality(T) = Cardinality(Replicas) - 1
  BY <1>3, FS_RemoveElement
<1>5. IsFiniteSet(U) /\ Cardinality(U) = Cardinality(T) - 1
  <2>1. Primary \in T
    BY <1>2, <1>3
  <2> HIDE DEF T
  <2> QED BY <2>1, <1>4, FS_RemoveElement
<1>6. V \subseteq U
  BY <1>1
<1> HIDE DEF U, T, V
<1>7. Cardinality(V) <= Cardinality(U) /\ IsFiniteSet(V)
  BY <1>5, <1>6, FS_Subset
<1>8. Cardinality(V) \in Nat /\ Cardinality(U) \in Nat /\ Cardinality(T) \in Nat
  BY <1>4, <1>5, <1>7, FS_CardinalityType
<1>9. Cardinality(V) >= f + 1
  BY DEF V
<1> QED BY <1>3, <1>4, <1>5, <1>7, <1>8, <1>9

\* HandleCommit is a step of the order, and counts the sender's COMMIT at most.
LEMMA HandleCommitKeeps ==
  ASSUME Group, TypeOK, OrderInv, VoteInv, ExecInv, RepliesInv, CompletedIsExecuted, NoneStops,
         NEW r \in Replicas, NEW s \in Replicas, r # s, NEW n, n = next_ui[r][s],
         n \in DOMAIN sent[s], NEW m \in Message, m = sent[s][n], m.type = "commit",
         HandleCommit(r, s, m.ui), NextUI(r, s), UNCHANGED <<primaryVars, clientVars, replies>>
  PROVE  /\ TypesLeft' /\ TypesOrder' /\ OrderInv' /\ VoteInv' /\ ExecInv' /\ RepliesInv' /\ CompletedIsExecuted'
         /\ NoneStops' /\ stopped \subseteq stopped' /\ stopped' \subseteq stopped \cup {r} /\ log' = log
         /\ \A c \in Clients : client_table'[Primary][c].num = client_table[Primary][c].num
<1>1. TypesOrder /\ TypesLeft /\ Primary \in Replicas
  BY TypeParts DEF Group
<1>2. m.ui \in Nat
  BY MessageFields
<1>3. log' = log /\ batches' = batches /\ sent' = sent /\ request_batch' = request_batch
  BY DEF HandleCommit, AddCommit, logVars, primaryVars
<1>4. OrderInv'
  <2>1. SkipStep(r, s)
    BY <1>3 DEF SkipStep
  <2> QED BY <2>1, OrderSkip
<1>5. TypesOrder'
  <2>1. next_ui' \in [Replicas -> [Replicas -> Nat]] /\ ui_queue' \in [Replicas -> [Replicas -> SUBSET Nat]]
    BY NextUIEffect
  <2> QED BY <2>1, <1>1, <1>3 DEF TypesOrder
<1>6. HasBatch(s, m.ui)
  BY DEF VoteInv, CommitsSent
<1>7. s = Primary => HasBatch(r, m.ui)
  <2> SUFFICES ASSUME s = Primary PROVE HasBatch(r, m.ui)
    OBVIOUS
  <2>1. r \in Backups /\ IsCommit(n)
    BY DEF Backups, IsCommit
  <2> QED BY <2>1, KnownFromPrimary
<1>8. last_req' = last_req /\ pending' = pending /\ received' = received /\ replies' = replies
  BY DEF clientVars
<1>9. ASSUME UNCHANGED <<logVars, epilogue_list>>
      PROVE  /\ TypesLeft' /\ VoteInv' /\ ExecInv' /\ RepliesInv' /\ CompletedIsExecuted'
             /\ client_table' = client_table
  <2>1. UNCHANGED <<logVars, epilogue_list, sent, clientVars, replies>>
    BY <1>3, <1>9
  <2>2. TypesLeft' /\ client_table' = client_table
    BY <1>1, <1>9 DEF TypesLeft, logVars
  <2> QED BY <2>1, <2>2, SameKeeps
<1>10. CASE UNCHANGED <<logVars, epilogue_list, stopped>>
  BY <1>3, <1>4, <1>5, <1>9, <1>10 DEF NoneStops
<1>11. CASE AddCommit(r, m.ui, s, log[r], client_table[r], batches[r]) /\ stopped' = stopped
  <2>1. log[r] \in Seq(Request) /\ client_table[r] \in Entries /\ batches[r] \in SUBSET BatchType
    BY <1>1 DEF TypesOrder, TypesLeft
  <2>2. CommitEffect(r, m.ui, s, log[r], client_table[r], batches[r])
    BY <2>1, <1>2, <1>11, AddCommitEffect
  <2>3. Extend
    BY <1>3 DEF Extend
  <2>4. TypesLeft'
    BY <2>2, <1>2, CommitTypes
  <2>5. HasBatch(s, m.ui)' /\ (s = Primary => HasBatch(r, m.ui)')
    BY <1>3, <1>6, <1>7 DEF HasBatch
  <2>6. VoteInv'
    <3>1. commit_quorum' = [commit_quorum EXCEPT ![r] = @ \cup {<<m.ui, s>>}]
      BY <2>2 DEF CommitEffect
    <3>2. CommitsSent'
      BY <1>3 DEF VoteInv, CommitsSent, HasBatch
    <3> QED BY <3>1, <3>2, <2>3, <2>5, VoteKept
  <2>7. ExecInv'
    <3>1. CommitEffect(r, m.ui, s, log[r], client_table[r], batches'[r])
      BY <2>2, <1>3
    <3> QED BY <3>1, <2>3, <2>5, <1>2, ExecKept
  <2>8. RepliesInv' /\ CompletedIsExecuted'
    <3>1. log[r] = log'[r] /\ Answers(r, client_table[r])
      BY <1>3 DEF Answers
    <3> QED BY <3>1, <2>2, <2>3, <1>2, <1>8, RepliesKept
  <2>9. \A c \in Clients : client_table'[Primary][c].num = client_table[Primary][c].num
    BY <2>2, <1>1 DEF CommitEffect
  <2> QED BY <2>4, <2>6, <2>7, <2>8, <2>9, <1>3, <1>4, <1>5, <1>11 DEF NoneStops
<1>12. CASE /\ \A b \in batches[r] : b.ui # m.ui
            /\ Cardinality(Committers(r, m.ui) \cup {s}) >= f + 1
            /\ stopped' = stopped \cup {r}
            /\ UNCHANGED <<logVars, epilogue_list>>
  <2>1. f > 1
    BY <1>6, <1>7, <1>12, UnknownNeedsMore DEF HasBatch
  <2>2. f \in Nat
    BY DEF Group
  <2> QED BY <2>1, <2>2, <1>3, <1>4, <1>5, <1>9, <1>12 DEF NoneStops
<1> QED BY <1>10, <1>11, <1>12 DEF HandleCommit

-----------------------------------------------------------------------------
(***************************************************************************)
(* The steps.                                                              *)
(***************************************************************************)

\* The invariant.
LEMMA InvParts ==
  IInv <=> /\ TypeOK /\ OrderInv /\ VoteInv /\ ExecInv
           /\ TableInv /\ RepliesInv /\ DrainInv /\ CompletedIsExecuted /\ NoneStops
BY DEF IInv, OrderInv

\* The primary's log and the numbers of its client table are as before.
LEMMA TableSame ==
  ASSUME Group, TypeOK, TableInv, log'[Primary] = log[Primary],
         \A c \in Clients : client_table'[Primary][c].num = client_table[Primary][c].num
  PROVE  TableInv'
<1>1. log[Primary] \in Seq(Request)
  BY OrderTypes DEF Group
<1>2. \A i \in 1 .. Len(log[Primary]) : log[Primary][i] \in Request
  BY <1>1
<1>3. \A i \in 1 .. Len(log[Primary]) : log[Primary][i].client \in Clients
  BY <1>2 DEF Request
<1> QED BY <1>3 DEF TableInv

\* The queues and positions of r and s only change while r drains the messages of s.
LEMMA DrainElsewhere ==
  ASSUME DrainInv, NEW r \in Replicas, NEW s \in Replicas, draining \in {<< >>, <<r, s>>}, draining' = <<r, s>>,
         stopped \subseteq stopped',
         \A q, t \in Replicas : <<q, t>> # <<r, s>> => next_ui'[q][t] = next_ui[q][t] /\ ui_queue'[q][t] = ui_queue[q][t]
  PROVE  DrainInv'
<1> SUFFICES ASSUME NEW q \in Replicas, NEW t \in Replicas, <<q, t>> # <<r, s>>, q \notin stopped',
                    next_ui'[q][t] \in ui_queue'[q][t]
             PROVE  \E u \in ui_queue'[q][t] : u < next_ui'[q][t]
  BY DEF DrainInv
<1>1. draining # <<q, t>> /\ q \notin stopped
  OBVIOUS
<1> QED BY <1>1 DEF DrainInv

\* A step of the network or the timer changes no part of the order.
LEMMA OrderSame ==
  ASSUME OrderInv, UNCHANGED <<log, batches, sent, request_batch, uiVars>>
  PROVE  OrderInv'
<1>1. /\ log' = log /\ batches' = batches /\ sent' = sent /\ request_batch' = request_batch
      /\ next_ui' = next_ui /\ ui_queue' = ui_queue
  BY DEF uiVars
<1>2. PrimaryInv'
  BY <1>1 DEF OrderInv, PrimaryInv, PrimaryLog, PrimaryUIs, PrimaryBatches, Closed, IsPrepare, IsCommit, IsBatch, HasBatch
<1>3. UIInv'
  BY <1>1 DEF OrderInv, UIInv
<1>4. BackupInv'
  BY <1>1 DEF OrderInv, BackupInv, Closed
<1> QED BY <1>2, <1>3, <1>4 DEF OrderInv

\* A client invokes a request.
LEMMA InvokeKeeps ==
  ASSUME Group, IInv, NEW c \in Clients, Invoke(c)
  PROVE  IInv'
<1>1. TypeOK /\ OrderInv /\ TableInv /\ RepliesInv /\ DrainInv /\ CompletedIsExecuted /\ NoneStops /\ VoteInv /\ ExecInv
  BY InvParts
<1>2. /\ log' = log /\ batches' = batches /\ commit_quorum' = commit_quorum /\ committed' = committed
      /\ commit_number' = commit_number /\ client_table' = client_table /\ epilogue_list' = epilogue_list
      /\ next_ui' = next_ui /\ ui_queue' = ui_queue /\ request_batch' = request_batch
      /\ close_queued' = close_queued /\ draining' = draining /\ stopped' = stopped
      /\ sent' = sent /\ replies' = replies
      /\ last_req' = [last_req EXCEPT ![c] = @ + 1] /\ pending' = [pending EXCEPT ![c] = TRUE]
      /\ received' = [received EXCEPT ![c] = {}] /\ ~pending[c]
  BY DEF Invoke, logVars, uiVars, primaryVars
<1>3. last_req \in [Clients -> Nat] /\ pending \in [Clients -> BOOLEAN] /\ received \in [Clients -> SUBSET Replicas]
  BY <1>1 DEF TypeOK
<1>4. /\ last_req' \in [Clients -> Nat] /\ pending' \in [Clients -> BOOLEAN] /\ received' \in [Clients -> SUBSET Replicas]
      /\ last_req'[c] = last_req[c] + 1 /\ pending'[c] /\ received'[c] = {}
      /\ \A d \in Clients \ {c} : last_req'[d] = last_req[d] /\ pending'[d] = pending[d] /\ received'[d] = received[d]
  BY <1>2, <1>3
<1>5. TypeOK'
  BY <1>1, <1>2, <1>4 DEF TypeOK
<1>6. OrderInv' /\ VoteInv' /\ ExecInv' /\ TableInv' /\ DrainInv' /\ NoneStops'
  <2>1. OrderInv'
    BY <1>1, <1>2, OrderSame DEF uiVars
  <2>2. VoteInv' /\ ExecInv'
    BY <1>1, <1>2, VotesSame
  <2>4. TableInv' /\ DrainInv' /\ NoneStops'
    BY <1>1, <1>2 DEF TableInv, DrainInv, NoneStops
  <2> QED BY <2>1, <2>2, <2>4
<1>7. RepliesInv'
  <2>1. \A d \in Clients : \A q \in received'[d] : Req(d, last_req'[d]) \in Done(q)
    BY <1>1, <1>4 DEF RepliesInv
  <2> QED BY <2>1, <1>1, <1>2 DEF RepliesInv, Done
<1>8. CompletedIsExecuted'
  <2> SUFFICES ASSUME NEW d \in Clients, NEW n \in 1 .. last_req'[d], n = last_req'[d] => ~pending'[d]
               PROVE  Cardinality({r \in Replicas : \E i \in 1 .. commit_number[r] :
                                     log[r][i] = [client |-> d, num |-> n]}) >= f + 1
    BY <1>2 DEF CompletedIsExecuted
  <2>1. n \in 1 .. last_req[d] /\ (n = last_req[d] => ~pending[d])
    BY <1>2, <1>3, <1>4
  <2> QED BY <2>1, <1>1 DEF CompletedIsExecuted
<1> QED BY <1>1, <1>5, <1>6, <1>7, <1>8, InvParts DEF IInv, OrderInv

\* A client counts a reply, which stands for an execution.
LEMMA ReceiveReplyKeeps ==
  ASSUME Group, IInv, NEW c \in Clients, NEW m \in replies, ReceiveReply(c, m)
  PROVE  IInv'
<1>1. TypeOK /\ OrderInv /\ TableInv /\ RepliesInv /\ DrainInv /\ CompletedIsExecuted /\ NoneStops /\ VoteInv /\ ExecInv
  BY InvParts
<1> DEFINE got == received[c] \cup {m.from}
<1>2. /\ log' = log /\ batches' = batches /\ commit_quorum' = commit_quorum /\ committed' = committed
      /\ commit_number' = commit_number /\ client_table' = client_table /\ epilogue_list' = epilogue_list
      /\ next_ui' = next_ui /\ ui_queue' = ui_queue /\ request_batch' = request_batch
      /\ close_queued' = close_queued /\ draining' = draining /\ stopped' = stopped
      /\ sent' = sent /\ replies' = replies /\ last_req' = last_req
      /\ pending' = [pending EXCEPT ![c] = Cardinality(got) < f + 1]
      /\ received' = [received EXCEPT ![c] = got]
      /\ pending[c] /\ m.client = c /\ m.num = last_req[c]
  BY DEF ReceiveReply, logVars, uiVars, primaryVars
<1>3. last_req \in [Clients -> Nat] /\ pending \in [Clients -> BOOLEAN] /\ received \in [Clients -> SUBSET Replicas]
      /\ m.from \in Replicas
  BY <1>1 DEF TypeOK
<1>4. /\ pending' \in [Clients -> BOOLEAN] /\ received' \in [Clients -> SUBSET Replicas]
      /\ pending'[c] = (Cardinality(got) < f + 1) /\ received'[c] = got
      /\ \A d \in Clients \ {c} : pending'[d] = pending[d] /\ received'[d] = received[d]
  BY <1>2, <1>3
<1>5. TypeOK'
  BY <1>1, <1>2, <1>4 DEF TypeOK
<1>6. OrderInv' /\ VoteInv' /\ ExecInv' /\ TableInv' /\ DrainInv' /\ NoneStops'
  <2>1. OrderInv'
    BY <1>1, <1>2, OrderSame DEF uiVars
  <2>2. VoteInv' /\ ExecInv'
    BY <1>1, <1>2, VotesSame
  <2>4. TableInv' /\ DrainInv' /\ NoneStops'
    BY <1>1, <1>2 DEF TableInv, DrainInv, NoneStops
  <2> QED BY <2>1, <2>2, <2>4
<1>7. \A q \in got : Req(c, last_req[c]) \in Done(q)
  BY <1>1, <1>2 DEF RepliesInv
<1>8. RepliesInv'
  <2>1. \A d \in Clients : \A q \in received'[d] : Req(d, last_req'[d]) \in Done(q)
    BY <1>1, <1>2, <1>4, <1>7 DEF RepliesInv
  <2> QED BY <2>1, <1>1, <1>2 DEF RepliesInv, Done
<1>9. CompletedIsExecuted'
  <2> SUFFICES ASSUME NEW d \in Clients, NEW n \in 1 .. last_req[d], n = last_req[d] => ~pending'[d]
               PROVE  Cardinality({r \in Replicas : \E i \in 1 .. commit_number[r] :
                                     log[r][i] = [client |-> d, num |-> n]}) >= f + 1
    BY <1>2 DEF CompletedIsExecuted
  <2>1. CASE n = last_req[d] => ~pending[d]
    BY <2>1, <1>1 DEF CompletedIsExecuted
  <2>2. CASE d = c /\ n = last_req[c]
    <3> DEFINE S == {r \in Replicas : \E i \in 1 .. commit_number[r] : log[r][i] = [client |-> d, num |-> n]}
    <3>1. got \subseteq Replicas /\ IsFiniteSet(Replicas) /\ f \in Nat
      BY <1>3 DEF Group
    <3>2. got \subseteq S
      BY <2>2, <3>1, <1>7 DEF Done, Req
    <3> HIDE DEF got
    <3>3. Cardinality(got) \in Nat
      BY <3>1, FS_Subset, FS_CardinalityType
    <3>4. Cardinality(got) >= f + 1
      BY <2>2, <3>1, <3>3, <1>4
    <3>5. S \subseteq Replicas /\ f + 1 \in Nat
      BY <3>1
    <3> HIDE DEF S
    <3>6. Cardinality(S) >= f + 1
      BY <3>1, <3>2, <3>4, <3>5, MoreIsEnough
    <3> QED BY <3>6 DEF S
  <2>3. CASE d # c
    BY <2>3, <1>1, <1>4 DEF CompletedIsExecuted
  <2> QED BY <2>1, <2>2, <2>3
<1> QED BY <1>1, <1>5, <1>6, <1>8, <1>9, InvParts DEF IInv, OrderInv

\* The timer queues a CloseBatch.
LEMMA CloseBatchTimeoutKeeps ==
  ASSUME Group, IInv, CloseBatchTimeout
  PROVE  IInv'
<1>1. TypeOK /\ OrderInv /\ TableInv /\ RepliesInv /\ DrainInv /\ CompletedIsExecuted /\ NoneStops /\ VoteInv /\ ExecInv
  BY InvParts
<1>2. /\ UNCHANGED <<logVars, epilogue_list, sent, clientVars, replies>>
      /\ UNCHANGED <<log, batches, sent, request_batch, uiVars>>
      /\ log' = log /\ client_table' = client_table
      /\ next_ui' = next_ui /\ ui_queue' = ui_queue /\ draining' = draining /\ stopped' = stopped
      /\ close_queued' = close_queued + 1
  BY DEF CloseBatchTimeout, logVars, uiVars
<1>3. TypeOK'
  <2>1. TypesOrder /\ TypesLeft /\ TypesRest
    BY <1>1, TypeParts
  <2>2. TypesOrder' /\ TypesLeft' /\ TypesRest'
    BY <2>1, <1>2 DEF TypesOrder, TypesLeft, TypesRest, logVars, uiVars, clientVars
  <2> QED BY <2>2, TypeParts, PTL
<1>4. OrderInv' /\ TableInv' /\ DrainInv' /\ NoneStops'
  BY <1>1, <1>2, OrderSame, TableSame DEF DrainInv, NoneStops
<1>5. VoteInv' /\ ExecInv' /\ RepliesInv' /\ CompletedIsExecuted'
  BY <1>1, <1>2, SameKeeps
<1> QED BY <1>3, <1>4, <1>5 DEF IInv, OrderInv

\* A message waits in ui_queue.
LEMMA StoreUIKeeps ==
  ASSUME Group, IInv, NEW r \in Replicas, NEW s \in Replicas, NEW ui, StoreUI(r, s, ui)
  PROVE  IInv'
<1>1. TypeOK /\ OrderInv /\ TableInv /\ RepliesInv /\ DrainInv /\ CompletedIsExecuted /\ NoneStops /\ VoteInv /\ ExecInv
  BY InvParts
<1>2. /\ UNCHANGED <<logVars, epilogue_list, sent, clientVars, replies>>
      /\ UNCHANGED <<log, batches, sent, request_batch, next_ui>>
      /\ log' = log /\ client_table' = client_table
      /\ next_ui' = next_ui /\ draining' = draining /\ stopped' = stopped /\ close_queued' = close_queued
      /\ ui_queue' = [ui_queue EXCEPT ![r][s] = @ \cup {ui}]
      /\ draining = << >> /\ r # s /\ ui \in DOMAIN sent[s] /\ ui # next_ui[r][s]
  BY DEF StoreUI, Idle, logVars, primaryVars
<1>3. TypesOrder /\ TypesLeft /\ TypesRest
  BY <1>1, TypeParts
<1>4. ui_queue' = [ui_queue EXCEPT ![r] = [ui_queue[r] EXCEPT ![s] = ui_queue[r][s] \cup {ui}]]
  BY <1>2
<1>5. ui \in Nat
  <2>1. sent[s] \in Seq(Message)
    BY <1>3 DEF TypesOrder
  <2> QED BY <2>1, <1>2
<1>6. /\ ui_queue' \in [Replicas -> [Replicas -> SUBSET Nat]]
      /\ ui_queue'[r][s] = ui_queue[r][s] \cup {ui}
      /\ \A q, t \in Replicas : <<q, t>> # <<r, s>> => ui_queue'[q][t] = ui_queue[q][t]
  BY <1>3, <1>4, <1>5 DEF TypesOrder
<1>7. TypeOK'
  <2>1. TypesOrder' /\ TypesLeft' /\ TypesRest'
    BY <1>2, <1>3, <1>6 DEF TypesOrder, TypesLeft, TypesRest, logVars, clientVars
  <2> QED BY <2>1, TypeParts, PTL
<1>8. OrderInv'
  BY <1>1, <1>2, OrderStore
<1>9. DrainInv'
  <2> SUFFICES ASSUME NEW q \in Replicas, NEW t \in Replicas, q \notin stopped, next_ui[q][t] \in ui_queue'[q][t]
               PROVE  \E u \in ui_queue'[q][t] : u < next_ui[q][t]
    BY <1>2 DEF DrainInv
  <2>1. next_ui[q][t] \in ui_queue[q][t] /\ ui_queue[q][t] \subseteq ui_queue'[q][t]
    BY <1>2, <1>6
  <2>2. draining # <<q, t>>
    BY <1>2
  <2> QED BY <2>1, <2>2, <1>1 DEF DrainInv
<1>10. TableInv' /\ NoneStops'
  BY <1>1, <1>2, TableSame DEF NoneStops
<1>11. VoteInv' /\ ExecInv' /\ RepliesInv' /\ CompletedIsExecuted'
  BY <1>1, <1>2, SameKeeps
<1> QED BY <1>7, <1>8, <1>9, <1>10, <1>11 DEF IInv, OrderInv

\* A solo ends: the loop has drained the queue, or the process is gone.
LEMMA ConcludeEpilogueKeeps ==
  ASSUME Group, IInv, NEW r \in Replicas, NEW s \in Replicas, ConcludeEpilogue(r, s)
  PROVE  IInv'
<1>1. TypeOK /\ OrderInv /\ TableInv /\ RepliesInv /\ DrainInv /\ CompletedIsExecuted /\ NoneStops /\ VoteInv /\ ExecInv
  BY InvParts
<1>2. /\ log' = log /\ batches' = batches /\ commit_quorum' = commit_quorum /\ committed' = committed
      /\ commit_number' = commit_number /\ client_table' = client_table
      /\ next_ui' = next_ui /\ ui_queue' = ui_queue /\ request_batch' = request_batch
      /\ close_queued' = close_queued /\ stopped' = stopped
      /\ sent' = sent /\ last_req' = last_req /\ pending' = pending /\ received' = received
      /\ draining = <<r, s>> /\ draining' = << >>
      /\ IF r \in stopped THEN epilogue_list' = epilogue_list /\ replies' = replies
         ELSE /\ ~SmallestIs(r, s, next_ui[r][s])
              /\ replies' = replies \cup epilogue_list[r]
              /\ epilogue_list' = [epilogue_list EXCEPT ![r] = {}]
  BY DEF ConcludeEpilogue, logVars, uiVars, primaryVars, clientVars
<1>3. TypesOrder /\ TypesLeft /\ TypesRest
  BY <1>1, TypeParts
<1>4. /\ epilogue_list' \in [Replicas -> SUBSET ReplyType] /\ replies' \in SUBSET ReplyType
      /\ \A q \in Replicas : epilogue_list'[q] \subseteq epilogue_list[q]
      /\ replies' \subseteq replies \cup epilogue_list[r]
  BY <1>2, <1>3 DEF TypesLeft, TypesRest
<1>5. TypeOK'
  <2>1. TypesOrder' /\ TypesLeft' /\ TypesRest'
    BY <1>2, <1>3, <1>4 DEF TypesOrder, TypesLeft, TypesRest
  <2> QED BY <2>1, TypeParts, PTL
<1>6. OrderInv'
  BY <1>1, <1>2, OrderSame DEF uiVars
<1>7. VoteInv' /\ ExecInv'
  BY <1>1, <1>2, VotesSame
<1>8. RepliesInv'
  <2>1. \A q \in Replicas : Done(q)' = Done(q)
    BY <1>2 DEF Done
  <2>2. \A m \in replies' : Req(m.client, m.num) \in Done(m.from)
    BY <1>1, <1>4 DEF RepliesInv
  <2>3. \A q \in Replicas : \A m \in epilogue_list'[q] : m.from = q /\ Req(m.client, m.num) \in Done(q)
    BY <1>1, <1>4 DEF RepliesInv
  <2> QED BY <2>2, <2>3, <1>1, <1>2 DEF RepliesInv, Done
<1>9. DrainInv'
  <2> SUFFICES ASSUME NEW q \in Replicas, NEW t \in Replicas, q \notin stopped, next_ui[q][t] \in ui_queue[q][t]
               PROVE  \E u \in ui_queue[q][t] : u < next_ui[q][t]
    BY <1>2 DEF DrainInv
  <2>1. CASE <<q, t>> = <<r, s>>
    <3>1. ~SmallestIs(r, s, next_ui[r][s])
      BY <2>1, <1>2
    <3>2. PICK u \in ui_queue[r][s] : ~(next_ui[r][s] <= u)
      BY <2>1, <3>1 DEF SmallestIs
    <3>3. u \in Nat /\ next_ui[r][s] \in Nat
      BY <1>3 DEF TypesOrder
    <3> QED BY <2>1, <3>2, <3>3
  <2>2. CASE <<q, t>> # <<r, s>>
    BY <2>2, <1>1, <1>2 DEF DrainInv
  <2> QED BY <2>1, <2>2
<1>10. TableInv' /\ NoneStops' /\ CompletedIsExecuted'
  BY <1>1, <1>2, TableSame DEF NoneStops, CompletedIsExecuted
<1> QED BY <1>5, <1>6, <1>7, <1>8, <1>9, <1>10 DEF IInv, OrderInv

\* The message that is handled is a PREPARE of the primary, or a COMMIT.
LEMMA HandleUIKeeps ==
  ASSUME Group, IInv, NEW r \in Replicas, NEW s \in Replicas, r # s, next_ui[r][s] \in DOMAIN sent[s],
         HandleUI(r, s, next_ui[r][s]), NextUI(r, s), draining \in {<< >>, <<r, s>>}, draining' = <<r, s>>,
         UNCHANGED <<primaryVars, clientVars, replies>>
  PROVE  IInv'
<1>1. TypeOK /\ OrderInv /\ TableInv /\ RepliesInv /\ DrainInv /\ CompletedIsExecuted /\ NoneStops /\ VoteInv /\ ExecInv
  BY InvParts
<1>2. TypesOrder /\ TypesLeft /\ TypesRest
  BY <1>1, TypeParts
<1>3. PICK n \in Nat : n = next_ui[r][s]
  BY <1>2 DEF TypesOrder
<1>4. PICK m \in Message : m = sent[s][n]
  <2>1. sent[s] \in Seq(Message)
    BY <1>2 DEF TypesOrder
  <2> QED BY <2>1, <1>3
<1>5. \/ m.type = "prepare" /\ HandlePrepare(r, n, m.reqs)
      \/ m.type = "commit" /\ HandleCommit(r, s, m.ui)
  BY <1>3, <1>4 DEF HandleUI
<1>6. /\ TypesLeft' /\ TypesOrder' /\ OrderInv' /\ VoteInv' /\ ExecInv' /\ RepliesInv' /\ CompletedIsExecuted'
      /\ NoneStops' /\ stopped \subseteq stopped' /\ stopped' \subseteq stopped \cup {r}
      /\ log'[Primary] = log[Primary]
      /\ \A c \in Clients : client_table'[Primary][c].num = client_table[Primary][c].num
  <2>1. CASE m.type = "prepare" /\ HandlePrepare(r, n, m.reqs)
    <3>1. s = Primary
      BY <2>1, <1>1, <1>3, <1>4 DEF OrderInv, UIInv
    <3>2. r \in Backups /\ IsPrepare(n) /\ m.reqs = sent[Primary][n].reqs
      BY <2>1, <3>1, <1>3, <1>4 DEF Backups, IsPrepare
    <3>3. PICK reqs : reqs = m.reqs
      OBVIOUS
    <3>4. HandlePrepare(r, n, reqs) /\ reqs = sent[Primary][n].reqs /\ n = next_ui[r][Primary] /\ NextUI(r, Primary)
      BY <2>1, <3>1, <3>2, <3>3, <1>3
    <3>5. UNCHANGED <<primaryVars, clientVars, replies>>
      OBVIOUS
    <3>6. /\ TypesLeft' /\ TypesOrder' /\ OrderInv' /\ VoteInv' /\ ExecInv' /\ RepliesInv' /\ CompletedIsExecuted'
          /\ stopped' = stopped /\ log'[Primary] = log[Primary]
          /\ client_table'[Primary] = client_table[Primary]
      BY <3>2, <3>4, <3>5, <1>1, HandlePrepareKeeps
    <3> QED BY <3>6, <1>1 DEF NoneStops
  <2>2. CASE m.type = "commit" /\ HandleCommit(r, s, m.ui)
    BY <2>2, <1>1, <1>3, <1>4, HandleCommitKeeps
  <2> QED BY <2>1, <2>2, <1>5
<1>7. TypeOK'
  <2>1. stopped' \in SUBSET Replicas /\ draining' \in {<< >>} \cup (Replicas \X Replicas)
    BY <1>2, <1>6 DEF TypesRest
  <2>2. TypesRest'
    BY <2>1, <1>2 DEF TypesRest, primaryVars, clientVars
  <2> QED BY <2>2, <1>6, TypeParts, PTL
<1>8. DrainInv'
  BY <1>1, <1>6, NextUIEffect, DrainElsewhere
<1>9. TableInv'
  BY <1>1, <1>6, TableSame
<1> QED BY <1>6, <1>7, <1>8, <1>9 DEF IInv, OrderInv

\* The next message of a sender is handled.
LEMMA ReceiveUIKeeps ==
  ASSUME Group, IInv, NEW r \in Replicas, NEW s \in Replicas, ReceiveUI(r, s)
  PROVE  IInv'
<1>1. NextUI(r, s)
  BY DEF ReceiveUI, NextUI
<1> QED BY <1>1, HandleUIKeeps DEF ReceiveUI, Idle

\* The smallest message that waits is handled, if it is the next one.
LEMMA DrainKeeps ==
  ASSUME Group, IInv, NEW r \in Replicas, NEW s \in Replicas, Drain(r, s)
  PROVE  IInv'
<1>1. NextUI(r, s)
  BY DEF Drain, NextUI
<1>2. next_ui[r][s] \in ui_queue[r][s]
  BY DEF Drain, SmallestIs
<1>3. r # s /\ next_ui[r][s] \in DOMAIN sent[s]
  BY <1>2 DEF IInv, UIInv
<1>4. UNCHANGED <<primaryVars, clientVars, replies>> /\ draining' = draining /\ draining = <<r, s>>
      /\ HandleUI(r, s, next_ui[r][s])
  BY DEF Drain
<1> QED BY <1>1, <1>3, <1>4, HandleUIKeeps

\* The queued CloseBatch, of a batch that may be empty.
LEMMA RunCloseBatchKeeps ==
  ASSUME Group, IInv, RunCloseBatch
  PROVE  IInv'
<1>1. TypeOK /\ OrderInv /\ TableInv /\ RepliesInv /\ DrainInv /\ CompletedIsExecuted /\ NoneStops /\ VoteInv /\ ExecInv
  BY InvParts
<1>2. TypesOrder /\ TypesLeft /\ TypesRest /\ Primary \in Replicas
  BY <1>1, TypeParts DEF Group
<1>3. PICK lg \in Seq(Request) : lg = log[Primary]
  BY <1>2 DEF TypesOrder
<1>4. PICK reqs \in Seq(Request) : reqs = request_batch
  BY <1>2 DEF TypesOrder
<1>5. PICK table \in Entries : table = client_table[Primary]
  BY <1>2 DEF TypesLeft
<1>6. /\ CloseBatch(lg, reqs, table) /\ log' = log
      /\ close_queued' = close_queued - 1 /\ close_queued > 0
      /\ next_ui' = next_ui /\ ui_queue' = ui_queue
      /\ draining' = draining /\ stopped' = stopped
      /\ UNCHANGED <<uiVars, clientVars, replies>>
  BY <1>3, <1>4, <1>5 DEF RunCloseBatch, uiVars
<1>7. log' = [log EXCEPT ![Primary] = lg]
  BY <1>2, <1>3, <1>6 DEF TypesOrder
<1>8. Closed + Len(reqs) = Len(lg) /\ \A i \in 1 .. Len(reqs) : reqs[i] = lg[Closed + i]
  <2>1. Len(lg) \in Nat /\ Len(reqs) \in Nat /\ Closed = Len(lg) - Len(reqs)
    BY <1>3, <1>4 DEF Closed
  <2>2. \A i \in 1 .. Len(reqs) : reqs[i] = lg[Closed + i]
    BY <1>1, <1>3, <1>4 DEF OrderInv, PrimaryInv, PrimaryLog
  <2> QED BY <2>1, <2>2
<1>9. (\A i \in 1 .. Len(log[Primary]) : lg[i] = log[Primary][i]) /\ Answers(Primary, table)
  BY <1>3, <1>5 DEF Answers
<1>10. /\ TypesLeft' /\ TypesOrder' /\ OrderInv' /\ VoteInv' /\ ExecInv' /\ RepliesInv' /\ CompletedIsExecuted'
       /\ \A c \in Clients : client_table'[Primary][c].num = table[c].num
  BY <1>1, <1>6, <1>7, <1>8, <1>9, CloseBatchKeeps
<1>11. TypeOK'
  <2>1. close_queued' \in Nat
    BY <1>2, <1>6 DEF TypesRest
  <2>2. TypesRest'
    BY <2>1, <1>2, <1>6 DEF TypesRest, clientVars
  <2> QED BY <2>2, <1>10, TypeParts, PTL
<1>12. TableInv'
  BY <1>1, <1>5, <1>6, <1>10, TableSame
<1>13. DrainInv' /\ NoneStops'
  BY <1>1, <1>6 DEF DrainInv, NoneStops
<1> QED BY <1>10, <1>11, <1>12, <1>13 DEF IInv, OrderInv

\* A request is only logged with a number above those of its client in the log.
LEMMA TableAppend ==
  ASSUME Group, TypeOK, TableInv, NEW c \in Clients, NEW n \in Nat, n > client_table[Primary][c].num,
         NEW req \in Request, req = Req(c, n),
         log'[Primary] = Append(log[Primary], req),
         \A d \in Clients : client_table'[Primary][d].num = IF d = c THEN n ELSE client_table[Primary][d].num
  PROVE  TableInv'
<1>1. log[Primary] \in Seq(Request) /\ client_table[Primary] \in Entries
  <2>1. TypesOrder /\ TypesLeft
    BY TypeParts
  <2> QED BY <2>1 DEF TypesOrder, TypesLeft, Group
<1>2. PICK L \in Nat : L = Len(log[Primary])
  BY <1>1
<1>3. /\ Len(log'[Primary]) = L + 1 /\ log'[Primary][L + 1] = req
      /\ \A i \in 1 .. L : log'[Primary][i] = log[Primary][i] /\ log[Primary][i] \in Request
  BY <1>1, <1>2
<1>4. \A i \in 1 .. L + 1 : i \in 1 .. L \/ i = L + 1
  OBVIOUS
<1>5. \A d \in Clients : client_table[Primary][d].num \in Nat /\ client_table[Primary][d].num <= client_table'[Primary][d].num
  <2> SUFFICES ASSUME NEW d \in Clients
               PROVE  client_table[Primary][d].num \in Nat /\ client_table[Primary][d].num <= client_table'[Primary][d].num
    OBVIOUS
  <2>1. client_table[Primary][d].num \in Nat
    BY <1>1 DEF Entries
  <2> QED BY <2>1
<1>6. req.client = c /\ req.num = n
  BY DEF Req
<1>7. ASSUME NEW i \in 1 .. L
      PROVE  /\ log[Primary][i].num \in Nat /\ log[Primary][i].client \in Clients
             /\ log[Primary][i].num <= client_table[Primary][log[Primary][i].client].num
  <2>1. log[Primary][i] \in Request
    BY <1>3
  <2> QED BY <2>1, <1>2 DEF TableInv, Request
<1>8. ASSUME NEW i \in 1 .. L + 1
      PROVE  log'[Primary][i].num <= client_table'[Primary][log'[Primary][i].client].num
  <2>1. CASE i \in 1 .. L
    <3>1. log'[Primary][i] = log[Primary][i]
      BY <2>1, <1>3
    <3>2. PICK d \in Clients : d = log[Primary][i].client
      BY <2>1, <1>7
    <3>3. PICK k \in Nat : k = log[Primary][i].num
      BY <2>1, <1>7
    <3>4. k <= client_table[Primary][d].num
      BY <2>1, <3>2, <3>3, <1>7
    <3>5. client_table'[Primary][d].num \in Nat
      BY <1>5
    <3>6. k <= client_table'[Primary][d].num
      BY <3>4, <3>5, <1>5
    <3> QED BY <3>1, <3>2, <3>3, <3>6
  <2>2. CASE i = L + 1
    BY <2>2, <1>3, <1>6
  <2> QED BY <2>1, <2>2, <1>4
<1>9. \A i \in 1 .. L : log[Primary][i] # req
  <2> SUFFICES ASSUME NEW i \in 1 .. L, log[Primary][i] = req PROVE FALSE
    OBVIOUS
  <2>1. n <= client_table[Primary][c].num
    BY <1>6, <1>7
  <2> QED BY <2>1, <1>5
<1>10. ASSUME NEW i \in 1 .. L + 1, NEW j \in 1 .. L + 1, i < j PROVE log'[Primary][i] # log'[Primary][j]
  <2>1. i \in 1 .. L /\ log'[Primary][i] = log[Primary][i]
    BY <1>3, <1>10
  <2>2. CASE j \in 1 .. L
    BY <2>1, <2>2, <1>2, <1>3, <1>10 DEF TableInv
  <2>3. CASE j = L + 1
    BY <2>1, <2>3, <1>3, <1>9
  <2> QED BY <2>2, <2>3, <1>4
<1> QED BY <1>3, <1>8, <1>10 DEF TableInv

\* The entry that HandleRequest makes for request n of client c.
Asked(r, c, n) == [client_table[r] EXCEPT ![c] = [client_table[r][c] EXCEPT !.num = n, !.ready = FALSE]]

\* The new entry has its type and keeps the replies of the others.
LEMMA AskedEntries ==
  ASSUME TypeOK, NEW r \in Replicas, NEW c \in Clients, NEW n \in Nat
  PROVE  /\ Asked(r, c, n) \in Entries /\ Answers(r, Asked(r, c, n))
         /\ \A d \in Clients : Asked(r, c, n)[d].num = IF d = c THEN n ELSE client_table[r][d].num
<1> DEFINE E == [client_table[r][c] EXCEPT !.num = n, !.ready = FALSE]
<1>1. client_table[r] \in Entries
  BY TypeParts DEF TypesLeft
<1>2. client_table[r][c] \in [num : Nat, ready : BOOLEAN, reply : Nat]
  BY <1>1 DEF Entries
<1>3. E \in [num : Nat, ready : BOOLEAN, reply : Nat] /\ E.num = n /\ ~E.ready
  BY <1>2
<1>4. Asked(r, c, n) = [client_table[r] EXCEPT ![c] = E]
  BY DEF Asked
<1> HIDE DEF E
<1>5. Asked(r, c, n) \in Entries /\ Asked(r, c, n)[c] = E
      /\ \A d \in Clients \ {c} : Asked(r, c, n)[d] = client_table[r][d]
  BY <1>1, <1>3, <1>4 DEF Entries
<1>6. ASSUME NEW d \in Clients, Asked(r, c, n)[d].ready PROVE Asked(r, c, n)[d] = client_table[r][d]
  <2>1. d # c
    BY <1>3, <1>5, <1>6
  <2> QED BY <2>1, <1>5
<1>7. \A d \in Clients : Asked(r, c, n)[d].num = IF d = c THEN n ELSE client_table[r][d].num
  BY <1>3, <1>5
<1> QED BY <1>5, <1>6, <1>7 DEF Answers

\* A request that is not ordered is answered, or only noted.
LEMMA AnswerKeeps ==
  ASSUME Group, IInv, NEW r \in Replicas, NEW c \in Clients, NEW n \in Nat, n <= client_table[r][c].num,
         replies' = IF n = client_table[r][c].num /\ client_table[r][c].ready
                      THEN replies \cup {Reply(r, [client |-> c, num |-> client_table[r][c].reply])}
                      ELSE replies,
         UNCHANGED <<logVars, request_batch, epilogue_list, sent>>,
         UNCHANGED <<uiVars, close_queued, stopped, clientVars>>
  PROVE  TypesOrder' /\ TypesLeft' /\ OrderInv' /\ VoteInv' /\ ExecInv' /\ TableInv' /\ RepliesInv'
         /\ CompletedIsExecuted' /\ replies' \in SUBSET ReplyType
<1>1. TypeOK /\ OrderInv /\ TableInv /\ RepliesInv /\ DrainInv /\ CompletedIsExecuted /\ NoneStops /\ VoteInv /\ ExecInv
  BY InvParts
<1>2. TypesOrder /\ TypesLeft /\ TypesRest
  BY <1>1, TypeParts
<1>3. /\ log' = log /\ batches' = batches /\ commit_quorum' = commit_quorum /\ committed' = committed
      /\ commit_number' = commit_number /\ client_table' = client_table /\ epilogue_list' = epilogue_list
      /\ next_ui' = next_ui /\ ui_queue' = ui_queue /\ request_batch' = request_batch
      /\ sent' = sent /\ last_req' = last_req /\ pending' = pending /\ received' = received
  BY DEF logVars, uiVars, clientVars
<1>4. TypesOrder' /\ TypesLeft'
  BY <1>2, <1>3 DEF TypesOrder, TypesLeft
<1>5. OrderInv' /\ TableInv'
  BY <1>1, <1>3, OrderSame, TableSame DEF uiVars
<1>6. VoteInv' /\ ExecInv'
  BY <1>1, <1>3, VotesSame
<1>7. CompletedIsExecuted'
  BY <1>1, <1>3 DEF CompletedIsExecuted
<1>8. \A m \in replies' : m \in ReplyType /\ Req(m.client, m.num) \in Done(m.from)
  <2>1. CASE replies' = replies
    BY <2>1, <1>1, <1>2 DEF RepliesInv, TypesRest
  <2>2. CASE client_table[r][c].ready /\ replies' = replies \cup {Reply(r, [client |-> c, num |-> client_table[r][c].reply])}
    <3>1. PICK k : k = client_table[r][c].reply
      OBVIOUS
    <3>2. PICK m : m = Reply(r, [client |-> c, num |-> k])
      OBVIOUS
    <3>3. m.from = r /\ m.client = c /\ m.num = k /\ m = [from |-> r, client |-> c, num |-> k]
      BY <3>2 DEF Reply
    <3>4. k \in Nat
      <4>1. client_table[r][c] \in [num : Nat, ready : BOOLEAN, reply : Nat]
        BY <1>2 DEF TypesLeft, Entries
      <4> QED BY <4>1, <3>1
    <3>5. m \in ReplyType
      BY <3>3, <3>4 DEF ReplyType
    <3>6. Req(c, k) \in Done(r)
      BY <2>2, <3>1, <1>1 DEF RepliesInv
    <3>7. replies' = replies \cup {m}
      BY <2>2, <3>1, <3>2
    <3> QED BY <3>3, <3>5, <3>6, <3>7, <1>1, <1>2 DEF RepliesInv, TypesRest
  <2> QED BY <2>1, <2>2
<1>9. RepliesInv'
  BY <1>1, <1>3, <1>8 DEF RepliesInv, Done
<1> QED BY <1>4, <1>5, <1>6, <1>7, <1>8, <1>9

\* A backup only notes a new request.
LEMMA NoteKeeps ==
  ASSUME Group, IInv, NEW r \in Backups, NEW c \in Clients, NEW n \in Nat,
         client_table' = [client_table EXCEPT ![r] = Asked(r, c, n)],
         UNCHANGED <<log, batches, commit_quorum, committed, commit_number, request_batch, epilogue_list, sent, replies>>,
         UNCHANGED <<uiVars, close_queued, stopped, clientVars>>
  PROVE  TypesOrder' /\ TypesLeft' /\ OrderInv' /\ VoteInv' /\ ExecInv' /\ TableInv' /\ RepliesInv'
         /\ CompletedIsExecuted' /\ replies' \in SUBSET ReplyType
<1>1. TypeOK /\ OrderInv /\ TableInv /\ RepliesInv /\ DrainInv /\ CompletedIsExecuted /\ NoneStops /\ VoteInv /\ ExecInv
  BY InvParts
<1>2. TypesOrder /\ TypesLeft /\ TypesRest /\ r \in Replicas /\ r # Primary /\ Primary \in Replicas
  BY <1>1, TypeParts DEF Backups, Group
<1>3. /\ log' = log /\ batches' = batches /\ commit_quorum' = commit_quorum /\ committed' = committed
      /\ commit_number' = commit_number /\ epilogue_list' = epilogue_list
      /\ next_ui' = next_ui /\ ui_queue' = ui_queue /\ request_batch' = request_batch /\ replies' = replies
      /\ sent' = sent /\ last_req' = last_req /\ pending' = pending /\ received' = received
  BY DEF uiVars, clientVars
<1>4. PICK table \in Entries : table = Asked(r, c, n)
  BY <1>1, <1>2, AskedEntries
<1>5. client_table' \in [Replicas -> Entries] /\ client_table'[r] = table
      /\ \A q \in Replicas \ {r} : client_table'[q] = client_table[q]
  BY <1>2, <1>4 DEF TypesLeft
<1>6. TypesOrder' /\ TypesLeft' /\ replies' \in SUBSET ReplyType
  BY <1>2, <1>3, <1>5 DEF TypesOrder, TypesLeft, TypesRest
<1>7. OrderInv' /\ TableInv'
  BY <1>1, <1>2, <1>3, <1>5, OrderSame, TableSame DEF uiVars
<1>8. VoteInv' /\ ExecInv'
  BY <1>1, <1>3, VotesSame
<1>9. CompletedIsExecuted'
  BY <1>1, <1>3 DEF CompletedIsExecuted
<1>10. RepliesInv'
  <2>1. Answers(r, table)
    BY <1>1, <1>2, <1>4, AskedEntries
  <2>2. ASSUME NEW q \in Replicas, NEW d \in Clients, client_table'[q][d].ready
        PROVE  Req(d, client_table'[q][d].reply) \in Done(q)
    <3>1. client_table'[q][d] = client_table[q][d]
      BY <2>1, <2>2, <1>5 DEF Answers
    <3> QED BY <2>2, <3>1, <1>1 DEF RepliesInv
  <2> QED BY <2>2, <1>1, <1>3 DEF RepliesInv, Done
<1> QED BY <1>6, <1>7, <1>8, <1>9, <1>10

\* The primary logs a new request, and closes the batch when it is full.
LEMMA LogRequestKeeps ==
  ASSUME Group, IInv, NEW c \in Clients, NEW n \in Nat, n > client_table[Primary][c].num, 0 < n,
         NEW req, req = Req(c, n), LogRequest(req, Asked(Primary, c, n)), replies' = replies,
         UNCHANGED <<uiVars, close_queued, stopped, clientVars>>
  PROVE  TypesOrder' /\ TypesLeft' /\ OrderInv' /\ VoteInv' /\ ExecInv' /\ TableInv' /\ RepliesInv'
         /\ CompletedIsExecuted' /\ replies' \in SUBSET ReplyType
<1>1. TypeOK /\ OrderInv /\ TableInv /\ RepliesInv /\ DrainInv /\ CompletedIsExecuted /\ NoneStops /\ VoteInv /\ ExecInv
  BY InvParts
<1>2. TypesOrder /\ TypesLeft /\ TypesRest /\ Primary \in Replicas
  BY <1>1, TypeParts DEF Group
<1>3. req \in Request
  BY DEF Req, Request
<1>4. PICK table \in Entries : table = Asked(Primary, c, n)
  BY <1>1, <1>2, AskedEntries
<1>5. /\ Answers(Primary, table)
      /\ \A d \in Clients : table[d].num = IF d = c THEN n ELSE client_table[Primary][d].num
  BY <1>1, <1>2, <1>4, AskedEntries
<1>6. PICK old \in Seq(Request) : old = log[Primary]
  BY <1>2 DEF TypesOrder
<1>7. PICK wait \in Seq(Request) : wait = request_batch
  BY <1>2 DEF TypesOrder
<1>8. PICK lg \in Seq(Request) : lg = Append(old, req)
  <2>1. Append(old, req) \in Seq(Request)
    BY <1>3
  <2> QED BY <2>1, Zenon
<1>9. PICK reqs \in Seq(Request) : reqs = Append(wait, req)
  <2>1. Append(wait, req) \in Seq(Request)
    BY <1>3
  <2> QED BY <2>1, Zenon
<1>10. /\ log' = [log EXCEPT ![Primary] = lg]
       /\ \/ CloseBatch(lg, reqs, table)
          \/ /\ request_batch' = reqs
             /\ client_table' = [client_table EXCEPT ![Primary] = table]
             /\ UNCHANGED <<batches, commit_quorum, committed, commit_number, epilogue_list, sent>>
  BY <1>4, <1>6, <1>7, <1>8, <1>9, Zenon DEF LogRequest
<1>11. log'[Primary] = lg /\ log'[Primary] = Append(log[Primary], req)
       /\ \A q \in Replicas \ {Primary} : log'[q] = log[q]
  BY <1>2, <1>6, <1>8, <1>10 DEF TypesOrder
<1>12. \A i \in 1 .. Len(log[Primary]) : lg[i] = log[Primary][i]
  <2>1. \A i \in 1 .. Len(old) : lg[i] = old[i]
    BY <1>3, <1>8
  <2> QED BY <2>1, <1>6
<1>13. last_req' = last_req /\ pending' = pending /\ received' = received
       /\ replies' \in SUBSET ReplyType
  BY <1>2 DEF clientVars, TypesRest
<1>14. CASE CloseBatch(lg, reqs, table)
  <2>1. PICK L \in Nat, k \in Nat : L = Len(old) /\ k = Len(wait)
    BY <1>6, <1>7
  <2>2. /\ Closed = L - k /\ 0 <= Closed
        /\ \A i \in 1 .. k : wait[i] = old[Closed + i]
    BY <2>1, <1>1, <1>6, <1>7 DEF Closed, OrderInv, PrimaryInv, PrimaryLog
  <2>3. PICK C \in Nat : C = Closed
    <3>1. L - k \in Int /\ 0 <= L - k
      BY <2>1, <2>2
    <3>2. L - k \in Nat
      BY <3>1
    <3> QED BY <3>2, <2>2, Zenon
  <2>4. /\ Len(lg) = L + 1 /\ lg[L + 1] = req /\ \A i \in 1 .. L : lg[i] = old[i]
        /\ Len(reqs) = k + 1 /\ reqs[k + 1] = req /\ \A i \in 1 .. k : reqs[i] = wait[i]
    BY <2>1, <1>3, <1>8, <1>9
  <2>5. C = L - k /\ C + k = L
    BY <2>1, <2>2, <2>3
  <2>6. C + Len(reqs) = Len(lg)
    BY <2>1, <2>3, <2>4, <2>5
  <2>7. ASSUME NEW i \in 1 .. k + 1 PROVE reqs[i] = lg[C + i]
    <3>1. CASE i \in 1 .. k
      <4>1. C + i \in 1 .. L
        BY <3>1, <2>1, <2>3, <2>5
      <4>2. wait[i] = old[C + i]
        BY <3>1, <2>2, <2>3
      <4> QED BY <4>1, <4>2, <3>1, <2>4
    <3>2. CASE i = k + 1
      <4>1. C + i = L + 1
        BY <3>2, <2>1, <2>3, <2>5
      <4> QED BY <4>1, <3>2, <2>4
    <3> QED BY <3>1, <3>2, <2>1
  <2>8. Closed + Len(reqs) = Len(lg) /\ \A i \in 1 .. Len(reqs) : reqs[i] = lg[Closed + i]
    BY <2>3, <2>4, <2>6, <2>7
  <2>9. UNCHANGED <<uiVars, clientVars, replies>>
    OBVIOUS
  <2>10. /\ TypesLeft' /\ TypesOrder' /\ OrderInv' /\ VoteInv' /\ ExecInv' /\ RepliesInv' /\ CompletedIsExecuted'
         /\ \A d \in Clients : client_table'[Primary][d].num = table[d].num
    BY <2>8, <2>9, <1>1, <1>5, <1>10, <1>12, <1>14, CloseBatchKeeps
  <2>11. TableInv'
    <3>1. \A d \in Clients : client_table'[Primary][d].num = IF d = c THEN n ELSE client_table[Primary][d].num
      BY <2>10, <1>5
    <3> QED BY <3>1, <1>1, <1>3, <1>11, TableAppend
  <2> QED BY <2>10, <2>11, <1>13
<1>15. CASE /\ request_batch' = reqs
            /\ client_table' = [client_table EXCEPT ![Primary] = table]
            /\ UNCHANGED <<batches, commit_quorum, committed, commit_number, epilogue_list, sent>>
  <2>1. AppendStep(req)
    BY <1>6, <1>7, <1>8, <1>9, <1>10, <1>15 DEF AppendStep
  <2>2. OrderInv'
    BY <2>1, <1>1, <1>3, OrderAppend
  <2>3. client_table' \in [Replicas -> Entries] /\ client_table'[Primary] = table
        /\ \A q \in Replicas \ {Primary} : client_table'[q] = client_table[q]
    BY <1>2, <1>15 DEF TypesLeft
  <2>4. TypesOrder' /\ TypesLeft'
    BY <2>3, <1>2, <1>10, <1>15 DEF TypesOrder, TypesLeft, uiVars
  <2>5. TableInv'
    <3>1. \A d \in Clients : client_table'[Primary][d].num = IF d = c THEN n ELSE client_table[Primary][d].num
      BY <2>3, <1>5
    <3> QED BY <3>1, <1>1, <1>3, <1>11, TableAppend
  <2>6. VoteInv' /\ ExecInv'
    BY <1>1, <1>15, VotesSame
  <2>7. Extend
    <3> SUFFICES ASSUME NEW q \in Replicas
                 PROVE  batches[q] \subseteq batches'[q] /\ \A i \in 1 .. Len(log[q]) : log'[q][i] = log[q][i]
      BY DEF Extend
    <3>1. batches[q] \subseteq batches'[q]
      BY <1>15
    <3> QED BY <3>1, <1>11, <1>12
  <2>8. ASSUME NEW q \in Replicas PROVE Done(q) \subseteq Done(q)'
    <3>1. commit_number'[q] \in Nat /\ commit_number[q] <= commit_number'[q]
      BY <1>2, <1>15 DEF TypesLeft
    <3> QED BY <3>1, <2>7, <1>1, DoneGrows
  <2>9. CompletedIsExecuted'
    BY <2>8, <1>1, <1>13, CompletedGrows
  <2>10. RepliesInv'
    <3>1. \A m \in replies : m.from \in Replicas
      BY <1>2 DEF TypesRest, ReplyType
    <3>2. \A m \in replies : Req(m.client, m.num) \in Done(m.from)'
      BY <3>1, <2>8, <1>1 DEF RepliesInv
    <3>3. \A q \in Replicas : \A m \in epilogue_list[q] : m.from = q /\ Req(m.client, m.num) \in Done(q)'
      BY <2>8, <1>1 DEF RepliesInv
    <3>4. ASSUME NEW q \in Replicas, NEW d \in Clients, client_table'[q][d].ready
          PROVE  Req(d, client_table'[q][d].reply) \in Done(q)'
      <4>1. client_table'[q][d] = client_table[q][d]
        BY <3>4, <2>3, <1>5 DEF Answers
      <4> QED BY <3>4, <4>1, <2>8, <1>1 DEF RepliesInv
    <3>5. \A d \in Clients : \A q \in received[d] : Req(d, last_req[d]) \in Done(q)'
      <4>1. \A d \in Clients : \A q \in received[d] : q \in Replicas
        BY <1>2 DEF TypesRest
      <4> QED BY <4>1, <2>8, <1>1 DEF RepliesInv
    <3>6. epilogue_list' = epilogue_list
      BY <1>15
    <3> QED BY <3>2, <3>3, <3>4, <3>5, <3>6, <1>13 DEF RepliesInv
  <2> QED BY <2>2, <2>4, <2>5, <2>6, <2>9, <2>10, <1>13
<1> QED BY <1>10, <1>14, <1>15

\* A request arrives.
LEMMA HandleRequestKeeps ==
  ASSUME Group, IInv, NEW r \in Replicas, NEW c \in Clients, NEW n \in Nat, 0 < n, HandleRequest(r, c, n)
  PROVE  IInv'
<1>1. TypeOK /\ OrderInv /\ TableInv /\ RepliesInv /\ DrainInv /\ CompletedIsExecuted /\ NoneStops /\ VoteInv /\ ExecInv
  BY InvParts
<1>2. TypesOrder /\ TypesLeft /\ TypesRest
  BY <1>1, TypeParts
<1>3. /\ draining = << >> /\ draining' = <<r, r>>
      /\ UNCHANGED <<uiVars, close_queued, stopped, clientVars>>
      /\ \/ /\ n <= client_table[r][c].num
            /\ replies' = IF n = client_table[r][c].num /\ client_table[r][c].ready
                            THEN replies \cup {Reply(r, [client |-> c, num |-> client_table[r][c].reply])}
                            ELSE replies
            /\ UNCHANGED <<logVars, request_batch, epilogue_list, sent>>
         \/ /\ r # Primary
            /\ client_table' = [client_table EXCEPT ![r] = Asked(r, c, n)]
            /\ UNCHANGED <<log, batches, commit_quorum, committed, commit_number,
                           request_batch, epilogue_list, sent, replies>>
         \/ /\ n > client_table[r][c].num /\ r = Primary
            /\ LogRequest(Req(c, n), Asked(r, c, n))
            /\ replies' = replies
  BY DEF HandleRequest, Idle, Asked, Req
<1>4. UNCHANGED <<uiVars, close_queued, stopped, clientVars>>
  BY <1>3
<1>5. TypesOrder' /\ TypesLeft' /\ OrderInv' /\ VoteInv' /\ ExecInv' /\ TableInv' /\ RepliesInv'
      /\ CompletedIsExecuted' /\ replies' \in SUBSET ReplyType
  <2>1. CASE /\ n <= client_table[r][c].num
             /\ replies' = IF n = client_table[r][c].num /\ client_table[r][c].ready
                             THEN replies \cup {Reply(r, [client |-> c, num |-> client_table[r][c].reply])}
                             ELSE replies
             /\ UNCHANGED <<logVars, request_batch, epilogue_list, sent>>
    BY <2>1, <1>4, AnswerKeeps
  <2>2. CASE /\ r # Primary
             /\ client_table' = [client_table EXCEPT ![r] = Asked(r, c, n)]
             /\ UNCHANGED <<log, batches, commit_quorum, committed, commit_number,
                            request_batch, epilogue_list, sent, replies>>
    <3>1. r \in Backups
      BY <2>2 DEF Backups
    <3> QED BY <2>2, <3>1, <1>4, NoteKeeps
  <2>3. CASE /\ n > client_table[r][c].num /\ r = Primary
             /\ LogRequest(Req(c, n), Asked(r, c, n))
             /\ replies' = replies
    BY <2>3, <1>4, LogRequestKeeps
  <2> QED BY <2>1, <2>2, <2>3, <1>3
<1>6. /\ next_ui' = next_ui /\ ui_queue' = ui_queue /\ close_queued' = close_queued /\ stopped' = stopped
      /\ last_req' = last_req /\ pending' = pending /\ received' = received
  BY <1>3 DEF uiVars, clientVars
<1>7. TypeOK'
  <2>1. TypesRest'
    BY <1>2, <1>3, <1>5, <1>6 DEF TypesRest
  <2> QED BY <2>1, <1>5, TypeParts, PTL
<1>8. DrainInv'
  BY <1>1, <1>3, <1>6, DrainElsewhere
<1>9. NoneStops'
  BY <1>1, <1>6 DEF NoneStops
<1> QED BY <1>5, <1>7, <1>8, <1>9 DEF IInv, OrderInv

-----------------------------------------------------------------------------
(***************************************************************************)
(* The theorems.                                                           *)
(***************************************************************************)

\* The initial states.
LEMMA InitIInv ==
  ASSUME Group, Init
  PROVE  IInv
<1>1. TypeOK
  BY DEF Init, TypeOK
<1>2. Primary \in Replicas /\ f \in Nat
  BY DEF Group
<1>3. /\ log = [r \in Replicas |-> << >>] /\ batches = [r \in Replicas |-> {}]
      /\ sent = [r \in Replicas |-> << >>] /\ request_batch = << >>
      /\ next_ui = [r \in Replicas |-> [s \in Replicas |-> 1]]
      /\ ui_queue = [r \in Replicas |-> [s \in Replicas |-> {}]]
      /\ commit_quorum = [r \in Replicas |-> {}] /\ committed = [r \in Replicas |-> {}]
      /\ commit_number = [r \in Replicas |-> 0] /\ stopped = {} /\ last_req = [c \in Clients |-> 0]
      /\ replies = {} /\ epilogue_list = [r \in Replicas |-> {}]
      /\ received = [c \in Clients |-> {}]
  BY DEF Init
<1>4. \A r \in Replicas : Len(log[r]) = 0 /\ Len(sent[r]) = 0 /\ DOMAIN sent[r] = {}
  BY <1>3
<1>5. PrimaryInv
  <2>1. Closed = 0 /\ Len(request_batch) = 0
    BY <1>2, <1>3, <1>4 DEF Closed
  <2> QED BY <2>1, <1>2, <1>3, <1>4 DEF PrimaryInv, PrimaryLog, PrimaryUIs, PrimaryBatches
<1>6. UIInv
  BY <1>3, <1>4 DEF UIInv
<1>7. BackupInv
  <2>1. Closed = 0
    BY <1>2, <1>3, <1>4 DEF Closed
  <2>2. \A r \in Backups : batches[r] = {} /\ Len(log[r]) = 0
    BY <1>3, <1>4 DEF Backups
  <2>3. batches[Primary] = {}
    BY <1>2, <1>3
  <2> QED BY <2>1, <2>2, <2>3 DEF BackupInv
<1>8. VoteInv
  BY <1>3, <1>4 DEF VoteInv, CommitsSent
<1>9. ExecInv
  BY <1>3 DEF ExecInv
<1>10. TableInv
  BY <1>2, <1>4 DEF TableInv
<1>11. RepliesInv
  <2>1. \A r \in Replicas, c \in Clients : ~client_table[r][c].ready
    BY DEF Init
  <2> QED BY <2>1, <1>3 DEF RepliesInv
<1>12. DrainInv /\ NoneStops
  BY <1>3 DEF DrainInv, NoneStops
<1>13. CompletedIsExecuted
  BY <1>3 DEF CompletedIsExecuted
<1> QED BY <1>1, <1>5, <1>6, <1>7, <1>8, <1>9, <1>10, <1>11, <1>12, <1>13 DEF IInv

\* The invariant is about the variables of the specification only.
LEMMA StutterKeeps ==
  ASSUME IInv, UNCHANGED vars
  PROVE  IInv'
<1>1. TypeOK /\ OrderInv /\ TableInv /\ RepliesInv /\ DrainInv /\ CompletedIsExecuted /\ NoneStops /\ VoteInv /\ ExecInv
  BY InvParts
<1>2. /\ UNCHANGED <<logVars, epilogue_list, sent, clientVars, replies>>
      /\ UNCHANGED <<log, batches, sent, request_batch, uiVars>>
      /\ log' = log /\ client_table' = client_table
      /\ next_ui' = next_ui /\ ui_queue' = ui_queue /\ draining' = draining /\ stopped' = stopped
      /\ close_queued' = close_queued
  BY DEF vars, logVars, uiVars, primaryVars
<1>3. TypeOK'
  <2>1. TypesOrder /\ TypesLeft /\ TypesRest
    BY <1>1, TypeParts
  <2>2. TypesOrder' /\ TypesLeft' /\ TypesRest'
    BY <2>1, <1>2 DEF TypesOrder, TypesLeft, TypesRest, logVars, uiVars, clientVars
  <2> QED BY <2>2, TypeParts, PTL
<1>4. OrderInv' /\ DrainInv' /\ NoneStops'
  BY <1>1, <1>2, OrderSame DEF DrainInv, NoneStops
<1>5. TableInv'
  BY <1>1, <1>2 DEF TableInv
<1>6. VoteInv' /\ ExecInv' /\ RepliesInv' /\ CompletedIsExecuted'
  BY <1>1, <1>2, SameKeeps
<1> QED BY <1>3, <1>4, <1>5, <1>6 DEF IInv, OrderInv

\* Every reachable state of MinBFT satisfies the inductive invariant, for every
\* group of 2f+1 replicas.
THEOREM Inductive == ASSUME Group PROVE Spec => []IInv
<1>1. Init => IInv
  BY InitIInv
<1>2. IInv /\ [Next]_vars => IInv'
  <2> SUFFICES ASSUME IInv, [Next]_vars PROVE IInv'
    OBVIOUS
  <2>1. Primary \in Replicas /\ Hear \subseteq Replicas
    BY DEF Group
  <2>2. ASSUME NEW c \in Clients, Invoke(c) PROVE IInv'
    BY <2>2, InvokeKeeps
  <2>3. ASSUME NEW c \in Clients, NEW m \in replies, ReceiveReply(c, m) PROVE IInv'
    BY <2>3, ReceiveReplyKeeps
  <2>4. ASSUME NEW r \in Hear, NEW c \in Clients, NEW n \in 1 .. last_req[c], HandleRequest(r, c, n) PROVE IInv'
    <3>1. r \in Replicas /\ n \in Nat /\ 0 < n
      BY <2>1 DEF IInv, TypeOK
    <3> QED BY <2>4, <3>1, HandleRequestKeeps
  <2>5. CASE CloseBatchTimeout
    BY <2>5, CloseBatchTimeoutKeeps
  <2>6. CASE RunCloseBatch
    BY <2>6, RunCloseBatchKeeps
  <2>7. ASSUME NEW r \in Replicas, NEW s \in Replicas, NEW ui \in DOMAIN sent[s], StoreUI(r, s, ui) PROVE IInv'
    BY <2>7, StoreUIKeeps
  <2>8. ASSUME NEW r \in Replicas, NEW s \in Replicas, ReceiveUI(r, s) PROVE IInv'
    BY <2>8, ReceiveUIKeeps
  <2>9. ASSUME NEW r \in Replicas, NEW s \in Replicas, Drain(r, s) PROVE IInv'
    BY <2>9, DrainKeeps
  <2>10. ASSUME NEW r \in Replicas, NEW s \in Replicas, ConcludeEpilogue(r, s) PROVE IInv'
    BY <2>10, ConcludeEpilogueKeeps
  <2>11. CASE UNCHANGED vars
    BY <2>11, StutterKeeps
  <2> QED BY <2>2, <2>3, <2>4, <2>5, <2>6, <2>7, <2>8, <2>9, <2>10, <2>11 DEF Next
<1> QED BY <1>1, <1>2, PTL DEF Spec

\* Any log is the beginning of the primary's.
LEMMA LogsArePrefixes ==
  ASSUME Group, IInv, NEW r \in Replicas
  PROVE  Len(log[r]) <= Len(log[Primary]) /\ \A i \in 1 .. Len(log[r]) : log[r][i] = log[Primary][i]
<1>1. Len(log[Primary]) \in Nat /\ Len(log[r]) \in Nat /\ Len(request_batch) \in Nat
  <2>1. log[Primary] \in Seq(Request) /\ log[r] \in Seq(Request) /\ request_batch \in Seq(Request)
    BY DEF IInv, TypeOK, Group
  <2> QED BY <2>1
<1>2. CASE r = Primary
  BY <1>1, <1>2
<1>3. CASE r # Primary
  <2>1. Len(log[r]) <= Closed /\ \A i \in 1 .. Len(log[r]) : log[r][i] = log[Primary][i]
    BY <1>3 DEF IInv, BackupInv, Backups
  <2> QED BY <1>1, <2>1 DEF Closed
<1> QED BY <1>2, <1>3

\* The logs agree because each begins like the primary's.
LEMMA LogsAgree == ASSUME Group PROVE IInv => Agreement
<1> SUFFICES ASSUME IInv, NEW r \in Replicas, NEW s \in Replicas, NEW i \in 1 .. Len(log[r]), i <= Len(log[s])
             PROVE  log[r][i] = log[s][i]
  BY DEF Agreement
<1>1. Len(log[s]) \in Nat /\ Len(log[r]) \in Nat
  <2>1. log[s] \in Seq(Request) /\ log[r] \in Seq(Request)
    BY DEF IInv, TypeOK
  <2> QED BY <2>1
<1>2. i \in 1 .. Len(log[s])
  BY <1>1
<1> QED BY <1>2, LogsArePrefixes

\* Replicas never have different requests at one opnum, however their messages are
\* reordered and their solos interleave (ui_queue, HandlePrepare).
THEOREM AgreementHolds == ASSUME Group PROVE Spec => []Agreement
BY Inductive, LogsAgree, PTL

\* No log has a request twice because the primary's has not.
LEMMA NoneTwice == ASSUME Group PROVE IInv => AtMostOnce
<1> SUFFICES ASSUME IInv, NEW r \in Replicas, NEW i \in 1 .. Len(log[r]), NEW j \in 1 .. Len(log[r]),
                    log[r][i] = log[r][j]
             PROVE  i = j
  BY DEF AtMostOnce
<1>1. PICK k \in Nat, n \in Nat : k = Len(log[r]) /\ n = Len(log[Primary])
  <2>1. log[Primary] \in Seq(Request) /\ log[r] \in Seq(Request)
    BY DEF IInv, TypeOK, Group
  <2> QED BY <2>1
<1>2. k <= n /\ log[Primary][i] = log[Primary][j]
  BY <1>1, LogsArePrefixes
<1>3. i \in 1 .. n /\ j \in 1 .. n
  BY <1>1, <1>2
<1>4. ~(i < j) /\ ~(j < i)
  BY <1>1, <1>2, <1>3 DEF IInv, TableInv
<1> QED BY <1>3, <1>4

\* No request is ordered twice, although clients resend it (HandleRequest).
THEOREM AtMostOnceHolds == ASSUME Group PROVE Spec => []AtMostOnce
BY Inductive, NoneTwice, PTL

\* What is executed is in a batch of f+1 replicas.
LEMMA ExecutedHeld == ASSUME Group PROVE IInv => ExecutedIsReplicated
<1> SUFFICES ASSUME IInv, NEW r \in Replicas, NEW i \in 1 .. commit_number[r]
             PROVE  Cardinality({s \in Replicas : i <= Len(log[s]) /\ log[s][i] = log[r][i]}) >= f + 1
  BY DEF ExecutedIsReplicated
<1>1. TypeOK /\ OrderInv /\ ExecInv
  BY InvParts
<1>2. PICK b \in batches[r] : b.low <= i /\ i <= b.high /\ Cardinality(Holders(b.ui)) >= f + 1
  BY <1>1 DEF ExecInv
<1>3. b \in BatchType /\ 1 <= b.low /\ b.high <= Len(log[r]) /\ \A c \in batches[Primary] : c.ui = b.ui => c = b
  BY <1>1, BatchesAgree
<1>4. \A s \in Replicas : Len(log[s]) \in Nat
  <2>1. \A s \in Replicas : log[s] \in Seq(Request)
    BY <1>1, OrderTypes
  <2> QED BY <2>1
<1>5. i \in Nat /\ 1 <= i /\ i <= b.high /\ b.high \in Nat
  BY <1>1, <1>2, <1>3 DEF TypeOK, BatchType
<1>6. i \in 1 .. Len(log[r])
  BY <1>3, <1>4, <1>5
<1> DEFINE T == {s \in Replicas : i <= Len(log[s]) /\ log[s][i] = log[r][i]}
<1>7. ASSUME NEW s \in Holders(b.ui) PROVE s \in T
  <2>1. PICK c \in batches[s] : c.ui = b.ui /\ s \in Replicas
    BY DEF Holders, HasBatch
  <2>2. c \in batches[Primary] /\ c.high <= Len(log[s])
    BY <1>1, <2>1, BatchesAgree
  <2>3. c = b
    BY <1>3, <2>1, <2>2
  <2>4. i <= Len(log[s])
    BY <1>4, <1>5, <2>1, <2>2, <2>3
  <2>5. log[s][i] = log[r][i]
    BY <1>6, <2>1, <2>4, LogsAgree DEF Agreement
  <2> QED BY <2>1, <2>4, <2>5
<1>8. Holders(b.ui) \subseteq T /\ T \subseteq Replicas
  BY <1>7
<1>9. IsFiniteSet(Replicas) /\ f + 1 \in Nat
  BY DEF Group
<1> HIDE DEF T
<1>10. Cardinality(T) >= f + 1
  BY <1>2, <1>8, <1>9, MoreIsEnough
<1> QED BY <1>10 DEF T

\* What a replica executed is in the logs of f+1 replicas (AddCommit, SendCommit).
THEOREM ExecutedIsReplicatedHolds == ASSUME Group PROVE Spec => []ExecutedIsReplicated
BY Inductive, ExecutedHeld, PTL

\* A request that a client saw completed was executed by f+1 replicas, although it
\* counts replies whatever their results are (ReceiveReply).
THEOREM CompletedIsExecutedHolds == ASSUME Group PROVE Spec => []CompletedIsExecuted
<1>1. IInv => CompletedIsExecuted
  BY DEF IInv
<1> QED BY <1>1, Inductive, PTL

\* No replica of a group with f = 1 meets the case that AddCommit leaves out.
THEOREM NoneStopsHolds == ASSUME Group PROVE Spec => []NoneStops
<1>1. IInv => NoneStops
  BY DEF IInv
<1> QED BY <1>1, Inductive, PTL

\* Outside of a solo the next message of a sender waits only behind a duplicate
\* of an old one (the loop that drains ui_queue).
THEOREM WaitsBehindDuplicateHolds == ASSUME Group PROVE Spec => []WaitsBehindDuplicate
<1>1. IInv => WaitsBehindDuplicate
  BY DEF IInv, DrainInv, WaitsBehindDuplicate, Idle
<1> QED BY <1>1, Inductive, PTL

-----------------------------------------------------------------------------
(***************************************************************************)
(* MinBFT replicates one log, if a replica may fail.                       *)
(***************************************************************************)

\* The operator that ReplicatedLog counts with.
LEMMA SameCardinality == ASSUME NEW S PROVE Replicated!Cardinality(S) = Cardinality(S)
BY DEF Replicated!Cardinality, Cardinality

\* What is executed is in the log, and so is a beginning of the primary's.
LEMMA ExecutedIsPrefix ==
  ASSUME Group, IInv, NEW r \in Replicas
  PROVE  /\ commit_number[r] \in Nat /\ Len(log[Primary]) \in Nat
         /\ commit_number[r] <= Len(log[Primary])
         /\ ExecutedLog[r] = [i \in 1 .. commit_number[r] |-> log[Primary][i]]
<1>1. /\ commit_number[r] \in Nat /\ Len(log[r]) \in Nat /\ Len(log[Primary]) \in Nat
  <2>1. log[r] \in Seq(Request) /\ log[Primary] \in Seq(Request) /\ commit_number[r] \in Nat
    BY DEF IInv, TypeOK, Group
  <2> QED BY <2>1
<1>2. commit_number[r] <= Len(log[r])
  <2>1. TypeOK /\ OrderInv /\ ExecInv
    BY InvParts
  <2>2. CASE commit_number[r] = 0
    BY <2>2, <1>1
  <2>3. CASE commit_number[r] # 0
    <3>1. commit_number[r] \in committed[r]
      <4>1. commit_number[r] \in 1 .. commit_number[r]
        BY <2>3, <1>1
      <4> QED BY <4>1, <2>1 DEF ExecInv
    <3>2. PICK b \in batches[r] : commit_number[r] <= b.high
      BY <2>1, <3>1 DEF ExecInv
    <3>3. b.high \in Nat /\ b.high <= Len(log[r])
      BY <2>1, BatchesAgree DEF BatchType
    <3> QED BY <1>1, <3>2, <3>3
  <2> QED BY <2>2, <2>3
<1>3. Len(log[r]) <= Len(log[Primary]) /\ \A i \in 1 .. Len(log[r]) : log[r][i] = log[Primary][i]
  BY LogsArePrefixes
<1>4. \A i \in 1 .. commit_number[r] : log[r][i] = log[Primary][i]
  BY <1>1, <1>2, <1>3
<1>5. ExecutedLog[r] = [i \in 1 .. commit_number[r] |-> log[r][i]]
  BY DEF ExecutedLog
<1> QED BY <1>1, <1>2, <1>3, <1>4, <1>5

\* The same of every replica, as a state predicate.
ExecutedPrefixes ==
  \A r \in Replicas :
    /\ commit_number[r] <= Len(log[Primary])
    /\ ExecutedLog[r] = [i \in 1 .. commit_number[r] |-> log[Primary][i]]

\* It follows from the invariant, before and after every step.
LEMMA PrefixesHold == ASSUME Group PROVE IInv => ExecutedPrefixes
BY ExecutedIsPrefix DEF ExecutedPrefixes

\* While the primary's log grows and nobody executes, what is executed stays.
LEMMA ExecutedLogFrame ==
  ASSUME Group, IInv, IInv', UNCHANGED commit_number,
         \A i \in 1 .. Len(log[Primary]) : log'[Primary][i] = log[Primary][i]
  PROVE  ExecutedLog' = ExecutedLog
<1>0. ExecutedPrefixes'
  BY PrefixesHold, PTL
<1>1. ASSUME NEW r \in Replicas PROVE ExecutedLog'[r] = ExecutedLog[r]
  <2>1. /\ commit_number[r] \in Nat /\ Len(log[Primary]) \in Nat /\ commit_number[r] <= Len(log[Primary])
        /\ ExecutedLog[r] = [i \in 1 .. commit_number[r] |-> log[Primary][i]]
    BY ExecutedIsPrefix
  <2>2. ExecutedLog'[r] = [i \in 1 .. commit_number'[r] |-> log'[Primary][i]]
    BY <1>0 DEF ExecutedPrefixes
  <2>3. \A i \in 1 .. commit_number[r] : log'[Primary][i] = log[Primary][i]
    BY <2>1
  <2> QED BY <2>1, <2>2, <2>3
<1>2. /\ ExecutedLog' = [r \in Replicas |-> ExecutedLog'[r]]
      /\ ExecutedLog = [r \in Replicas |-> ExecutedLog[r]]
  BY DEF ExecutedLog
<1> QED BY ONLY <1>1, <1>2

\* A step that changes no client, not the primary's log, and the executions of one
\* replica only, is one that executes what comes next, or nothing.
LEMMA ExecutionRefines ==
  ASSUME Group, IInv, IInv', NEW r \in Replicas, NEW k \in Nat,
         log'[Primary] = log[Primary], UNCHANGED clientVars,
         commit_number' = [commit_number EXCEPT ![r] = @ + k]
  PROVE  [Replicated!Next]_Replicated!vars
<1> DEFINE n == commit_number[r]
           lg == log[Primary]
<1>1. /\ n \in Nat /\ Len(lg) \in Nat
      /\ ExecutedLog[r] = [i \in 1 .. n |-> lg[i]]
  BY ExecutedIsPrefix
<1>2. /\ commit_number'[r] = n + k
      /\ \A s \in Replicas : s # r => commit_number'[s] = commit_number[s]
  BY DEF IInv, TypeOK
<1>3. \A s \in Replicas : /\ ExecutedLog'[s] = [i \in 1 .. commit_number'[s] |-> log'[Primary][i]]
                          /\ commit_number'[s] <= Len(log'[Primary])
  <2>1. ExecutedPrefixes'
    BY PrefixesHold, PTL
  <2> QED BY <2>1 DEF ExecutedPrefixes
<1>4. n + k <= Len(lg) /\ ExecutedLog'[r] = [i \in 1 .. n + k |-> lg[i]]
  BY <1>2, <1>3
<1>5. \A s \in Replicas : s # r => ExecutedLog'[s] = ExecutedLog[s]
  <2> SUFFICES ASSUME NEW s \in Replicas, s # r PROVE ExecutedLog'[s] = ExecutedLog[s]
    OBVIOUS
  <2>1. ExecutedLog[s] = [i \in 1 .. commit_number[s] |-> log[Primary][i]]
    BY ExecutedIsPrefix
  <2> QED BY <1>2, <1>3, <2>1
<1>6. /\ ExecutedLog' = [s \in Replicas |-> ExecutedLog'[s]]
      /\ ExecutedLog = [s \in Replicas |-> ExecutedLog[s]]
  BY DEF ExecutedLog
<1>7. last_req' = last_req /\ Waiting' = Waiting
  BY DEF clientVars, Waiting
<1>8. CASE k = 0
  <2>1. ExecutedLog'[r] = ExecutedLog[r]
    BY <1>1, <1>4, <1>8
  <2>2. ExecutedLog' = ExecutedLog
    BY ONLY <1>5, <1>6, <2>1
  <2> QED BY <1>7, <2>2 DEF Replicated!vars
<1>9. CASE k # 0
  <2> DEFINE new == [i \in 1 .. n + k |-> lg[i]]
  <2>1. DOMAIN ExecutedLog[r] = 1 .. n /\ DOMAIN ExecutedLog'[r] = 1 .. n + k
    BY <1>1, <1>4
  <2>2. /\ n + k \in (1 .. n + k) \ (1 .. n)
        /\ 1 .. n \subseteq 1 .. n + k /\ 1 .. n + k \subseteq 1 .. Len(lg)
        /\ \A i \in 1 .. n, j \in (1 .. n + k) \ (1 .. n) : i < j
    BY <1>1, <1>4, <1>9
  <2>3. Replicated!NoGap(1 .. n + k)
    BY <1>1 DEF Replicated!NoGap
  <2>4. ExecutedLog' = [ExecutedLog EXCEPT ![r] = new]
    <3>1. ExecutedLog'[r] = new
      BY <1>4
    <3> HIDE DEF new
    <3> QED BY <1>5, <1>6, <3>1, ExceptIs
  <2> HIDE DEF n
  <2>5. Replicated!Execute(r)
    BY <1>7, <2>1, <2>2, <2>3, <2>4 DEF Replicated!Execute
  <2> QED BY <2>5 DEF Replicated!Next
<1> QED BY <1>8, <1>9

\* An AddCommit executes some of what comes next, or nothing.
LEMMA AddCommitExecutes ==
  ASSUME TypeOK, NEW r \in Replicas, NEW ui, NEW s, NEW lg \in Seq(Request), NEW table, NEW known,
         AddCommit(r, ui, s, lg, table, known)
  PROVE  \E k \in Nat : commit_number' = [commit_number EXCEPT ![r] = @ + k]
<1>1. commit_number \in [Replicas -> Nat]
  BY DEF TypeOK
<1>2. CASE commit_number' = commit_number
  <2>1. commit_number' = [commit_number EXCEPT ![r] = @ + 0]
    BY <1>1, <1>2
  <2> QED BY <2>1
<1>3. ASSUME NEW done, commit_number' = [commit_number EXCEPT ![r] = @ + Cardinality(Executable(r, lg, done))]
      PROVE  \E k \in Nat : commit_number' = [commit_number EXCEPT ![r] = @ + k]
  <2>1. Cardinality(Executable(r, lg, done)) \in Nat
    BY <1>1, ExecutableIsInterval
  <2> QED BY <1>3, <2>1
<1> QED BY <1>2, <1>3 DEF AddCommit, Execute

\* The primary's own COMMIT is the first for its batch, and does not execute it.
LEMMA CloseBatchExecutesNone ==
  ASSUME Group, f > 0, IInv, NEW lg, NEW reqs, NEW table, CloseBatch(lg, reqs, table)
  PROVE  UNCHANGED commit_number
<1> DEFINE ui == Len(sent[Primary]) + 1
<1>1. Primary \in Replicas /\ f \in Nat
  BY DEF Group
<1>2. Len(sent[Primary]) \in Nat
  <2>1. sent[Primary] \in Seq(Message)
    BY <1>1, OrderTypes DEF IInv
  <2> QED BY <2>1
<1>3. Committers(Primary, ui) = {}
  <2> SUFFICES ASSUME NEW s \in Replicas, <<ui, s>> \in commit_quorum[Primary] PROVE FALSE
    BY DEF Committers
  <2>1. HasBatch(s, ui)
    BY <1>1 DEF IInv, VoteInv
  <2>2. PICK b \in batches[s] : b.ui = ui
    BY <2>1 DEF HasBatch
  <2>3. b \in batches[Primary]
    BY <2>2, BatchesAgree, InvParts
  <2>4. IsPrepare(ui)
    BY <2>2, <2>3 DEF IInv, PrimaryInv, PrimaryBatches
  <2>5. ui \in DOMAIN sent[Primary]
    BY <2>4 DEF IsPrepare
  <2> QED BY <1>2, <2>5
<1>4. Cardinality(Committers(Primary, ui) \cup {Primary}) < f + 1
  <2>1. Committers(Primary, ui) \cup {Primary} = {Primary}
    BY <1>3
  <2>2. Cardinality({Primary}) = 1
    BY FS_Singleton
  <2>3. Cardinality(Committers(Primary, ui) \cup {Primary}) = 1
    BY ONLY <2>1, <2>2, Zenon
  <2>4. 1 < f + 1
    BY ONLY <1>1, f > 0
  <2> QED BY ONLY <2>3, <2>4, Zenon
<1> QED BY <1>4 DEF CloseBatch, SendCommit, AddCommit

\* A message that a replica handles may let it execute what comes next.
LEMMA MessageRefines ==
  ASSUME Group, IInv, IInv', NEW r \in Replicas, NEW s \in Replicas, r # s,
         next_ui[r][s] \in DOMAIN sent[s], HandleUI(r, s, next_ui[r][s]), UNCHANGED clientVars
  PROVE  [Replicated!Next]_Replicated!vars
<1>1. /\ log \in [Replicas -> Seq(Request)] /\ commit_number \in [Replicas -> Nat]
      /\ sent \in [Replicas -> Seq(Message)] /\ Primary \in Replicas /\ TypeOK
  BY OrderTypes DEF IInv, TypeOK, Group
<1>2. PICK m \in Message : m = sent[s][next_ui[r][s]]
  BY <1>1
<1>3. CASE m.type = "prepare" /\ HandlePrepare(r, next_ui[r][s], m.reqs)
  <2>1. r # Primary /\ log'[Primary] = log[Primary]
    <3>1. s = Primary
      BY <1>2, <1>3 DEF IInv, UIInv
    <3> QED BY <1>1, <1>3, <3>1 DEF HandlePrepare
  <2>2. PICK lg \in Seq(Request) : lg = log[r] \o m.reqs
    <3>1. m.reqs \in Seq(Request) /\ log[r] \in Seq(Request)
      BY <1>1, <1>3, MessageFields
    <3> QED BY <3>1, ConcatLength
  <2>3. PICK known, ui : AddCommit(r, ui, r, lg, client_table[r], known)
    BY <1>3, <2>2 DEF HandlePrepare, SendCommit
  <2>4. PICK k \in Nat : commit_number' = [commit_number EXCEPT ![r] = @ + k]
    BY <1>1, <2>3, AddCommitExecutes
  <2> QED BY <2>1, <2>4, ExecutionRefines
<1>4. CASE m.type = "commit" /\ HandleCommit(r, s, m.ui)
  <2>1. log' = log
    BY <1>4 DEF HandleCommit, logVars
  <2>2. PICK k \in Nat : commit_number' = [commit_number EXCEPT ![r] = @ + k]
    <3>1. CASE AddCommit(r, m.ui, s, log[r], client_table[r], batches[r])
      BY <1>1, <3>1, AddCommitExecutes
    <3>2. CASE commit_number' = commit_number
      <4>1. commit_number' = [commit_number EXCEPT ![r] = @ + 0]
        BY <1>1, <3>2
      <4> QED BY <4>1
    <3> QED BY <1>4, <3>1, <3>2 DEF HandleCommit, logVars
  <2> QED BY <2>1, <2>2, ExecutionRefines
<1> QED BY <1>2, <1>3, <1>4 DEF HandleUI

\* The primary's log grows by the request it is asked for.
LEMMA RequestRefines ==
  ASSUME Group, f > 0, IInv, IInv', NEW r \in Replicas, NEW c \in Clients, NEW n \in 1 .. last_req[c],
         HandleRequest(r, c, n)
  PROVE  [Replicated!Next]_Replicated!vars
<1>1. /\ Primary \in Replicas /\ log \in [Replicas -> Seq(Request)]
  BY OrderTypes DEF IInv, TypeOK, Group
<1>2. last_req' = last_req /\ Waiting' = Waiting
  BY DEF HandleRequest, clientVars, Waiting
<1>3. CASE log' = log /\ commit_number' = commit_number
  <2>1. ExecutedLog' = ExecutedLog
    BY <1>3, ExecutedLogFrame
  <2> QED BY <1>2, <1>3, <2>1 DEF Replicated!vars
<1>4. ASSUME NEW table, LogRequest([client |-> c, num |-> n], table)
      PROVE  [Replicated!Next]_Replicated!vars
  <2> DEFINE req == [client |-> c, num |-> n]
  <2>1. PICK lg \in Seq(Request) : lg = log[Primary]
    BY <1>1
  <2>2. req \in Request
    BY DEF Request, IInv, TypeOK
  <2>3. log'[Primary] = Append(lg, req)
    BY <1>1, <1>4, <2>1 DEF LogRequest
  <2>4. commit_number' = commit_number
    BY <1>4, CloseBatchExecutesNone DEF LogRequest
  <2>5. req = Replicated!Request(c, n)
    BY DEF Replicated!Request
  <2> HIDE DEF req
  <2>6. /\ Len(lg) \in Nat /\ Len(log'[Primary]) = Len(lg) + 1
        /\ \A i \in 1 .. Len(lg) : log'[Primary][i] = lg[i]
        /\ log'[Primary][Len(lg) + 1] = req
    BY <2>2, <2>3
  <2>7. \A i \in Len(lg) + 1 .. Len(log'[Primary]) : log'[Primary][i] = req
    BY <2>6
  <2>8. ExecutedLog' = ExecutedLog
    BY <2>1, <2>4, <2>6, ExecutedLogFrame
  <2>9. Len(lg) < Len(log'[Primary])
    BY <2>6
  <2>10. Replicated!Order
    BY <1>2, <2>1, <2>5, <2>6, <2>7, <2>8, <2>9 DEF Replicated!Order
  <2> QED BY <2>10 DEF Replicated!Next
<1> QED BY <1>3, <1>4 DEF HandleRequest, logVars

\* A client's step invokes a request, completes one, or changes neither.
LEMMA ClientRefines ==
  ASSUME Group, IInv, IInv', NEW c \in Clients,
         Invoke(c) \/ \E m \in replies : ReceiveReply(c, m)
  PROVE  [Replicated!Next]_Replicated!vars
<1>1. log' = log /\ commit_number' = commit_number
  BY DEF Invoke, ReceiveReply, logVars
<1>2. ExecutedLog' = ExecutedLog
  BY <1>1 DEF ExecutedLog
<1>3. /\ last_req \in [Clients -> Nat] /\ pending \in [Clients -> BOOLEAN]
  BY DEF IInv, TypeOK
<1>4. /\ Waiting = [d \in Clients |-> IF pending[d] THEN last_req[d] ELSE 0]
      /\ Waiting' = [d \in Clients |-> IF pending'[d] THEN last_req'[d] ELSE 0]
  BY DEF Waiting
<1>5. CASE Invoke(c)
  <2>1. /\ ~pending[c] /\ last_req' = [last_req EXCEPT ![c] = @ + 1]
        /\ pending' = [pending EXCEPT ![c] = TRUE]
    BY <1>5 DEF Invoke
  <2>2. Waiting[c] = 0 /\ Waiting' = [Waiting EXCEPT ![c] = last_req'[c]]
    BY <1>3, <1>4, <2>1
  <2>3. Replicated!Invoke(c)
    BY <1>1, <1>2, <2>1, <2>2 DEF Replicated!Invoke
  <2> QED BY <2>3 DEF Replicated!Next
<1>6. ASSUME NEW m \in replies, ReceiveReply(c, m)
      PROVE  [Replicated!Next]_Replicated!vars
  <2> DEFINE n == last_req[c]
             S == {r \in Replicas : \E i \in DOMAIN ExecutedLog[r] :
                     ExecutedLog[r][i] = Replicated!Request(c, n)}
  <2>1. PICK p \in BOOLEAN : pending' = [pending EXCEPT ![c] = p]
    <3>1. PICK p : p = (Cardinality(received[c] \cup {m.from}) < f + 1)
      OBVIOUS
    <3>2. p \in BOOLEAN
      BY <3>1
    <3>3. pending' = [pending EXCEPT ![c] = p]
      BY <1>6, <3>1 DEF ReceiveReply
    <3> QED BY <3>2, <3>3
  <2>2. pending[c] /\ m.client = c /\ m.num = n /\ last_req' = last_req
    BY <1>6 DEF ReceiveReply
  <2>3. CASE p
    <3>1. pending' = pending
      BY <1>3, <2>1, <2>2, <2>3
    <3>2. Waiting' = Waiting
      BY <1>4, <2>2, <3>1
    <3> QED BY <1>1, <1>2, <2>2, <3>2 DEF Replicated!vars
  <2>4. CASE ~p
    <3>1. n \in Nat /\ n # 0
      <4>1. m.from \in Replicas /\ Req(c, n) \in Done(m.from)
        BY <2>2 DEF IInv, TypeOK, RepliesInv
      <4>2. PICK i \in 1 .. commit_number[m.from] : log[m.from][i] = Req(c, n)
        BY <4>1 DEF Done
      <4>3. i \in 1 .. commit_number[m.from] /\ ExecutedLog[m.from][i] = log[m.from][i]
        BY <4>1, <4>2 DEF ExecutedLog
      <4>4. /\ commit_number[m.from] \in Nat /\ Len(log[Primary]) \in Nat
            /\ commit_number[m.from] <= Len(log[Primary])
            /\ ExecutedLog[m.from] = [j \in 1 .. commit_number[m.from] |-> log[Primary][j]]
        BY <4>1, ExecutedIsPrefix
      <4>5. i \in 1 .. Len(log[Primary]) /\ log[Primary][i] = Req(c, n)
        BY <4>2, <4>3, <4>4
      <4>6. log[Primary] \in Seq(Request)
        BY DEF IInv, TypeOK, Group
      <4>7. Req(c, n) \in Request
        BY <4>5, <4>6
      <4> QED BY <4>7 DEF Req, Request
    <3>2. Waiting[c] = n /\ Waiting' = [Waiting EXCEPT ![c] = 0]
      BY <1>3, <1>4, <2>1, <2>2, <2>4
    <3>3. ~pending'[c] /\ n \in 1 .. last_req'[c] /\ n = last_req'[c]
      BY <1>3, <2>1, <2>2, <2>4, <3>1
    <3>4. Cardinality({r \in Replicas : \E i \in 1 .. commit_number'[r] :
                        log'[r][i] = [client |-> c, num |-> n]}) >= f + 1
      BY <3>3 DEF IInv, CompletedIsExecuted
    <3>5. S = {r \in Replicas : \E i \in 1 .. commit_number'[r] : log'[r][i] = [client |-> c, num |-> n]}
      BY <1>1 DEF ExecutedLog, Replicated!Request
    <3> HIDE DEF S
    <3>6. Cardinality(S) >= f + 1
      BY <3>4, <3>5
    <3>7. Replicated!Answer(c)
      BY <1>1, <1>2, <2>2, <3>1, <3>2, <3>6, SameCardinality DEF Replicated!Answer, S
    <3> QED BY <3>7 DEF Replicated!Next
  <2> QED BY <2>3, <2>4
<1> QED BY <1>5, <1>6

\* Every step of MinBFT is a step of ReplicatedLog, or changes nothing it speaks of.
LEMMA NextRefines ==
  ASSUME Group, f > 0, IInv, IInv', [Next]_vars
  PROVE  [Replicated!Next]_Replicated!vars
<1>1. ASSUME log' = log, commit_number' = commit_number, UNCHANGED clientVars
      PROVE  [Replicated!Next]_Replicated!vars
  BY <1>1 DEF Replicated!vars, ExecutedLog, Waiting, clientVars
<1>2. ASSUME NEW r \in Hear, NEW c \in Clients, NEW n \in 1 .. last_req[c], HandleRequest(r, c, n)
      PROVE  [Replicated!Next]_Replicated!vars
  BY <1>2, RequestRefines DEF Group
<1>3. CASE UNCHANGED vars \/ CloseBatchTimeout
  BY <1>1, <1>3 DEF vars, CloseBatchTimeout, logVars
<1>4. CASE RunCloseBatch
  <2>1. log' = log /\ UNCHANGED clientVars /\ commit_number' = commit_number
    BY <1>4, CloseBatchExecutesNone DEF RunCloseBatch
  <2> QED BY <1>1, <2>1
<1>5. ASSUME NEW r \in Replicas, NEW s \in Replicas,
             ConcludeEpilogue(r, s) \/ \E ui \in DOMAIN sent[s] : StoreUI(r, s, ui)
      PROVE  [Replicated!Next]_Replicated!vars
  <2>1. log' = log /\ UNCHANGED clientVars /\ commit_number' = commit_number
    BY <1>5 DEF ConcludeEpilogue, StoreUI, logVars
  <2> QED BY <1>1, <2>1
<1>6. ASSUME NEW r \in Replicas, NEW s \in Replicas, ReceiveUI(r, s) \/ Drain(r, s)
      PROVE  [Replicated!Next]_Replicated!vars
  <2>1. /\ HandleUI(r, s, next_ui[r][s]) /\ UNCHANGED clientVars
    BY <1>6 DEF ReceiveUI, Drain
  <2>2. r # s /\ next_ui[r][s] \in DOMAIN sent[s]
    BY <1>6 DEF ReceiveUI, Drain, SmallestIs, IInv, UIInv
  <2> QED BY <2>1, <2>2, MessageRefines
<1> QED BY <1>2, <1>3, <1>4, <1>5, <1>6, ClientRefines DEF Next

\* MinBFT, whatever overtakes what and is sent again, is a log that all replicas
\* execute in one order, without a gap, whose answers f+1 replicas stand for
\* (HandleRequest, HandlePrepare, AddCommit, and the client's HandleReply).
THEOREM ReplicatesLogHolds == ASSUME Group, f > 0 PROVE Spec => ReplicatesLog
<1>1. Init => Replicated!Init
  <2> SUFFICES ASSUME Init PROVE Replicated!Init
    OBVIOUS
  <2>1. log[Primary] = <<>> /\ <<>> \in Seq({})
    BY DEF Init, Group
  <2>2. ExecutedLog = [r \in Replicas |-> <<>>]
    <3>1. \A r \in Replicas : [i \in 1 .. commit_number[r] |-> log[r][i]] = <<>>
      BY DEF Init
    <3> QED BY <3>1 DEF ExecutedLog
  <2>3. Waiting = [c \in Clients |-> 0] /\ last_req = [c \in Clients |-> 0]
    BY DEF Init, Waiting
  <2> QED BY <2>1, <2>2, <2>3 DEF Replicated!Init
<1>2. IInv /\ IInv' /\ [Next]_vars => [Replicated!Next]_Replicated!vars
  BY NextRefines
<1> QED BY <1>1, <1>2, Inductive, PTL DEF Spec, ReplicatesLog, Replicated!Spec
=============================================================================
