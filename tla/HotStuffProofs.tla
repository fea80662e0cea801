--------------------------- MODULE HotStuffProofs ---------------------------
(***************************************************************************)
(* The invariants of chained HotStuff, for every number of replicas,       *)
(* clients, requests and batch size.  The primary's log alone orders the   *)
(* requests; the rest is about what votes, QCs, executions and replies     *)
(* stand for.                                                              *)
(***************************************************************************)
EXTENDS HotStuff, ProofFacts

Opnum   == Nat \ {0}
Request == [client : Clients, num : Opnum]
Entry   == Request \cup {Noop}

Message ==
  [type : {"vote"}, op : Nat, from : Backups]
    \cup [type : {"reply"}, client : Clients, num : Opnum, from : Replicas]
    \cup [type : {"request"}, client : Clients, num : Opnum]
    \cup [type : {"generic"}, op : Opnum, entries : Seq(Entry), justify : Nat]

\* The types of the fields of HotStuffReplica and HotStuffClient and of messages.
TypeOK ==
  /\ log \in [Replicas -> Seq(Entry)]
  /\ generic_qc \in [Replicas -> Int]
  /\ locked_qc \in [Replicas -> Int]
  /\ DOMAIN block_buffer = Replicas
  /\ \A r \in Replicas : /\ DOMAIN block_buffer[r] \subseteq Opnum
                          /\ \A op \in DOMAIN block_buffer[r] : block_buffer[r][op] \in Seq(Entry)
  /\ client_table \in [Replicas -> [Clients -> Nat]]
  /\ executed \in [Replicas -> SUBSET Opnum]
  /\ high_qc \subseteq Nat \X Backups
  /\ pending_op \in Opnum
  /\ pending \in [Clients -> Nat]
  /\ last_req \in [Clients -> Nat]
  /\ received \in [Clients -> SUBSET Replicas]
  /\ msgs \subseteq Message

\* The entries from op number op on are a piece of the log lg before op number p.
PieceOf(lg, p, op, entries) ==
  /\ Len(entries) > 0 /\ op + Len(entries) <= p
  /\ \A i \in 1 .. Len(entries) : entries[i] = lg[(op + i) - 1]

\* A piece of the primary's closed blocks.
Piece(op, entries) == PieceOf(log[Primary], pending_op, op, entries)

\* The primary's log alone orders the entries: blocks, in messages and buffers,
\* are pieces of it and the logs of backups are beginnings of it.
BlocksFromLog ==
  /\ pending_op <= Len(log[Primary])
  /\ \A m \in msgs : m.type = "generic" => Piece(m.op, m.entries)
  /\ DOMAIN block_buffer[Primary] = {}
  /\ \A r \in Backups :
       /\ Len(log[r]) < pending_op
       /\ \A i \in 1 .. Len(log[r]) : log[r][i] = log[Primary][i]
       /\ \A op \in DOMAIN block_buffer[r] : Piece(op, block_buffer[r][op])

\* QCs only advance, and every QC was the primary's once.
QCsInOrder ==
  /\ \A r \in Replicas :
       /\ NoQC <= locked_qc[r] /\ generic_qc[r] <= generic_qc[Primary]
       /\ locked_qc[r] < generic_qc[r] \/ (locked_qc[r] = NoQC /\ generic_qc[r] = NoQC)
  /\ \A m \in msgs : m.type = "generic" => m.justify <= generic_qc[Primary]

\* s has the block op, in its log or in its buffer.
Holds(s, op) == op <= Len(log[s]) \/ op \in DOMAIN block_buffer[s]
Holders(op)  == {s \in Backups : Holds(s, op)}

\* A vote that can still count comes from a backup that has the block, and 2f of
\* them have the block of a QC.
VotesAreHeld ==
  /\ \A m \in msgs : m.type = "vote" =>
       m.op <= generic_qc[Primary] \/ Holds(m.from, m.op)
  /\ \A v \in high_qc : Holds(v[2], v[1])
  /\ \A r \in Replicas : generic_qc[r] > 0 => Cardinality(Holders(generic_qc[r])) >= 2 * f
  /\ \A m \in msgs : m.type = "generic" /\ m.justify > 0 =>
       Cardinality(Holders(m.justify)) >= 2 * f

\* From the first QC it locked, at a, to the one it has locked, r executed all.
ExecutedFrom(r, a) ==
  /\ a .. locked_qc[r] - 1 \subseteq 1 .. Len(log[r])
  /\ executed[r] = {op \in a .. locked_qc[r] - 1 : log[r][op] # Noop}

ExecutedUpTo(r) ==
  \/ locked_qc[r] <= 0 /\ executed[r] = {}
  \/ \E a \in 1 .. locked_qc[r] : ExecutedFrom(r, a)

ExecutedInv == \A r \in Replicas : ExecutedUpTo(r)

\* The table is at least as new as every request in lg, and none is there twice.
TableOf(lg, table) ==
  /\ \A i \in 1 .. Len(lg) : lg[i] # Noop => lg[i].num <= table[lg[i].client]
  /\ \A i, j \in 1 .. Len(lg) : i # j /\ lg[i] = lg[j] => lg[i] = Noop

TableInv == TableOf(log[Primary], client_table[Primary])

\* The requests r has executed.
Done(r)   == {log[r][op] : op \in executed[r]}
Req(c, n) == [client |-> c, num |-> n]

\* Only an executed request has a reply.
RepliesInv ==
  /\ \A m \in msgs : m.type = "reply" => Req(m.client, m.num) \in Done(m.from)
  /\ \A c \in Clients :
       /\ pending[c] \in {0, last_req[c]}
       /\ pending[c] = 0 => received[c] = {}
       /\ \A r \in received[c] : Req(c, pending[c]) \in Done(r)

IInv == /\ TypeOK /\ BlocksFromLog /\ QCsInOrder /\ VotesAreHeld
        /\ ExecutedInv /\ TableInv /\ RepliesInv /\ CompletedIsExecuted

-----------------------------------------------------------------------------
(***************************************************************************)
(* The constants, messages, and the blocks HandleGeneric drains.           *)
(***************************************************************************)

\* What the constants are assumed to be.
LEMMA Group ==
  /\ IsFiniteSet(Replicas) /\ Primary \in Replicas /\ f \in Nat
  /\ NoClient \notin Clients
  /\ Noop \in Entry
BY ReplicasAssumption, ClientsAssumption, FaultAssumption DEF Entry

\* A request is no NOOP, and a record of its two fields.
LEMMA RequestFields ==
  ASSUME NEW e \in Entry
  PROVE  /\ e # Noop => e \in Request
         /\ e \in Request => e # Noop /\ e = Req(e.client, e.num)
BY Group DEF Entry, Request, Req, Noop, Opnum

\* The fields of a message of each type.
LEMMA MessageFields ==
  ASSUME NEW m \in Message
  PROVE  /\ m.type = "vote" => m.op \in Nat /\ m.from \in Backups
         /\ m.type = "reply" => m.client \in Clients /\ m.num \in Opnum /\ m.from \in Replicas
         /\ m.type = "request" => m.client \in Clients /\ m.num \in Opnum
         /\ m.type = "generic" => m.op \in Opnum /\ m.entries \in Seq(Entry) /\ m.justify \in Nat
BY DEF Message

\* The messages that the actions build.
LEMMA Built ==
  /\ \A r \in Backups, op \in Nat : VoteMsg(r, op) \in Message /\ VoteMsg(r, op).type = "vote"
  /\ \A r \in Replicas, e \in Request :
       ReplyMsg(r, e) \in Message /\ ReplyMsg(r, e).type = "reply"
  /\ \A c \in Clients, n \in Opnum :
       RequestMsg(c, n) \in Message /\ RequestMsg(c, n).type = "request"
  /\ \A op \in Opnum, es \in Seq(Entry), q \in Nat :
       GenericMsg(op, es, q) \in Message /\ GenericMsg(op, es, q).type = "generic"
BY DEF Message, VoteMsg, ReplyMsg, RequestMsg, GenericMsg, Request

\* The buffered blocks that follow a beginning of the primary's log P make it a
\* longer beginning of P, which reaches the last of them.
LEMMA DrainedBlocks ==
  ASSUME NEW P \in Seq(Entry), NEW p \in Nat, NEW lg \in Seq(Entry), Len(lg) < p,
         \A i \in 1 .. Len(lg) : lg[i] = P[i],
         NEW b, \A op \in DOMAIN b : /\ op \in Opnum /\ op > Len(lg)
                                     /\ b[op] \in Seq(Entry) /\ PieceOf(P, p, op, b[op]),
         NEW ds \in Drained(b, Len(lg)),
         NEW nl, nl = AppendBlocks(lg, b, ds)
  PROVE  /\ nl \in Seq(Entry) /\ Len(lg) <= Len(nl) /\ Len(nl) < p
         /\ \A i \in 1 .. Len(nl) : nl[i] = P[i]
         /\ \A i \in DOMAIN ds : ds[i] <= Len(nl)
<1> DEFINE n      == Len(lg)
           len(i) == Len(b[ds[i]])
           end(i) == IF i = 0 THEN n ELSE ds[i] + len(i) - 1
<1>1. PICK k \in Nat : ds \in [1 .. k -> DOMAIN b]
  <2>1. PICK k \in 0 .. Cardinality(DOMAIN b) : ds \in [1 .. k -> DOMAIN b]
    BY Zenon DEF Drained
  <2>2. k \in Nat
    BY <2>1
  <2> QED BY <2>1, <2>2
<1>2. Len(ds) = k /\ DOMAIN ds = 1 .. k
  BY <1>1
<1>3. \A i \in 1 .. k : ds[i] = end(i - 1) + 1
  BY <1>2 DEF Drained
<1>4. /\ n \in Nat
      /\ \A i \in 1 .. k : /\ ds[i] \in Nat /\ ds[i] > n /\ len(i) \in Nat /\ len(i) > 0
                           /\ ds[i] + len(i) <= p
  BY <1>1 DEF PieceOf, Opnum
<1>5. \A i \in 0 .. k : end(i) \in Nat /\ n <= end(i) /\ end(i) < p
  BY SMTT(30), <1>4
<1> DEFINE block(op) == CHOOSE d \in {ds[i] : i \in DOMAIN ds} : d <= op /\ op < d + Len(b[d])
<1>6. nl = [op \in 1 .. end(k) |-> IF op <= n THEN lg[op]
                                   ELSE b[block(op)][(op - block(op)) + 1]]
  <2>1. ds = <<>> <=> k = 0
    BY <1>1, <1>2
  <2> QED BY <1>2, <2>1 DEF AppendBlocks
<1>7. ASSUME NEW op \in 1 .. end(k), op > n
      PROVE  \E i \in 1 .. k : ds[i] <= op /\ op < ds[i] + len(i)
  <2> DEFINE before == {i \in 0 .. k : end(i) < op}
  <2> HIDE DEF end
  <2>1. 0 \in before /\ k \notin before
    BY <1>5, <1>7 DEF end
  <2>2. before \in SUBSET (0 .. k) /\ before # {}
    BY <2>1
  <2>3. PICK i \in before : \A j \in before : j <= i
    <3> HIDE DEF before
    <3> QED BY <2>2, LastOfOps
  <2>4. i \in 0 .. k /\ i # k /\ end(i) < op
    BY <2>1, <2>3
  <2>5. i + 1 \in 1 .. k /\ ~(end(i + 1) < op)
    BY <2>3, <2>4
  <2>6. ds[i + 1] = end(i) + 1 /\ end(i + 1) = ds[i + 1] + len(i + 1) - 1
    <3> HIDE DEF len
    <3>1. (i + 1) - 1 = i /\ i + 1 # 0
      BY <2>4
    <3>2. end(i + 1) = ds[i + 1] + len(i + 1) - 1
      BY <3>1 DEF end
    <3>3. ds[i + 1] = end((i + 1) - 1) + 1
      BY <1>3, <2>5
    <3> QED BY <3>1, <3>2, <3>3
  <2>7. ds[i + 1] <= op /\ op < ds[i + 1] + len(i + 1)
    <3> HIDE DEF len
    <3> QED BY SMTT(30), <1>4, <1>5, <2>4, <2>5, <2>6
  <2> QED BY <2>5, <2>7
<1>8. ASSUME NEW op \in 1 .. end(k), op > n
      PROVE  /\ block(op) \in DOMAIN b
             /\ block(op) <= op /\ op < block(op) + Len(b[block(op)])
  <2>1. \E d \in {ds[i] : i \in DOMAIN ds} : d <= op /\ op < d + Len(b[d])
    BY <1>2, <1>7, <1>8
  <2>2. \A d \in {ds[i] : i \in DOMAIN ds} : d \in DOMAIN b
    BY <1>1, <1>2
  <2> QED BY <2>1, <2>2
<1>9. \A op \in 1 .. end(k) : nl[op] = P[op] /\ nl[op] \in Entry
  <2> TAKE op \in 1 .. end(k)
  <2> HIDE DEF end, block
  <2>1. CASE op <= n
    BY <1>6, <2>1
  <2>2. CASE ~(op <= n)
    <3> DEFINE d == block(op)
               j == (op - d) + 1
    <3>1. nl[op] = b[d][j]
      BY <1>6, <2>2
    <3>2. /\ d \in DOMAIN b /\ d \in Nat /\ b[d] \in Seq(Entry) /\ Len(b[d]) \in Nat
          /\ d <= op /\ op < d + Len(b[d])
      BY <1>4, <1>5, <1>8, <2>2 DEF Opnum
    <3> HIDE DEF d
    <3>3. j \in 1 .. Len(b[d]) /\ (d + j) - 1 = op
      BY <3>2
    <3>4. b[d][j] = P[(d + j) - 1] /\ b[d][j] \in Entry
      BY SMTT(30), <3>2, <3>3 DEF PieceOf
    <3> QED BY <3>1, <3>3, <3>4
  <2> QED BY <2>1, <2>2
<1>10. nl \in Seq(Entry) /\ Len(nl) = end(k)
  <2> HIDE DEF end, block
  <2>1. nl \in [1 .. end(k) -> Entry]
    BY <1>6, <1>9
  <2>2. end(k) \in Nat
    BY <1>5
  <2> QED BY <2>1, <2>2, FunctionIsSequence
<1>11. ASSUME NEW i \in 1 .. k, ~(ds[i] <= end(k))
       PROVE  FALSE
  <2> DEFINE late == {j \in 1 .. k : ~(ds[j] <= end(k))}
  <2>1. late \in SUBSET (1 .. k) /\ late # {} /\ \A j \in late : j \in 1 .. k
    BY <1>11
  <2>2. PICK j \in late : \A h \in late : h <= j
    <3> HIDE DEF late
    <3> QED BY <2>1, LastOfOps
  <2>3. j \in 1 .. k /\ j # k
    BY <1>4, <2>2
  <2>4. j + 1 \in 1 .. k /\ ds[j + 1] <= end(k)
    <3> HIDE DEF end
    <3> QED BY <2>2, <2>3
  <2>5. ds[j + 1] = ds[j] + len(j)
    <3>1. (j + 1) - 1 = j /\ j # 0 /\ ds[j + 1] = end((j + 1) - 1) + 1
      BY <1>3, <2>3, <2>4
    <3> HIDE DEF len
    <3>2. ds[j + 1] = (ds[j] + len(j) - 1) + 1
      BY <3>1
    <3> HIDE DEF end
    <3>3. ds[j] \in Nat /\ len(j) \in Nat
      BY <1>4, <2>3
    <3> DEFINE x == ds[j]
               y == len(j)
               z == ds[j + 1]
    <3>4. z = (x + y - 1) + 1 /\ x \in Nat /\ y \in Nat
      BY <3>2, <3>3
    <3> HIDE DEF x, y, z
    <3>5. z = x + y
      BY <3>4
    <3> QED BY <3>5 DEF x, y, z
  <2>6. ds[j] <= end(k)
    <3> HIDE DEF end, len
    <3>1. ds[j] \in Nat /\ len(j) \in Nat /\ end(k) \in Nat
      BY <1>4, <1>5, <2>3
    <3> QED BY <2>4, <2>5, <3>1
  <2> QED BY <2>2, <2>6
<1> HIDE DEF end
<1>12. end(k) \in Nat /\ n <= end(k) /\ end(k) < p
  BY <1>5
<1>13. Len(nl) = end(k) /\ nl \in Seq(Entry)
  BY <1>10
<1>14. \A i \in 1 .. Len(nl) : nl[i] = P[i]
  BY <1>9, <1>13
<1>15. \A i \in DOMAIN ds : ds[i] <= Len(nl)
  BY <1>2, <1>11, <1>13
<1> QED BY <1>12, <1>13, <1>14, <1>15

-----------------------------------------------------------------------------
(***************************************************************************)
(* What the actions do.                                                    *)
(***************************************************************************)

\* lg and b are a log and a buffer that r can have once it has handled m.
Takes(r, m, lg, b) ==
  /\ lg \in Seq(Entry) /\ Len(log[r]) <= Len(lg) /\ Len(lg) < pending_op
  /\ \A i \in 1 .. Len(lg) : lg[i] = log[Primary][i]
  /\ \A op \in DOMAIN b : op \in Opnum /\ b[op] \in Seq(Entry) /\ Piece(op, b[op])
  /\ \A op \in Nat : Holds(r, op) \/ op = m.op => op <= Len(lg) \/ op \in DOMAIN b

\* HandleGeneric stops the backup, or extends its log or its buffer and votes.
LEMMA GenericCases ==
  ASSUME TypeOK, BlocksFromLog, NEW r \in Replicas, NEW m \in msgs, HandleGeneric(r, m)
  PROVE  /\ r \in Backups /\ r \notin stopped /\ m.type = "generic"
         /\ Stop(r) \/ \E lg, b : Takes(r, m, lg, b) /\ FinishGeneric(r, m, lg, b)
<1> DEFINE b  == block_buffer[r]
           lg == log[r] \o m.entries
           n  == Len(log[r])
<1>1. /\ r \in Backups /\ r \notin stopped /\ m.type = "generic"
      /\ m.op \in Opnum /\ m.entries \in Seq(Entry) /\ Piece(m.op, m.entries)
  BY MessageFields DEF HandleGeneric, TypeOK, Backups, BlocksFromLog
<1>2. /\ log[r] \in Seq(Entry) /\ n \in Nat /\ n < pending_op
      /\ pending_op \in Nat /\ log[Primary] \in Seq(Entry)
      /\ \A i \in 1 .. n : log[r][i] = log[Primary][i]
      /\ \A op \in DOMAIN b : op \in Opnum /\ b[op] \in Seq(Entry) /\ Piece(op, b[op])
  BY <1>1, Group DEF TypeOK, BlocksFromLog, Opnum
<1>3. CASE Gap(r, m) /\ FinishGeneric(r, m, log[r],
                 [op \in DOMAIN b \cup {m.op} |-> IF op = m.op THEN m.entries ELSE b[op]])
  <2> DEFINE c == [op \in DOMAIN b \cup {m.op} |-> IF op = m.op THEN m.entries ELSE b[op]]
  <2>1. \A op \in DOMAIN c : op \in Opnum /\ c[op] \in Seq(Entry) /\ Piece(op, c[op])
    BY <1>1, <1>2
  <2>2. \A op \in Nat : Holds(r, op) \/ op = m.op => op <= n \/ op \in DOMAIN c
    BY DEF Holds
  <2> HIDE DEF c
  <2>3. Takes(r, m, log[r], c)
    BY <1>2, <2>1, <2>2 DEF Takes
  <2> QED BY <1>1, <1>3, <2>3 DEF c
<1>4. ASSUME m.op > n, ~Gap(r, m), ~(\E op \in DOMAIN b : op <= Len(lg)),
             NEW ds \in Drained(b, Len(lg)),
             FinishGeneric(r, m, AppendBlocks(lg, b, ds),
                           [op \in DOMAIN b \ {ds[i] : i \in DOMAIN ds} |-> b[op]])
      PROVE  \E nl, c : Takes(r, m, nl, c) /\ FinishGeneric(r, m, nl, c)
  <2> DEFINE k  == Len(m.entries)
             nl == AppendBlocks(lg, b, ds)
             c  == [op \in DOMAIN b \ {ds[i] : i \in DOMAIN ds} |-> b[op]]
  <2>1. m.op = n + 1
    BY <1>1, <1>2, <1>4 DEF Gap, Opnum
  <2>2. /\ k \in Nat /\ k > 0 /\ m.op + k <= pending_op
        /\ \A i \in 1 .. k : m.entries[i] = log[Primary][(m.op + i) - 1]
    BY <1>1 DEF Piece, PieceOf
  <2>3. lg \in Seq(Entry) /\ Len(lg) = n + k
    BY <1>1, <1>2, ConcatLength
  <2>4. Len(lg) < pending_op
    <3> HIDE DEF n, k, lg
    <3> QED BY <1>2, <2>1, <2>2, <2>3
  <2>5. \A i \in 1 .. Len(lg) : lg[i] = log[Primary][i]
    <3> TAKE i \in 1 .. Len(lg)
    <3>1. CASE i <= n
      BY <1>1, <1>2, <2>3, <3>1
    <3>2. CASE ~(i <= n)
      <4> DEFINE j == i - n
      <4>1. j \in 1 .. k /\ i = n + j /\ (m.op + j) - 1 = i
        <5> HIDE DEF n, k, lg
        <5> QED BY <1>2, <2>1, <2>2, <2>3, <3>2
      <4>2. lg[i] = m.entries[j]
        BY <1>1, <1>2, <2>3, <3>2
      <4> HIDE DEF j, lg
      <4> QED BY <2>2, <4>1, <4>2
    <3> QED BY <3>1, <3>2
  <2> HIDE DEF lg, n, k, nl
  <2>6. \A op \in DOMAIN b : /\ op \in Opnum /\ op > Len(lg) /\ b[op] \in Seq(Entry)
                             /\ PieceOf(log[Primary], pending_op, op, b[op])
    BY <1>2, <1>4, <2>3 DEF Piece, Opnum
  <2>7. /\ nl \in Seq(Entry) /\ Len(lg) <= Len(nl) /\ Len(nl) < pending_op
        /\ \A i \in 1 .. Len(nl) : nl[i] = log[Primary][i]
        /\ \A i \in DOMAIN ds : ds[i] <= Len(nl)
    <3> HIDE DEF b
    <3> QED BY <1>2, <1>4, <2>3, <2>4, <2>5, <2>6, DrainedBlocks DEF nl
  <2>8. Len(nl) \in Nat /\ n <= Len(nl) /\ m.op <= Len(nl)
    BY <1>2, <2>1, <2>2, <2>3, <2>7
  <2>9. \A op \in Nat : Holds(r, op) \/ op = m.op => op <= Len(nl) \/ op \in DOMAIN c
    BY <1>2, <2>7, <2>8 DEF Holds, n
  <2>10. \A op \in DOMAIN c : op \in Opnum /\ c[op] \in Seq(Entry) /\ Piece(op, c[op])
    BY <1>2
  <2> HIDE DEF c
  <2>11. Takes(r, m, nl, c)
    BY <2>7, <2>8, <2>9, <2>10 DEF Takes, n
  <2> QED BY <1>4, <2>11 DEF nl, c
<1> QED BY <1>1, <1>3, <1>4 DEF HandleGeneric

\* The pending block is a piece of the primary's log, which goes on behind it.
LEMMA CloseBatchDoes ==
  ASSUME TypeOK, QCsInOrder, NEW lg \in Seq(Entry), pending_op <= Len(lg), CloseBatch(lg)
  PROVE  /\ log' = [log EXCEPT ![Primary] = Append(lg, Noop)]
         /\ pending_op' = Len(lg) + 1
         /\ \E es \in Seq(Entry) :
              /\ PieceOf(lg, pending_op', pending_op, es)
              /\ msgs' = msgs \cup {GenericMsg(pending_op, es, generic_qc[Primary])}
         /\ generic_qc[Primary] \in Nat
<1> DEFINE es == SubSeq(lg, pending_op, Len(lg))
           n  == Len(lg)
<1>1. /\ log' = [log EXCEPT ![Primary] = Append(lg, Noop)]
      /\ pending_op' = n + 1
      /\ msgs' = msgs \cup {GenericMsg(pending_op, es, generic_qc[Primary])}
      /\ generic_qc[Primary] # NoQC
  BY DEF CloseBatch
<1>2. generic_qc[Primary] \in Nat
  BY <1>1, Group DEF TypeOK, QCsInOrder, NoQC
<1>3. n \in Nat /\ pending_op \in 1 .. n
  BY DEF TypeOK, Opnum
<1>4. /\ es \in Seq(Entry) /\ Len(es) = (n - pending_op) + 1
      /\ \A i \in 1 .. Len(es) : es[i] = lg[(pending_op + i) - 1]
  BY <1>3
<1> HIDE DEF es, n
<1>5. PieceOf(lg, n + 1, pending_op, es)
  BY <1>3, <1>4 DEF PieceOf
<1> QED BY <1>1, <1>2, <1>4, <1>5 DEF n

\* What HandleRequest and the batch timer do to the primary's log.
LEMMA PrimaryCases ==
  ASSUME TypeOK, BlocksFromLog,
         CloseBatchTimeout \/ \E r \in Replicas, m \in msgs : HandleRequest(r, m)
  PROVE  /\ UNCHANGED <<qcVars, backupVars, high_qc, clientVars>>
         /\ \/ UNCHANGED <<log, pending_op, msgs>>
            \/ \E lg \in Seq(Entry) :
                 /\ lg = log[Primary] \/ \E e \in Request : lg = Append(log[Primary], e)
                 /\ \/ CloseBatch(lg)
                    \/ /\ log' = [log EXCEPT ![Primary] = lg]
                       /\ UNCHANGED <<pending_op, msgs>>
<1>1. CASE CloseBatchTimeout
  BY <1>1, Group DEF CloseBatchTimeout, TypeOK
<1>2. ASSUME NEW r \in Replicas, NEW m \in msgs, HandleRequest(r, m)
      PROVE  /\ UNCHANGED <<qcVars, backupVars, high_qc, clientVars>>
             /\ \/ UNCHANGED <<log, pending_op, msgs>>
                \/ \E lg \in Seq(Entry) :
                     /\ \E e \in Request : lg = Append(log[Primary], e)
                     /\ \/ CloseBatch(lg)
                        \/ /\ log' = [log EXCEPT ![Primary] = lg]
                           /\ UNCHANGED <<pending_op, msgs>>
  <2> DEFINE e  == [client |-> m.client, num |-> m.num]
             lg == Append(log[r], e)
  <2>1. e \in Request /\ e \in Entry
    BY <1>2, MessageFields DEF HandleRequest, TypeOK, Request, Entry
  <2>2. log[r] \in Seq(Entry)
    BY DEF TypeOK
  <2> HIDE DEF e
  <2>3. lg \in Seq(Entry)
    BY <2>1, <2>2
  <2>4. UNCHANGED <<qcVars, backupVars, high_qc, clientVars>>
    BY <1>2 DEF HandleRequest
  <2>5. \/ UNCHANGED <<log, pending_op, msgs>>
        \/ /\ r = Primary
           /\ \/ CloseBatch(lg)
              \/ /\ log' = [log EXCEPT ![r] = lg]
                 /\ UNCHANGED <<pending_op, msgs>>
    BY <1>2 DEF HandleRequest, e
  <2> QED BY <2>1, <2>3, <2>4, <2>5
<1> QED BY <1>1, <1>2

\* The replies of a replica that executes are for the entries it executes.
LEMMA RepliesAre ==
  ASSUME NEW r \in Replicas, NEW lg \in Seq(Entry), ~NeedsTransfer(r, lg), TypeOK,
         NEW x \in Replies(r, lg)
  PROVE  /\ x \in Message /\ x.type = "reply" /\ x.from = r
         /\ \E op \in ToExecute(r) : /\ op \in 1 .. Len(lg) /\ lg[op] # Noop
                                     /\ lg[op] = Req(x.client, x.num)
<1>1. PICK op \in ToExecute(r) : lg[op] # Noop /\ x = ReplyMsg(r, lg[op])
  BY DEF Replies
<1>2. op \in 1 .. Len(lg)
  BY DEF NeedsTransfer, ToExecute, TypeOK
<1>3. lg[op] \in Request /\ lg[op] = Req(lg[op].client, lg[op].num)
  BY <1>1, <1>2, RequestFields
<1>4. x \in Message /\ x.type = "reply"
  BY <1>1, <1>3, Built
<1>5. x.from = r /\ x.client = lg[op].client /\ x.num = lg[op].num
  BY <1>1 DEF ReplyMsg
<1> QED BY <1>1, <1>2, <1>3, <1>4, <1>5

-----------------------------------------------------------------------------
(***************************************************************************)
(* Every step keeps the types.                                             *)
(***************************************************************************)

LEMMA InitType == Init => TypeOK
<1> SUFFICES ASSUME Init PROVE TypeOK
  OBVIOUS
<1>1. /\ log \in [Replicas -> Seq(Entry)] /\ pending_op \in Opnum
      /\ client_table \in [Replicas -> [Clients -> Nat]]
  BY Group DEF Init, Opnum
<1>2. generic_qc \in [Replicas -> Int] /\ locked_qc \in [Replicas -> Int]
  BY DEF Init, NoQC
<1>3. msgs \subseteq Message
  BY Built DEF Init
<1> QED BY <1>1, <1>2, <1>3 DEF Init, TypeOK

\* EnterNextView keeps the types of QCs and of what is executed.
LEMMA EnterType ==
  ASSUME TypeOK, NEW r \in Replicas, NEW lg, NEW q \in Int, EnterNextView(r, lg, q)
  PROVE  /\ generic_qc' \in [Replicas -> Int]
         /\ locked_qc' \in [Replicas -> Int]
         /\ executed' \in [Replicas -> SUBSET Opnum]
<1>1. ToExecute(r) \subseteq Opnum
  BY DEF ToExecute, TypeOK, Opnum
<1> QED BY <1>1 DEF EnterNextView, TypeOK

\* HandleVote stores the vote, stops the primary, or makes a QC of the votes.
LEMMA VoteCases ==
  ASSUME TypeOK, NEW m \in msgs, HandleVote(m)
  PROVE  /\ m.type = "vote" /\ m.op \in Nat /\ m.from \in Backups
         /\ generic_qc[Primary] < m.op
         /\ UNCHANGED <<log, backupVars, client_table, pending_op, clientVars>>
         /\ \/ /\ high_qc' = high_qc \cup {<<m.op, m.from>>}
               /\ UNCHANGED <<qcVars, msgs>>
            \/ UNCHANGED <<qcVars, high_qc, msgs>>
            \/ /\ ~(Cardinality(Votes(m.op, m.from)) < 2 * f)
               /\ ~NeedsTransfer(Primary, log[Primary])
               /\ high_qc' = {v \in high_qc : v[1] > m.op}
               /\ EnterNextView(Primary, log[Primary], m.op)
               /\ msgs' = msgs \cup Replies(Primary, log[Primary])
BY MessageFields DEF HandleVote, TypeOK, NewVote, Stop, qcVars, backupVars, primaryVars, clientVars

\* FinishGeneric votes, and enters the next view with a newer QC.
LEMMA FinishCases ==
  ASSUME NEW r \in Replicas, NEW m \in msgs, NEW lg, NEW b, FinishGeneric(r, m, lg, b)
  PROVE  \/ Stop(r)
         \/ /\ log' = [log EXCEPT ![r] = lg]
            /\ block_buffer' = [block_buffer EXCEPT ![r] = b]
            /\ UNCHANGED <<client_table, primaryVars, clientVars>>
            /\ \/ /\ generic_qc[r] < m.justify /\ ~NeedsTransfer(r, lg)
                  /\ EnterNextView(r, lg, m.justify)
                  /\ msgs' = (msgs \cup {VoteMsg(r, m.op)}) \cup Replies(r, lg)
               \/ /\ msgs' = msgs \cup {VoteMsg(r, m.op)}
                  /\ UNCHANGED qcVars
BY DEF FinishGeneric, Newer

\* A reply is counted, and f+1 of them complete the request.
LEMMA ReplyCases ==
  ASSUME NEW c \in Clients, NEW m \in msgs, ReceiveReply(c, m)
  PROVE  /\ m.type = "reply" /\ m.client = c /\ pending[c] # 0 /\ m.num = pending[c]
         /\ UNCHANGED <<log, qcVars, backupVars, client_table, primaryVars, last_req, msgs>>
         /\ \/ UNCHANGED pending /\ received' = [received EXCEPT ![c] = @ \cup {m.from}]
            \/ /\ Cardinality(received[c] \cup {m.from}) >= f + 1
               /\ pending' = [pending EXCEPT ![c] = 0]
               /\ received' = [received EXCEPT ![c] = {}]
BY DEF ReceiveReply, RepliesNeeded

\* HandleRequest and the batch timer keep the types.
LEMMA PrimaryType ==
  ASSUME TypeOK, BlocksFromLog, QCsInOrder,
         CloseBatchTimeout \/ \E r \in Replicas, m \in msgs : HandleRequest(r, m)
  PROVE  TypeOK'
<1>1. client_table' \in [Replicas -> [Clients -> Nat]]
  <2>1. CASE CloseBatchTimeout
    BY <2>1 DEF CloseBatchTimeout, TypeOK
  <2>2. ASSUME NEW r \in Replicas, NEW m \in msgs, HandleRequest(r, m)
        PROVE  client_table' \in [Replicas -> [Clients -> Nat]]
    <3>1. m.client \in Clients /\ m.num \in Nat
      BY <2>2, MessageFields DEF HandleRequest, TypeOK, Opnum
    <3> QED BY <2>2, <3>1 DEF HandleRequest, TypeOK
  <2> QED BY <2>1, <2>2
<1>2. CASE UNCHANGED <<log, pending_op, msgs>>
  BY <1>1, <1>2, PrimaryCases DEF TypeOK, qcVars, backupVars, clientVars
<1>3. ASSUME NEW lg \in Seq(Entry),
             lg = log[Primary] \/ \E e \in Request : lg = Append(log[Primary], e),
             \/ CloseBatch(lg)
             \/ log' = [log EXCEPT ![Primary] = lg] /\ UNCHANGED <<pending_op, msgs>>
      PROVE  log' \in [Replicas -> Seq(Entry)] /\ pending_op' \in Opnum /\ msgs' \subseteq Message
  <2>1. log[Primary] \in Seq(Entry) /\ pending_op <= Len(log[Primary]) /\ pending_op \in Opnum
    BY Group DEF TypeOK, BlocksFromLog
  <2>2. Len(lg) \in Nat /\ pending_op <= Len(lg)
    BY <1>3, <2>1 DEF Opnum
  <2>3. CASE CloseBatch(lg)
    <3>1. Append(lg, Noop) \in Seq(Entry)
      BY Group
    <3>2. log' \in [Replicas -> Seq(Entry)]
      BY <2>2, <2>3, <3>1, CloseBatchDoes DEF TypeOK
    <3>3. pending_op' \in Opnum
      BY <2>2, <2>3, CloseBatchDoes DEF Opnum
    <3>4. msgs' \subseteq Message
      BY <2>1, <2>2, <2>3, CloseBatchDoes, Built DEF TypeOK
    <3> QED BY <3>2, <3>3, <3>4
  <2> QED BY <1>3, <2>3 DEF TypeOK
<1>4. CASE ~UNCHANGED <<log, pending_op, msgs>>
  BY <1>1, <1>3, <1>4, PrimaryCases DEF TypeOK, qcVars, backupVars, clientVars
<1> QED BY <1>2, <1>4

\* HandleVote keeps the types.
LEMMA VoteType ==
  ASSUME TypeOK, NEW m \in msgs, HandleVote(m)
  PROVE  TypeOK'
<1>1. /\ m.op \in Nat /\ m.from \in Backups /\ Primary \in Replicas
      /\ UNCHANGED <<log, backupVars, client_table, pending_op, clientVars>>
  BY VoteCases, Group
<1>2. CASE /\ high_qc' = high_qc \cup {<<m.op, m.from>>}
           /\ UNCHANGED <<qcVars, msgs>>
  BY <1>1, <1>2 DEF TypeOK, qcVars, backupVars, clientVars
<1>3. CASE UNCHANGED <<qcVars, high_qc, msgs>>
  BY <1>1, <1>3 DEF TypeOK, qcVars, backupVars, clientVars
<1>4. CASE /\ ~NeedsTransfer(Primary, log[Primary])
           /\ high_qc' = {v \in high_qc : v[1] > m.op}
           /\ EnterNextView(Primary, log[Primary], m.op)
           /\ msgs' = msgs \cup Replies(Primary, log[Primary])
  <2>1. log[Primary] \in Seq(Entry)
    BY <1>1 DEF TypeOK
  <2>2. msgs' \subseteq Message
    BY <1>1, <1>4, <2>1, RepliesAre DEF TypeOK
  <2> QED BY SMTT(30), <1>1, <1>4, <2>2, EnterType DEF TypeOK, backupVars, clientVars
<1> QED BY <1>2, <1>3, <1>4, VoteCases

\* HandleGeneric keeps the types.
LEMMA GenericType ==
  ASSUME TypeOK, BlocksFromLog, NEW r \in Replicas, NEW m \in msgs, HandleGeneric(r, m)
  PROVE  TypeOK'
<1>1. CASE Stop(r)
  BY <1>1 DEF Stop, TypeOK, qcVars, backupVars, primaryVars, clientVars
<1>2. ASSUME NEW lg, NEW b, Takes(r, m, lg, b), FinishGeneric(r, m, lg, b), ~Stop(r)
      PROVE  TypeOK'
  <2>1. /\ m.op \in Nat /\ m.justify \in Int /\ r \in Backups /\ lg \in Seq(Entry)
        /\ DOMAIN b \subseteq Opnum /\ \A op \in DOMAIN b : b[op] \in Seq(Entry)
    BY <1>2, GenericCases, MessageFields DEF Takes, TypeOK, Opnum
  <2>2. /\ log' = [log EXCEPT ![r] = lg]
        /\ block_buffer' = [block_buffer EXCEPT ![r] = b]
        /\ UNCHANGED <<client_table, primaryVars, clientVars>>
    BY <1>2, FinishCases
  <2>3. VoteMsg(r, m.op) \in Message
    BY <2>1, Built
  <2>4. /\ generic_qc' \in [Replicas -> Int]
        /\ locked_qc' \in [Replicas -> Int]
        /\ executed' \in [Replicas -> SUBSET Opnum]
        /\ msgs' \subseteq Message
    <3>1. CASE UNCHANGED qcVars /\ msgs' = msgs \cup {VoteMsg(r, m.op)}
      BY <2>3, <3>1 DEF TypeOK, qcVars
    <3>2. CASE /\ ~NeedsTransfer(r, lg) /\ EnterNextView(r, lg, m.justify)
               /\ msgs' = (msgs \cup {VoteMsg(r, m.op)}) \cup Replies(r, lg)
      <4>1. \A x \in Replies(r, lg) : x \in Message
        BY <2>1, <3>2, RepliesAre
      <4> QED BY <2>1, <2>3, <3>2, <4>1, EnterType DEF TypeOK
    <3> QED BY <1>2, <3>1, <3>2, FinishCases
  <2>5. log' \in [Replicas -> Seq(Entry)]
    BY <2>1, <2>2 DEF TypeOK
  <2>6. /\ DOMAIN block_buffer' = Replicas
        /\ \A s \in Replicas : /\ DOMAIN block_buffer'[s] \subseteq Opnum
                               /\ \A op \in DOMAIN block_buffer'[s] :
                                    block_buffer'[s][op] \in Seq(Entry)
    BY <2>1, <2>2 DEF TypeOK
  <2> QED BY <2>2, <2>4, <2>5, <2>6 DEF TypeOK, primaryVars, clientVars
<1> QED BY <1>1, <1>2, GenericCases

\* Every step keeps the types.
LEMMA NextType ==
  ASSUME TypeOK, BlocksFromLog, QCsInOrder, [Next]_vars
  PROVE  TypeOK'
<1>1. CASE UNCHANGED vars
  BY <1>1 DEF TypeOK, vars, qcVars, backupVars, primaryVars, clientVars
<1>2. ASSUME NEW c \in Clients, Invoke(c) PROVE TypeOK'
  <2>1. last_req[c] + 1 \in Opnum
    BY DEF TypeOK, Opnum
  <2>2. msgs' \subseteq Message
    BY <1>2, <2>1, Built DEF Invoke, TypeOK
  <2> QED BY <1>2, <2>1, <2>2
          DEF Invoke, TypeOK, qcVars, backupVars, primaryVars, clientVars, Opnum
<1>3. ASSUME NEW c \in Clients, NEW m \in msgs, ReceiveReply(c, m) PROVE TypeOK'
  <2>1. m.from \in Replicas
    BY <1>3, MessageFields DEF ReceiveReply, TypeOK
  <2> DEFINE got == received[c] \cup {m.from}
  <2>2. got \in SUBSET Replicas
    BY <2>1 DEF TypeOK
  <2>3. /\ UNCHANGED <<log, qcVars, backupVars, client_table, primaryVars, last_req, msgs>>
        /\ \/ UNCHANGED pending /\ received' = [received EXCEPT ![c] = got]
           \/ /\ pending' = [pending EXCEPT ![c] = 0]
              /\ received' = [received EXCEPT ![c] = {}]
    BY <1>3, ReplyCases
  <2> HIDE DEF got
  <2>4. pending' \in [Clients -> Nat] /\ received' \in [Clients -> SUBSET Replicas]
    <3>1. pending \in [Clients -> Nat] /\ received \in [Clients -> SUBSET Replicas]
      BY DEF TypeOK
    <3>2. CASE UNCHANGED pending /\ received' = [received EXCEPT ![c] = got]
      BY <2>2, <3>1, <3>2
    <3>3. CASE pending' = [pending EXCEPT ![c] = 0] /\ received' = [received EXCEPT ![c] = {}]
      BY <3>1, <3>3
    <3> QED BY <2>3, <3>2, <3>3
  <2> QED BY <2>3, <2>4 DEF TypeOK, qcVars, backupVars, primaryVars
<1>4. ASSUME NEW r \in Replicas, ResendVote(r) PROVE TypeOK'
  <2>1. r \in Backups /\ generic_qc[r] \in Int /\ (generic_qc[r] # NoQC => generic_qc[r] \in Nat)
    BY <1>4 DEF ResendVote, Backups, TypeOK, QCsInOrder, NoQC
  <2>2. msgs' \subseteq Message
    BY <1>4, <2>1, Built DEF ResendVote, TypeOK
  <2> QED BY <1>4, <2>2
          DEF ResendVote, TypeOK, qcVars, backupVars, primaryVars, clientVars
<1> QED BY <1>1, <1>2, <1>3, <1>4, PrimaryType, VoteType, GenericType DEF Next

-----------------------------------------------------------------------------
(***************************************************************************)
(* What no step takes back.                                                *)
(***************************************************************************)

Grows ==
  /\ msgs \subseteq msgs'
  /\ \A r \in Replicas :
       /\ Len(log[r]) <= Len(log'[r])
       /\ \A i \in 1 .. Len(log[r]) : log'[r][i] = log[r][i]
       /\ executed[r] \subseteq executed'[r]
  /\ \A r \in Backups : \A op \in Nat : Holds(r, op) => Holds(r, op)'
  /\ pending_op <= pending_op'
  /\ generic_qc[Primary] <= generic_qc'[Primary]

\* The steps that leave the logs and buffers alone.
LEMMA GrowsFrame ==
  ASSUME TypeOK, UNCHANGED <<log, block_buffer, pending_op>>, msgs \subseteq msgs',
         \A r \in Replicas : executed[r] \subseteq executed'[r],
         generic_qc[Primary] <= generic_qc'[Primary]
  PROVE  Grows
<1>1. \A r \in Replicas : Len(log[r]) \in Nat
  BY DEF TypeOK
<1>2. pending_op <= pending_op'
  BY DEF TypeOK, Opnum
<1>3. \A r : \A op : Holds(r, op)' <=> Holds(r, op)
  BY DEF Holds
<1> QED BY <1>1, <1>2, <1>3 DEF Grows

\* The entries of a log stay where they are when something is appended.
LEMMA AppendKeeps ==
  ASSUME NEW x \in Seq(Entry), NEW e \in Entry
  PROVE  /\ Append(x, e) \in Seq(Entry) /\ Len(Append(x, e)) = Len(x) + 1
         /\ \A i \in 1 .. Len(x) : Append(x, e)[i] = x[i]
         /\ Append(x, e)[Len(x) + 1] = e
OBVIOUS

\* HandleRequest and the timer append to the primary's log.
LEMMA PrimaryAppends ==
  ASSUME TypeOK, BlocksFromLog, QCsInOrder,
         CloseBatchTimeout \/ \E r \in Replicas, m \in msgs : HandleRequest(r, m)
  PROVE  /\ Len(log[Primary]) <= Len(log'[Primary])
         /\ \A i \in 1 .. Len(log[Primary]) : log'[Primary][i] = log[Primary][i]
         /\ \A r \in Backups : log'[r] = log[r]
         /\ pending_op <= pending_op' /\ pending_op' <= Len(log'[Primary])
         /\ \A x \in msgs' \ msgs :
              /\ x.type = "generic" /\ x.justify = generic_qc[Primary]
              /\ PieceOf(log'[Primary], pending_op', x.op, x.entries)
         /\ msgs \subseteq msgs'
<1> DEFINE P == log[Primary]
           n == Len(P)
<1>0. P \in Seq(Entry) /\ n \in Nat /\ pending_op \in Nat /\ pending_op <= n /\ Primary \notin Backups
  BY Group DEF TypeOK, BlocksFromLog, Opnum, Backups
<1>1. CASE UNCHANGED <<log, pending_op, msgs>>
  BY <1>0, <1>1
<1>2. ASSUME NEW lg \in Seq(Entry),
             lg = P \/ \E e \in Request : lg = Append(P, e),
             \/ CloseBatch(lg)
             \/ log' = [log EXCEPT ![Primary] = lg] /\ UNCHANGED <<pending_op, msgs>>
      PROVE  /\ n <= Len(log'[Primary])
             /\ \A i \in 1 .. n : log'[Primary][i] = P[i]
             /\ \A r \in Backups : log'[r] = log[r]
             /\ pending_op <= pending_op' /\ pending_op' <= Len(log'[Primary])
             /\ \A x \in msgs' \ msgs :
                  /\ x.type = "generic" /\ x.justify = generic_qc[Primary]
                  /\ PieceOf(log'[Primary], pending_op', x.op, x.entries)
             /\ msgs \subseteq msgs'
  <2>1. Len(lg) \in Nat /\ n <= Len(lg) /\ \A i \in 1 .. n : lg[i] = P[i]
    <3> HIDE DEF P
    <3> QED BY <1>0, <1>2, AppendKeeps DEF Entry
  <2> HIDE DEF n
  <2>2. CASE log' = [log EXCEPT ![Primary] = lg] /\ UNCHANGED <<pending_op, msgs>>
    <3>1. log'[Primary] = lg /\ \A r \in Backups : log'[r] = log[r]
      BY <2>2, Group DEF TypeOK, Backups
    <3>2. pending_op <= pending_op' /\ pending_op' <= Len(lg)
      BY <1>0, <2>1, <2>2
    <3> QED BY <2>1, <2>2, <3>1, <3>2
  <2>3. CASE CloseBatch(lg)
    <3> DEFINE L == Append(lg, Noop)
    <3>1. pending_op <= Len(lg)
      BY <1>0, <2>1
    <3>2. PICK es \in Seq(Entry) :
            /\ PieceOf(lg, pending_op', pending_op, es)
            /\ msgs' = msgs \cup {GenericMsg(pending_op, es, generic_qc[Primary])}
      BY <2>3, <3>1, CloseBatchDoes
    <3>3. /\ log' = [log EXCEPT ![Primary] = L]
          /\ pending_op' = Len(lg) + 1
      BY <2>3, <3>1, CloseBatchDoes
    <3>4. /\ Len(L) = Len(lg) + 1
          /\ \A i \in 1 .. Len(lg) : L[i] = lg[i]
      BY Group, AppendKeeps
    <3> HIDE DEF L
    <3>5. log'[Primary] = L /\ \A r \in Backups : log'[r] = log[r]
      BY <3>3, Group DEF TypeOK, Backups
    <3>6. PieceOf(L, pending_op', pending_op, es)
      <4>1. Len(es) \in Nat /\ Len(es) > 0 /\ pending_op + Len(es) <= Len(lg) + 1
        BY <3>2, <3>3 DEF PieceOf
      <4>2. \A i \in 1 .. Len(es) : (pending_op + i) - 1 \in 1 .. Len(lg)
        BY <1>0, <2>1, <4>1 DEF TypeOK, Opnum
      <4> QED BY <3>2, <3>4, <4>2 DEF PieceOf
    <3>7. \A x \in msgs' \ msgs :
            /\ x.type = "generic" /\ x.justify = generic_qc[Primary]
            /\ x.op = pending_op /\ x.entries = es
      BY <3>2 DEF GenericMsg
    <3> QED BY <1>0, <2>1, <3>2, <3>3, <3>4, <3>5, <3>6, <3>7
  <2> QED BY <1>2, <2>2, <2>3
<1> QED BY <1>1, <1>2, PrimaryCases

\* EnterNextView only executes more.
LEMMA EnterGrows ==
  ASSUME TypeOK, NEW r \in Replicas, NEW lg, NEW q, EnterNextView(r, lg, q)
  PROVE  \A s \in Replicas : executed[s] \subseteq executed'[s]
BY DEF EnterNextView, TypeOK

\* Logs, messages, QCs and executions only grow.
LEMMA NextGrows ==
  ASSUME TypeOK, BlocksFromLog, QCsInOrder, [Next]_vars
  PROVE  Grows
<1>0. /\ generic_qc[Primary] \in Int /\ Primary \in Replicas /\ Primary \notin Backups
      /\ \A r \in Backups : r \in Replicas /\ r # Primary
      /\ \A r \in Replicas : log[r] \in Seq(Entry) /\ Len(log[r]) \in Nat
      /\ DOMAIN log = Replicas
  BY Group DEF TypeOK, Backups
<1>1. CASE UNCHANGED <<log, block_buffer, pending_op, qcVars>> /\ msgs \subseteq msgs'
  BY <1>0, <1>1, GrowsFrame DEF qcVars
<1>2. ASSUME NEW m \in msgs, HandleVote(m) PROVE Grows
  <2>1. /\ generic_qc[Primary] < m.op /\ m.op \in Nat
        /\ UNCHANGED <<log, block_buffer, pending_op>>
    BY <1>2, VoteCases DEF backupVars
  <2>2. CASE UNCHANGED <<qcVars, msgs>>
    BY <1>1, <2>1, <2>2
  <2>3. CASE /\ EnterNextView(Primary, log[Primary], m.op)
             /\ msgs' = msgs \cup Replies(Primary, log[Primary])
    <3>1. generic_qc'[Primary] = m.op
      BY <1>0, <2>3 DEF EnterNextView, TypeOK
    <3>2. generic_qc[Primary] <= generic_qc'[Primary]
      BY <1>0, <2>1, <3>1
    <3>3. \A s \in Replicas : executed[s] \subseteq executed'[s]
      BY <1>0, <2>3, EnterGrows
    <3> QED BY <2>1, <2>3, <3>2, <3>3, GrowsFrame
  <2> QED BY <1>2, <2>2, <2>3, VoteCases
<1>3. ASSUME NEW r \in Replicas, NEW m \in msgs, HandleGeneric(r, m) PROVE Grows
  <2>0. r \in Backups /\ m.op \in Nat
    BY <1>3, GenericCases, MessageFields DEF TypeOK, Opnum
  <2>1. CASE Stop(r)
    BY <1>1, <2>1 DEF Stop, backupVars, primaryVars
  <2>2. ASSUME NEW lg, NEW b, Takes(r, m, lg, b), FinishGeneric(r, m, lg, b), ~Stop(r)
        PROVE  Grows
    <3>1. /\ log' = [log EXCEPT ![r] = lg]
          /\ block_buffer' = [block_buffer EXCEPT ![r] = b]
          /\ UNCHANGED pending_op /\ msgs \subseteq msgs'
          /\ \/ UNCHANGED qcVars
             \/ EnterNextView(r, lg, m.justify)
      BY <2>2, FinishCases DEF primaryVars
    <3>2. generic_qc[Primary] <= generic_qc'[Primary]
      BY <1>0, <2>0, <3>1 DEF EnterNextView, TypeOK, qcVars
    <3>3. \A s \in Replicas : executed[s] \subseteq executed'[s]
      BY <3>1, EnterGrows DEF qcVars
    <3>4. \A s \in Replicas :
            /\ s # r => log'[s] = log[s] /\ block_buffer'[s] = block_buffer[s]
            /\ s = r => log'[s] = lg /\ block_buffer'[s] = b
      BY <3>1 DEF TypeOK
    <3>5. /\ lg \in Seq(Entry) /\ Len(log[r]) <= Len(lg)
          /\ \A i \in 1 .. Len(log[r]) : lg[i] = log[r][i]
      BY <1>0, <2>0, <2>2 DEF Takes, BlocksFromLog
    <3>6. \A s \in Backups : \A op \in Nat : Holds(s, op) => Holds(s, op)'
      BY <1>0, <2>2, <3>4 DEF Holds, Takes
    <3>7. \A s \in Replicas : /\ Len(log[s]) <= Len(log'[s])
                              /\ \A i \in 1 .. Len(log[s]) : log'[s][i] = log[s][i]
      BY <1>0, <3>4, <3>5
    <3>8. pending_op <= pending_op'
      BY <3>1 DEF TypeOK, Opnum
    <3> QED BY <3>1, <3>2, <3>3, <3>6, <3>7, <3>8 DEF Grows
  <2> QED BY <1>3, <2>1, <2>2, GenericCases
<1>4. CASE CloseBatchTimeout \/ \E r \in Replicas, m \in msgs : HandleRequest(r, m)
  <2>1. UNCHANGED <<block_buffer, executed, generic_qc>>
    BY <1>4, PrimaryCases DEF backupVars, qcVars
  <2>2. \A s \in Backups : \A op \in Nat : Holds(s, op) => Holds(s, op)'
    BY <1>4, <2>1, PrimaryAppends DEF Holds
  <2>3. \A s \in Replicas : /\ Len(log[s]) <= Len(log'[s])
                            /\ \A i \in 1 .. Len(log[s]) : log'[s][i] = log[s][i]
    BY <1>0, <1>4, PrimaryAppends DEF Backups
  <2> QED BY <1>0, <1>4, <2>1, <2>2, <2>3, PrimaryAppends DEF Grows
<1>5. CASE UNCHANGED vars
  BY <1>1, <1>5 DEF vars, qcVars, backupVars, primaryVars
<1>6. CASE \E c \in Clients : Invoke(c) \/ \E m \in msgs : ReceiveReply(c, m)
  BY <1>1, <1>6 DEF Invoke, ReceiveReply, backupVars, primaryVars
<1>7. CASE \E r \in Replicas : ResendVote(r)
  BY <1>1, <1>7 DEF ResendVote, backupVars, primaryVars
<1> QED BY <1>2, <1>3, <1>4, <1>5, <1>6, <1>7 DEF Next

-----------------------------------------------------------------------------
(***************************************************************************)
(* Every step keeps BlocksFromLog and QCsInOrder.                          *)
(***************************************************************************)

\* The primary's log only gets longer, so that its pieces stay pieces.
LEMMA PieceStays ==
  ASSUME TypeOK, TypeOK', BlocksFromLog, Grows, NEW op \in Opnum, NEW es \in Seq(Entry), Piece(op, es)
  PROVE  Piece(op, es)'
<1> DEFINE n == Len(log[Primary])
           k == Len(es)
<1>1. /\ n \in Nat /\ k \in Nat /\ pending_op \in Nat /\ pending_op <= n /\ op \in Nat /\ op > 0
      /\ op + k <= pending_op /\ k > 0
  BY Group DEF TypeOK, BlocksFromLog, Opnum, Piece, PieceOf
<1>2. \A i \in 1 .. k : (op + i) - 1 \in 1 .. n
  <2> HIDE DEF n, k
  <2> QED BY <1>1
<1>3. \A i \in 1 .. n : log'[Primary][i] = log[Primary][i]
  BY Group DEF Grows
<1>4. \A i \in 1 .. k : es[i] = log'[Primary][(op + i) - 1]
  BY <1>2, <1>3 DEF Piece, PieceOf
<1>5. op + k <= pending_op'
  <2>1. pending_op <= pending_op' /\ pending_op' \in Int
    BY DEF Grows, TypeOK, Opnum
  <2> HIDE DEF n, k
  <2> QED BY <1>1, <2>1
<1> QED BY <1>1, <1>4, <1>5 DEF Piece, PieceOf

\* At the start the primary's log is its first no-op, and there is no block.
LEMMA InitBlocks == Init => BlocksFromLog /\ QCsInOrder
<1> SUFFICES ASSUME Init PROVE BlocksFromLog /\ QCsInOrder
  OBVIOUS
<1>1. \A m \in msgs : m.type # "generic"
  BY DEF Init, VoteMsg
<1>2. log[Primary] = <<Noop>> /\ \A r \in Backups : log[r] = <<>> /\ block_buffer[r] = <<>>
  BY Group DEF Init, Backups
<1>3. BlocksFromLog
  BY <1>1, <1>2, Group DEF Init, BlocksFromLog
<1>4. QCsInOrder
  BY <1>1, Group DEF Init, QCsInOrder, NoQC
<1> QED BY <1>3, <1>4

\* No other step adds a block or touches the logs.
LEMMA BlocksFrame ==
  ASSUME TypeOK, TypeOK', BlocksFromLog, Grows, UNCHANGED <<log, block_buffer, pending_op>>,
         \A x \in msgs' \ msgs : x.type # "generic"
  PROVE  BlocksFromLog'
<1>1. \A m \in msgs' : m.type = "generic" => m \in msgs
  OBVIOUS
<1>2. \A op, es : Piece(op, es)' <=> Piece(op, es)
  BY DEF Piece, PieceOf
<1> QED BY <1>1, <1>2 DEF BlocksFromLog

\* HandleRequest and the batch timer keep the blocks those of the primary's log.
LEMMA PrimaryBlocks ==
  ASSUME TypeOK, TypeOK', BlocksFromLog, QCsInOrder, Grows,
         CloseBatchTimeout \/ \E r \in Replicas, m \in msgs : HandleRequest(r, m)
  PROVE  BlocksFromLog'
<1>1. \A m \in msgs' : m.type = "generic" => Piece(m.op, m.entries)'
  <2> SUFFICES ASSUME NEW m \in msgs', m.type = "generic" PROVE Piece(m.op, m.entries)'
    OBVIOUS
  <2>1. CASE m \in msgs
    <3>1. m.op \in Opnum /\ m.entries \in Seq(Entry) /\ Piece(m.op, m.entries)
      BY <2>1, MessageFields DEF TypeOK, BlocksFromLog
    <3> HIDE DEF Piece
    <3>2. ASSUME NEW op, NEW es, op = m.op, es = m.entries PROVE Piece(op, es)'
      BY <3>1, <3>2, PieceStays
    <3> QED BY <3>2
  <2>2. CASE m \notin msgs
    BY <2>2, PrimaryAppends DEF Piece
  <2> QED BY <2>1, <2>2
<1>2. UNCHANGED block_buffer
  BY PrimaryCases DEF backupVars
<1>3. pending_op' <= Len(log'[Primary])
  BY PrimaryAppends
<1>4. ASSUME NEW r \in Backups
      PROVE  /\ Len(log'[r]) < pending_op'
             /\ \A i \in 1 .. Len(log'[r]) : log'[r][i] = log'[Primary][i]
             /\ \A op \in DOMAIN block_buffer'[r] : Piece(op, block_buffer[r][op])'
  <2>1. r \in Replicas /\ Len(log[r]) \in Nat /\ pending_op \in Int /\ pending_op' \in Int
    BY DEF Backups, TypeOK, Opnum
  <2>2. log'[r] = log[r] /\ pending_op <= pending_op' /\ pending_op <= Len(log[Primary])
    BY PrimaryAppends DEF BlocksFromLog
  <2>3. /\ Len(log[r]) < pending_op
        /\ \A i \in 1 .. Len(log[r]) : log[r][i] = log[Primary][i]
    BY DEF BlocksFromLog
  <2>4. Len(log'[r]) < pending_op'
    BY <2>1, <2>2, <2>3
  <2>5. \A i \in 1 .. Len(log[r]) : i \in 1 .. Len(log[Primary])
    BY <2>1, <2>2, <2>3, Group DEF TypeOK
  <2>6. \A op \in DOMAIN block_buffer'[r] : Piece(op, block_buffer[r][op])'
    <3> SUFFICES ASSUME NEW op \in DOMAIN block_buffer[r] PROVE Piece(op, block_buffer[r][op])'
      BY <1>2
    <3>1. ASSUME NEW es, es = block_buffer[r][op] PROVE Piece(op, es)'
      <4>1. op \in Opnum /\ es \in Seq(Entry) /\ Piece(op, es)
        BY <2>1, <3>1 DEF TypeOK, BlocksFromLog
      <4> QED BY <4>1, PieceStays
    <3>2. block_buffer'[r][op] = block_buffer[r][op]
      BY <1>2
    <3> QED BY <3>1, <3>2 DEF Piece
  <2> QED BY <2>2, <2>3, <2>4, <2>5, <2>6, PrimaryAppends
<1> QED BY <1>1, <1>2, <1>3, <1>4 DEF BlocksFromLog, Piece

\* No reply and no vote is a block.
LEMMA NoBlocks ==
  /\ \A r, op : VoteMsg(r, op).type = "vote"
  /\ \A c, n : RequestMsg(c, n).type = "request"
  /\ \A r, lg : \A x \in Replies(r, lg) : x.type = "reply"
BY DEF VoteMsg, RequestMsg, Replies, ReplyMsg

\* HandleGeneric keeps the blocks those of the primary's log.
LEMMA GenericBlocks ==
  ASSUME TypeOK, TypeOK', BlocksFromLog, Grows,
         NEW r \in Replicas, NEW m \in msgs, HandleGeneric(r, m)
  PROVE  BlocksFromLog'
<1>0. r \in Backups /\ r # Primary /\ Primary \in Replicas
  BY GenericCases, Group DEF Backups
<1>1. CASE Stop(r)
  BY <1>1, BlocksFrame DEF Stop, backupVars, primaryVars
<1>2. ASSUME NEW lg, NEW b, Takes(r, m, lg, b), FinishGeneric(r, m, lg, b), ~Stop(r)
      PROVE  BlocksFromLog'
  <2>1. /\ log' = [log EXCEPT ![r] = lg]
        /\ block_buffer' = [block_buffer EXCEPT ![r] = b]
        /\ UNCHANGED pending_op
        /\ \A x \in msgs' \ msgs : x.type # "generic"
    BY <1>2, FinishCases, NoBlocks DEF primaryVars
  <2>2. /\ \A s \in Replicas : s # r => log'[s] = log[s] /\ block_buffer'[s] = block_buffer[s]
        /\ log'[r] = lg /\ block_buffer'[r] = b /\ log'[Primary] = log[Primary]
    BY <1>0, <2>1 DEF TypeOK
  <2>3. \A op, es : Piece(op, es)' <=> Piece(op, es)
    BY <2>1, <2>2 DEF Piece, PieceOf
  <2>4. /\ Len(lg) < pending_op
        /\ \A i \in 1 .. Len(lg) : lg[i] = log[Primary][i]
        /\ \A op \in DOMAIN b : Piece(op, b[op])
    BY <1>2 DEF Takes
  <2>5. \A x \in msgs' : x.type = "generic" => x \in msgs
    BY <2>1
  <2> QED BY <1>0, <2>1, <2>2, <2>3, <2>4, <2>5 DEF BlocksFromLog, Backups
<1> QED BY <1>1, <1>2, GenericCases

\* Every step keeps the blocks those of the primary's log.
LEMMA NextBlocks ==
  ASSUME TypeOK, TypeOK', BlocksFromLog, QCsInOrder, [Next]_vars
  PROVE  BlocksFromLog'
<1>0. Grows
  BY NextGrows
<1>1. CASE /\ UNCHANGED <<log, block_buffer, pending_op>>
           /\ \A x \in msgs' \ msgs : x.type # "generic"
  BY <1>0, <1>1, BlocksFrame
<1>2. ASSUME NEW m \in msgs, HandleVote(m) PROVE BlocksFromLog'
  BY <1>1, <1>2, VoteCases, NoBlocks DEF backupVars
<1>3. CASE UNCHANGED vars
  BY <1>1, <1>3 DEF vars, backupVars, primaryVars
<1>4. CASE \E c \in Clients : Invoke(c) \/ \E m \in msgs : ReceiveReply(c, m)
  BY <1>1, <1>4, NoBlocks DEF Invoke, ReceiveReply, backupVars, primaryVars
<1>5. CASE \E r \in Replicas : ResendVote(r)
  BY <1>1, <1>5, NoBlocks DEF ResendVote, backupVars, primaryVars
<1> QED BY <1>0, <1>2, <1>3, <1>4, <1>5, PrimaryBlocks, GenericBlocks DEF Next

\* A newer QC, no newer than the primary's, keeps a replica's QCs in order.
LEMMA EnterOrder ==
  ASSUME TypeOK, QCsInOrder, NEW r \in Replicas, NEW lg, NEW q \in Nat, generic_qc[r] < q,
         r = Primary \/ q <= generic_qc[Primary], EnterNextView(r, lg, q)
  PROVE  \A s \in Replicas :
           /\ NoQC <= locked_qc'[s] /\ generic_qc'[s] <= generic_qc'[Primary]
           /\ locked_qc'[s] < generic_qc'[s] \/ (locked_qc'[s] = NoQC /\ generic_qc'[s] = NoQC)
<1>1. /\ locked_qc' = [locked_qc EXCEPT ![r] = generic_qc[r]]
      /\ generic_qc' = [generic_qc EXCEPT ![r] = q]
  BY DEF EnterNextView
<1>2. /\ \A s \in Replicas : generic_qc[s] \in Int /\ locked_qc[s] \in Int
      /\ Primary \in Replicas
  BY Group DEF TypeOK
<1>3. \A s \in Replicas :
        /\ s # r => locked_qc'[s] = locked_qc[s] /\ generic_qc'[s] = generic_qc[s]
        /\ s = r => locked_qc'[s] = generic_qc[r] /\ generic_qc'[s] = q
  BY <1>1 DEF TypeOK
<1>4. \A s \in Replicas :
        /\ NoQC <= locked_qc[s] /\ generic_qc[s] <= generic_qc[Primary]
        /\ locked_qc[s] < generic_qc[s] \/ (locked_qc[s] = NoQC /\ generic_qc[s] = NoQC)
  BY DEF QCsInOrder
<1> QED BY <1>2, <1>3, <1>4 DEF NoQC

\* The order of the QCs depends on the QCs and what justifies a block.
LEMMA QCsFrame ==
  ASSUME QCsInOrder, UNCHANGED qcVars,
         \A x \in msgs' \ msgs : x.type = "generic" => x.justify <= generic_qc[Primary]
  PROVE  QCsInOrder'
BY DEF QCsInOrder, qcVars

\* Every step keeps the QCs of a replica in order and behind the primary's.
LEMMA NextOrder ==
  ASSUME TypeOK, TypeOK', BlocksFromLog, QCsInOrder, [Next]_vars
  PROVE  QCsInOrder'
<1>0. generic_qc[Primary] <= generic_qc'[Primary] /\ Primary \in Replicas
  BY NextGrows, Group DEF Grows
<1>1. /\ \A r \in Replicas : generic_qc[r] \in Int /\ generic_qc'[r] \in Int
      /\ \A m \in msgs : m.type = "generic" => m.justify \in Nat
  BY MessageFields DEF TypeOK
<1>2. ASSUME NEW r \in Replicas, NEW lg, NEW q \in Nat, generic_qc[r] < q,
             r = Primary \/ q <= generic_qc[Primary], EnterNextView(r, lg, q),
             \A x \in msgs' \ msgs : x.type # "generic"
      PROVE  QCsInOrder'
  <2>1. \A m \in msgs' : m.type = "generic" => m.justify <= generic_qc'[Primary]
    BY <1>0, <1>1, <1>2 DEF QCsInOrder
  <2> QED BY <1>2, <2>1, EnterOrder DEF QCsInOrder
<1>3. CASE UNCHANGED qcVars /\ \A x \in msgs' \ msgs : x.type # "generic"
  BY <1>3, QCsFrame
<1>4. ASSUME NEW m \in msgs, HandleVote(m) PROVE QCsInOrder'
  <2>1. CASE UNCHANGED <<qcVars, msgs>>
    BY <1>3, <2>1 DEF qcVars
  <2>2. CASE /\ EnterNextView(Primary, log[Primary], m.op)
             /\ msgs' = msgs \cup Replies(Primary, log[Primary])
    BY <1>0, <1>2, <1>4, <2>2, VoteCases, NoBlocks
  <2> QED BY <1>4, <2>1, <2>2, VoteCases DEF qcVars
<1>5. ASSUME NEW r \in Replicas, NEW m \in msgs, HandleGeneric(r, m) PROVE QCsInOrder'
  <2>1. CASE Stop(r)
    BY <1>3, <2>1 DEF Stop
  <2>2. ASSUME NEW lg, NEW b, FinishGeneric(r, m, lg, b), ~Stop(r) PROVE QCsInOrder'
    <3>1. m.type = "generic" /\ m.justify \in Nat /\ m.justify <= generic_qc[Primary]
      BY <1>1, <1>5, GenericCases DEF QCsInOrder
    <3>2. CASE UNCHANGED qcVars /\ msgs' = msgs \cup {VoteMsg(r, m.op)}
      BY <1>3, <3>2, NoBlocks
    <3>3. CASE /\ generic_qc[r] < m.justify
               /\ EnterNextView(r, lg, m.justify)
               /\ msgs' = (msgs \cup {VoteMsg(r, m.op)}) \cup Replies(r, lg)
      BY <1>2, <3>1, <3>3, NoBlocks
    <3> QED BY <2>2, <3>2, <3>3, FinishCases
  <2> QED BY <1>5, <2>1, <2>2, GenericCases
<1>6. CASE CloseBatchTimeout \/ \E r \in Replicas, m \in msgs : HandleRequest(r, m)
  <2>1. \A x \in msgs' \ msgs : x.justify = generic_qc[Primary]
    BY <1>6, PrimaryAppends
  <2>2. UNCHANGED qcVars
    BY <1>6, PrimaryCases DEF qcVars
  <2> QED BY <1>0, <1>1, <2>1, <2>2, QCsFrame
<1>7. CASE UNCHANGED vars
  BY <1>3, <1>7 DEF vars
<1>8. CASE \E c \in Clients : Invoke(c) \/ \E m \in msgs : ReceiveReply(c, m)
  BY <1>3, <1>8, NoBlocks DEF Invoke, ReceiveReply
<1>9. CASE \E r \in Replicas : ResendVote(r)
  BY <1>3, <1>9, NoBlocks DEF ResendVote
<1> QED BY <1>4, <1>5, <1>6, <1>7, <1>8, <1>9 DEF Next

-----------------------------------------------------------------------------
(***************************************************************************)
(* Every step keeps VotesAreHeld.                                          *)
(***************************************************************************)

LEMMA InitVotes == Init => VotesAreHeld
<1> SUFFICES ASSUME Init PROVE VotesAreHeld
  OBVIOUS
<1>1. \A m \in msgs : m.type = "vote" /\ m.op = 0 /\ m.from \in Backups
  BY DEF Init, VoteMsg
<1>2. \A s \in Backups : Holds(s, 0)
  BY DEF Init, Holds, Backups
<1> QED BY <1>1, <1>2 DEF Init, VotesAreHeld, NoQC

\* The backups that hold a block never become fewer.
LEMMA HoldersStay ==
  ASSUME Grows, NEW op \in Nat, Cardinality(Holders(op)) >= 2 * f
  PROVE  Cardinality(Holders(op)') >= 2 * f
<1> DEFINE S == Holders(op)
           T == Holders(op)'
<1>1. IsFiniteSet(Backups) /\ 2 * f \in Nat
  BY Group, FS_Subset DEF Backups
<1>2. T \in SUBSET Backups /\ S \in SUBSET T
  BY DEF Grows, Holders
<1> HIDE DEF S, T
<1>3. Cardinality(S) >= 2 * f
  BY DEF S
<1>4. Cardinality(T) >= 2 * f
  BY <1>1, <1>2, <1>3, MoreIsEnough
<1> QED BY <1>4 DEF T

\* The votes of a new QC come from as many backups that have the block.
LEMMA QuorumHolds ==
  ASSUME TypeOK, VotesAreHeld, NEW m \in msgs, HandleVote(m),
         ~(Cardinality(Votes(m.op, m.from)) < 2 * f)
  PROVE  Cardinality(Holders(m.op)) >= 2 * f
<1> DEFINE T == Votes(m.op, m.from)
           S == Holders(m.op)
           sender == [v \in T |-> v[2]]
<1>0. f \in Nat
  BY Group
<1>1. /\ m.type = "vote" /\ m.op \in Nat /\ m.from \in Backups
      /\ generic_qc[Primary] < m.op /\ generic_qc[Primary] \in Int
  BY VoteCases, Group DEF TypeOK
<1>2. \A v \in T : v \in Nat \X Backups /\ v[1] = m.op /\ v[2] \in S
  <2>1. Holds(m.from, m.op)
    BY <1>1 DEF VotesAreHeld
  <2>2. \A v \in high_qc : v \in Nat \X Backups /\ Holds(v[2], v[1])
    BY DEF VotesAreHeld, TypeOK
  <2> SUFFICES ASSUME NEW v \in T PROVE v \in Nat \X Backups /\ v[1] = m.op /\ v[2] \in S
    OBVIOUS
  <2>3. v[1] = m.op /\ (v \in high_qc \/ v = <<m.op, m.from>>)
    BY DEF Votes
  <2>4. v \in Nat \X Backups /\ v[2] \in Backups
    BY <1>1, <2>2, <2>3
  <2>5. Holds(v[2], m.op)
    BY <2>1, <2>2, <2>3
  <2> QED BY <2>3, <2>4, <2>5 DEF Holders
<1>3. sender \in [T -> S] /\ \A t, u \in T : sender[t] = sender[u] => t = u
  BY <1>2
<1>4. IsFiniteSet(S)
  <2>1. IsFiniteSet(Backups)
    BY Group, FS_Subset DEF Backups
  <2> QED BY <2>1, FS_Subset DEF Holders
<1> HIDE DEF T, S, sender
<1>5. Cardinality(T) <= Cardinality(S) /\ Cardinality(T) \in Nat /\ Cardinality(S) \in Nat
  BY <1>3, <1>4, VotesOfSenders
<1>6. ~(Cardinality(T) < 2 * f)
  BY DEF T
<1>7. Cardinality(S) >= 2 * f
  BY <1>0, <1>5, <1>6
<1> QED BY <1>7 DEF S

\* The parts of VotesAreHeld that a step can disturb: new votes, stored votes,
\* new QCs and new blocks.
LEMMA VotesStep ==
  ASSUME TypeOK, TypeOK', VotesAreHeld, Grows,
         \A x \in msgs' \ msgs : x.type = "vote" =>
           x.op <= generic_qc[Primary] \/ Holds(x.from, x.op)',
         \A v \in high_qc' \ high_qc : Holds(v[2], v[1])',
         \A r \in Replicas : generic_qc'[r] = generic_qc[r] \/
           (generic_qc'[r] > 0 => Cardinality(Holders(generic_qc'[r])) >= 2 * f),
         \A x \in msgs' \ msgs : x.type = "generic" => x.justify = generic_qc[Primary]
  PROVE  VotesAreHeld'
<1>0. /\ generic_qc[Primary] <= generic_qc'[Primary]
      /\ generic_qc[Primary] \in Int /\ generic_qc'[Primary] \in Int
      /\ Primary \in Replicas
      /\ \A m \in msgs' : /\ m.type = "vote" => m.op \in Nat /\ m.from \in Backups
                          /\ m.type = "generic" => m.justify \in Nat
      /\ \A v \in high_qc : v[1] \in Nat /\ v[2] \in Backups
      /\ \A s \in Backups : \A op \in Nat : Holds(s, op) => Holds(s, op)'
  BY Group, MessageFields DEF Grows, TypeOK
<1>1. \A m \in msgs' : m.type = "vote" =>
        m.op <= generic_qc'[Primary] \/ Holds(m.from, m.op)'
  BY <1>0 DEF VotesAreHeld
<1>2. \A v \in high_qc' : Holds(v[2], v[1])'
  BY <1>0 DEF VotesAreHeld
<1>3. ASSUME NEW q \in Int, q > 0, Cardinality(Holders(q)) >= 2 * f
      PROVE  Cardinality(Holders(q)') >= 2 * f
  BY <1>3, HoldersStay
<1>4. ASSUME NEW r \in Replicas, NEW q, q = generic_qc'[r], q > 0
      PROVE  Cardinality(Holders(q)') >= 2 * f
  <2>1. q \in Int
    BY <1>4 DEF TypeOK
  <2>2. Cardinality(Holders(q)) >= 2 * f
    BY <1>4 DEF VotesAreHeld
  <2> QED BY <1>3, <1>4, <2>1, <2>2
<1>5. ASSUME NEW x \in msgs', x.type = "generic", NEW q, q = x.justify, q > 0
      PROVE  Cardinality(Holders(q)') >= 2 * f
  <2>1. Cardinality(Holders(q)) >= 2 * f
    BY <1>0, <1>5 DEF VotesAreHeld
  <2> QED BY <1>0, <1>3, <1>5, <2>1
<1> QED BY <1>1, <1>2, <1>4, <1>5 DEF VotesAreHeld, Holders, Holds

\* Every step keeps what votes stand for.
LEMMA NextVotes ==
  ASSUME TypeOK, TypeOK', BlocksFromLog, QCsInOrder, VotesAreHeld, [Next]_vars
  PROVE  VotesAreHeld'
<1>0. Grows /\ Primary \in Replicas /\ \A r \in Replicas : generic_qc[r] \in Int
  BY NextGrows, Group DEF TypeOK
<1>1. CASE /\ UNCHANGED <<generic_qc, high_qc>>
           /\ \A x \in msgs' \ msgs : x.type # "vote" /\ x.type # "generic"
  BY <1>0, <1>1, VotesStep
<1>2. ASSUME NEW m \in msgs, HandleVote(m) PROVE VotesAreHeld'
  <2>1. m.type = "vote" /\ m.op \in Nat /\ m.from \in Backups /\ generic_qc[Primary] < m.op
    BY <1>2, VoteCases
  <2>2. Holds(m.from, m.op)'
    <3>1. ASSUME NEW s, NEW op, s = m.from, op = m.op PROVE Holds(s, op)'
      <4>1. Holds(s, op)
        BY <1>0, <2>1, <3>1 DEF VotesAreHeld
      <4> QED BY <1>0, <2>1, <3>1, <4>1 DEF Grows
    <3> QED BY <3>1 DEF Holds
  <2>3. CASE high_qc' = high_qc \cup {<<m.op, m.from>>} /\ UNCHANGED <<qcVars, msgs>>
    <3>1. \A v \in high_qc' \ high_qc : v[1] = m.op /\ v[2] = m.from
      BY <2>3
    <3>2. \A v \in high_qc' \ high_qc : Holds(v[2], v[1])'
      BY <2>2, <3>1 DEF Holds
    <3> QED BY <1>0, <2>3, <3>2, VotesStep DEF qcVars
  <2>4. CASE UNCHANGED <<qcVars, high_qc, msgs>>
    BY <1>1, <2>4 DEF qcVars
  <2>5. CASE /\ ~(Cardinality(Votes(m.op, m.from)) < 2 * f)
             /\ high_qc' = {v \in high_qc : v[1] > m.op}
             /\ EnterNextView(Primary, log[Primary], m.op)
             /\ msgs' = msgs \cup Replies(Primary, log[Primary])
    <3>1. Cardinality(Holders(m.op)) >= 2 * f
      BY <1>2, <2>5, QuorumHolds
    <3>2. \A r \in Replicas : generic_qc'[r] = generic_qc[r] \/ generic_qc'[r] = m.op
      BY <2>5 DEF EnterNextView, TypeOK
    <3>3. \A x \in msgs' \ msgs : x.type = "reply"
      BY <2>5, NoBlocks
    <3>4. \A v \in high_qc' : v \in high_qc
      BY <2>5
    <3> QED BY <1>0, <3>1, <3>2, <3>3, <3>4, VotesStep
  <2> QED BY <1>2, <2>3, <2>4, <2>5, VoteCases
<1>3. ASSUME NEW r \in Replicas, NEW m \in msgs, HandleGeneric(r, m) PROVE VotesAreHeld'
  <2>0. /\ r \in Backups /\ m.type = "generic" /\ m.op \in Nat
        /\ m.justify > 0 => Cardinality(Holders(m.justify)) >= 2 * f
    BY <1>3, GenericCases, MessageFields DEF TypeOK, Opnum, VotesAreHeld
  <2>1. CASE Stop(r)
    BY <1>1, <2>1 DEF Stop, qcVars, primaryVars
  <2>2. ASSUME NEW lg, NEW b, Takes(r, m, lg, b), FinishGeneric(r, m, lg, b), ~Stop(r)
        PROVE  VotesAreHeld'
    <3>1. /\ log' = [log EXCEPT ![r] = lg]
          /\ block_buffer' = [block_buffer EXCEPT ![r] = b]
          /\ UNCHANGED high_qc
          /\ UNCHANGED qcVars \/ EnterNextView(r, lg, m.justify)
      BY <2>2, FinishCases DEF primaryVars
    <3>2. \A x \in msgs' \ msgs : x = VoteMsg(r, m.op) \/ x.type = "reply"
      BY <2>2, FinishCases, NoBlocks
    <3>3. Holds(r, m.op)'
      <4>1. log'[r] = lg /\ block_buffer'[r] = b
        BY <3>1 DEF TypeOK
      <4> QED BY <2>0, <2>2, <4>1 DEF Takes, Holds
    <3>4. \A x \in msgs' \ msgs : x.type = "vote" => x.op = m.op /\ x.from = r
      BY <3>2 DEF VoteMsg
    <3>5. \A x \in msgs' \ msgs : x.type = "vote" => Holds(x.from, x.op)'
      BY <3>3, <3>4 DEF Holds
    <3>6. \A s \in Replicas : generic_qc'[s] = generic_qc[s] \/ generic_qc'[s] = m.justify
      BY <3>1 DEF EnterNextView, TypeOK, qcVars
    <3>7. \A x \in msgs' \ msgs : x.type # "generic"
      BY <3>2, NoBlocks
    <3> QED BY <1>0, <2>0, <3>1, <3>5, <3>6, <3>7, VotesStep
  <2> QED BY <1>3, <2>1, <2>2, GenericCases
<1>4. CASE CloseBatchTimeout \/ \E r \in Replicas, m \in msgs : HandleRequest(r, m)
  <2>1. UNCHANGED <<generic_qc, high_qc>>
    BY <1>4, PrimaryCases DEF qcVars
  <2>2. \A x \in msgs' \ msgs : x.type = "generic" /\ x.justify = generic_qc[Primary]
    BY <1>4, PrimaryAppends
  <2> QED BY <1>0, <2>1, <2>2, VotesStep
<1>5. ASSUME NEW r \in Replicas, ResendVote(r) PROVE VotesAreHeld'
  <2>1. UNCHANGED <<generic_qc, high_qc>>
    BY <1>5 DEF ResendVote, qcVars, primaryVars
  <2>2. \A x \in msgs' \ msgs :
          /\ x.type = "vote" /\ x.from = r
          /\ x.op = IF generic_qc[r] = NoQC THEN 0 ELSE generic_qc[r]
    BY <1>5 DEF ResendVote, VoteMsg
  <2>3. /\ r \in Backups /\ generic_qc[r] <= generic_qc[Primary]
        /\ log'[r] = log[r] /\ Len(log[r]) \in Nat
    BY <1>5 DEF ResendVote, Backups, QCsInOrder, TypeOK
  <2>4. Holds(r, 0)'
    BY <2>3 DEF Holds
  <2>5. \A x \in msgs' \ msgs : x.op <= generic_qc[Primary] \/ Holds(x.from, x.op)'
    BY <2>2, <2>3, <2>4 DEF Holds
  <2> QED BY <1>0, <2>1, <2>2, <2>5, VotesStep
<1>6. CASE UNCHANGED vars
  BY <1>1, <1>6 DEF vars, qcVars, primaryVars
<1>7. CASE \E c \in Clients : Invoke(c) \/ \E m \in msgs : ReceiveReply(c, m)
  BY <1>1, <1>7, NoBlocks DEF Invoke, ReceiveReply, qcVars, primaryVars
<1> QED BY <1>2, <1>3, <1>4, <1>5, <1>6, <1>7 DEF Next

-----------------------------------------------------------------------------
(***************************************************************************)
(* Every step keeps ExecutedInv.                                           *)
(***************************************************************************)

\* What was executed stays in its place in the log.
LEMMA ExecutedStays ==
  ASSUME TypeOK, TypeOK', Grows, NEW r \in Replicas, ExecutedUpTo(r),
         locked_qc'[r] = locked_qc[r], executed'[r] = executed[r]
  PROVE  ExecutedUpTo(r)'
<1>1. CASE locked_qc[r] <= 0 /\ executed[r] = {}
  BY <1>1 DEF ExecutedUpTo
<1>2. ASSUME NEW a \in 1 .. locked_qc[r], ExecutedFrom(r, a) PROVE ExecutedFrom(r, a)'
  <2>1. /\ a .. locked_qc[r] - 1 \subseteq 1 .. Len(log[r])
        /\ executed[r] = {op \in a .. locked_qc[r] - 1 : log[r][op] # Noop}
    BY <1>2 DEF ExecutedFrom
  <2>2. /\ Len(log[r]) <= Len(log'[r]) /\ Len(log[r]) \in Nat /\ Len(log'[r]) \in Nat
        /\ \A i \in 1 .. Len(log[r]) : log'[r][i] = log[r][i]
    BY DEF Grows, TypeOK
  <2>3. a .. locked_qc[r] - 1 \subseteq 1 .. Len(log'[r])
    BY <2>1, <2>2
  <2>4. executed[r] = {op \in a .. locked_qc[r] - 1 : log'[r][op] # Noop}
    BY <2>1, <2>2
  <2> QED BY <2>3, <2>4 DEF ExecutedFrom
<1> QED BY <1>1, <1>2 DEF ExecutedUpTo

\* A replica that enters a view executes from where it stopped to the new locked
\* QC, or nothing if it had no QC to execute from.
LEMMA EnterExecuted ==
  ASSUME TypeOK, TypeOK', QCsInOrder, Grows, NEW r \in Replicas, ExecutedUpTo(r),
         NEW lg, lg = log'[r], NEW q, EnterNextView(r, lg, q), ~NeedsTransfer(r, lg)
  PROVE  ExecutedUpTo(r)'
<1> DEFINE l == locked_qc[r]
           g == generic_qc[r]
<1>1. /\ l \in Int /\ g \in Int /\ (l < g \/ (l = -1 /\ g = -1))
      /\ locked_qc'[r] = g
      /\ executed'[r] = executed[r] \cup {op \in ToExecute(r) : lg[op] # Noop}
  BY DEF EnterNextView, TypeOK, QCsInOrder, NoQC
<1>2. /\ lg \in Seq(Entry) /\ Len(log[r]) <= Len(lg) /\ Len(log[r]) \in Nat /\ Len(lg) \in Nat
      /\ \A i \in 1 .. Len(log[r]) : lg[i] = log[r][i]
  <2>1. log[r] \in Seq(Entry) /\ log'[r] \in Seq(Entry)
    BY DEF TypeOK
  <2>2. Len(log[r]) <= Len(log'[r]) /\ \A i \in 1 .. Len(log[r]) : log'[r][i] = log[r][i]
    BY DEF Grows
  <2> QED BY <2>1, <2>2
<1>3. CASE l <= 0
  <2>1. executed[r] = {}
    <3>1. \A a \in 1 .. l : FALSE
      BY <1>1, <1>3
    <3> QED BY <3>1 DEF ExecutedUpTo
  <2>2. ToExecute(r) = {}
    BY <1>3 DEF ToExecute
  <2>3. executed'[r] = {}
    BY <1>1, <2>1, <2>2
  <2>4. CASE g <= 0
    BY <1>1, <2>3, <2>4 DEF ExecutedUpTo
  <2>5. CASE ~(g <= 0)
    <3>1. g \in 1 .. g /\ g .. g - 1 = {}
      BY <1>1, <2>5
    <3>2. ASSUME NEW a, a = g PROVE ExecutedFrom(r, a)'
      BY <1>1, <2>3, <3>1, <3>2 DEF ExecutedFrom
    <3> QED BY <1>1, <3>1, <3>2 DEF ExecutedUpTo
  <2> QED BY <2>4, <2>5
<1>4. CASE ~(l <= 0)
  <2>1. PICK a \in 1 .. l : ExecutedFrom(r, a)
    BY <1>4 DEF ExecutedUpTo
  <2>2. /\ a \in 1 .. g /\ l < g
        /\ \A op \in a .. g - 1 : op \in a .. l - 1 \/ op \in l .. g - 1
        /\ \A op \in a .. l - 1 : op \in a .. g - 1
        /\ \A op \in l .. g - 1 : op \in a .. g - 1
    <3> HIDE DEF l, g
    <3> QED BY <1>1, <1>4, <2>1
  <2>3. ToExecute(r) = l .. g - 1
    BY <1>4 DEF ToExecute
  <2>4. \A op \in l .. g - 1 : op \in 1 .. Len(lg)
    <3>1. \A op \in l .. g - 1 : ~(op > Len(lg))
      BY <2>3 DEF NeedsTransfer
    <3> HIDE DEF l, g
    <3> QED BY <1>1, <1>2, <1>4, <3>1
  <2>5. /\ \A op \in a .. l - 1 : op \in 1 .. Len(log[r])
        /\ executed[r] = {op \in a .. l - 1 : log[r][op] # Noop}
    BY <2>1 DEF ExecutedFrom
  <2>6. \A op \in a .. l - 1 : op \in 1 .. Len(lg) /\ lg[op] = log[r][op]
    <3> HIDE DEF l, g
    <3> QED BY <1>2, <2>5
  <2> HIDE DEF l, g
  <2>7. a .. g - 1 \subseteq 1 .. Len(lg)
    BY <2>2, <2>4, <2>6
  <2>8. executed'[r] = {op \in a .. g - 1 : lg[op] # Noop}
    <3>1. executed'[r] = {op \in a .. l - 1 : log[r][op] # Noop}
                           \cup {op \in l .. g - 1 : lg[op] # Noop}
      BY <1>1, <2>3, <2>5
    <3> QED BY <2>2, <2>6, <3>1
  <2>9. ExecutedFrom(r, a)'
    BY <1>1, <2>7, <2>8 DEF ExecutedFrom
  <2> QED BY <1>1, <2>2, <2>9 DEF ExecutedUpTo
<1> QED BY <1>3, <1>4

\* Every step keeps executions below the QCs that justify them.
LEMMA NextExecuted ==
  ASSUME TypeOK, TypeOK', BlocksFromLog, QCsInOrder, ExecutedInv, [Next]_vars
  PROVE  ExecutedInv'
<1>0. Grows /\ Primary \in Replicas
  BY NextGrows, Group
<1>1. CASE UNCHANGED qcVars
  BY <1>0, <1>1, ExecutedStays DEF ExecutedInv, qcVars
<1>2. ASSUME NEW r \in Replicas, NEW lg, lg = log'[r], NEW q, EnterNextView(r, lg, q),
             ~NeedsTransfer(r, lg)
      PROVE  ExecutedInv'
  <2>1. \A s \in Replicas : s # r => locked_qc'[s] = locked_qc[s] /\ executed'[s] = executed[s]
    BY <1>2 DEF EnterNextView, TypeOK
  <2> QED BY <1>0, <1>2, <2>1, EnterExecuted, ExecutedStays DEF ExecutedInv
<1>3. ASSUME NEW m \in msgs, HandleVote(m) PROVE ExecutedInv'
  BY <1>0, <1>1, <1>2, <1>3, VoteCases
<1>4. ASSUME NEW r \in Replicas, NEW m \in msgs, HandleGeneric(r, m) PROVE ExecutedInv'
  <2>1. CASE Stop(r)
    BY <1>1, <2>1 DEF Stop
  <2>2. ASSUME NEW lg, NEW b, FinishGeneric(r, m, lg, b), ~Stop(r) PROVE ExecutedInv'
    <3>1. log' = [log EXCEPT ![r] = lg]
      BY <2>2, FinishCases
    <3>2. log'[r] = lg
      BY <3>1 DEF TypeOK
    <3> QED BY <1>1, <1>2, <2>2, <3>2, FinishCases
  <2> QED BY <1>4, <2>1, <2>2, GenericCases
<1>5. CASE CloseBatchTimeout \/ \E r \in Replicas, m \in msgs : HandleRequest(r, m)
  BY <1>1, <1>5, PrimaryCases
<1>6. CASE UNCHANGED vars
  BY <1>1, <1>6 DEF vars
<1>7. CASE \E c \in Clients : Invoke(c) \/ \E m \in msgs : ReceiveReply(c, m)
  BY <1>1, <1>7 DEF Invoke, ReceiveReply
<1>8. CASE \E r \in Replicas : ResendVote(r)
  BY <1>1, <1>8 DEF ResendVote
<1> QED BY <1>3, <1>4, <1>5, <1>6, <1>7, <1>8 DEF Next

-----------------------------------------------------------------------------
(***************************************************************************)
(* Every step keeps TableInv.                                              *)
(***************************************************************************)

LEMMA InitTable == Init => ExecutedInv /\ TableInv
<1> SUFFICES ASSUME Init PROVE ExecutedInv /\ TableInv
  OBVIOUS
<1>1. ExecutedInv
  BY DEF Init, ExecutedInv, ExecutedUpTo, NoQC
<1>2. log[Primary] = <<Noop>>
  BY Group DEF Init
<1>3. TableInv
  BY <1>2 DEF TableInv, TableOf
<1> QED BY <1>1, <1>3

\* Appending a NOOP, or a request newer than the client's entry, which becomes
\* the client's entry.
LEMMA TableAppends ==
  ASSUME NEW lg \in Seq(Entry), NEW t \in [Clients -> Nat], TableOf(lg, t)
  PROVE  /\ TableOf(Append(lg, Noop), t)
         /\ \A e \in Request : t[e.client] < e.num =>
              TableOf(Append(lg, e), [t EXCEPT ![e.client] = e.num])
<1> DEFINE n == Len(lg)
<1>0. n \in Nat /\ n + 1 \notin 1 .. n /\ \A i \in 1 .. n + 1 : i \in 1 .. n \/ i = n + 1
  OBVIOUS
<1>1. /\ \A i \in 1 .. n : lg[i] # Noop => lg[i].num <= t[lg[i].client]
      /\ \A i, j \in 1 .. n : i # j /\ lg[i] = lg[j] => lg[i] = Noop
      /\ \A i \in 1 .. n : lg[i] \in Entry
  BY DEF TableOf
<1>2. TableOf(Append(lg, Noop), t)
  <2> DEFINE L == Append(lg, Noop)
  <2>1. Len(L) = n + 1 /\ L[n + 1] = Noop /\ \A i \in 1 .. n : L[i] = lg[i]
    BY Group, AppendKeeps
  <2> HIDE DEF L, n
  <2>2. TableOf(L, t)
    BY <1>0, <1>1, <2>1 DEF TableOf
  <2> QED BY <2>2 DEF L
<1>3. ASSUME NEW e \in Request, t[e.client] < e.num
      PROVE  TableOf(Append(lg, e), [t EXCEPT ![e.client] = e.num])
  <2> DEFINE L == Append(lg, e)
             u == [t EXCEPT ![e.client] = e.num]
  <2>1. Len(L) = n + 1 /\ L[n + 1] = e /\ \A i \in 1 .. n : L[i] = lg[i]
    BY AppendKeeps DEF Entry
  <2>2. e.client \in Clients /\ e.num \in Nat /\ t[e.client] \in Nat
    BY DEF Request, Opnum
  <2>3. \A c \in Clients : u[c] \in Nat /\ t[c] \in Nat /\ t[c] <= u[c]
    BY <1>3, <2>2
  <2>4. u[e.client] = e.num
    BY <2>2
  <2>5. \A i \in 1 .. n : lg[i] # Noop =>
          lg[i] # e /\ lg[i].num <= u[lg[i].client]
    <3> SUFFICES ASSUME NEW i \in 1 .. n, lg[i] # Noop
                 PROVE  lg[i] # e /\ lg[i].num <= u[lg[i].client]
      OBVIOUS
    <3>1. lg[i].client \in Clients /\ lg[i].num \in Nat
      BY <1>1, RequestFields DEF Request, Opnum
    <3>2. lg[i].num <= t[lg[i].client]
      BY <1>1
    <3>3. lg[i] # e
      BY <1>3, <2>2, <3>1, <3>2
    <3> QED BY <2>3, <3>1, <3>2, <3>3
  <2>6. e # Noop
    BY RequestFields DEF Entry
  <2> HIDE DEF L, n, u
  <2>7. \A i \in 1 .. Len(L) : L[i] # Noop => L[i].num <= u[L[i].client]
    BY <1>0, <2>1, <2>2, <2>4, <2>5
  <2>8. \A i, j \in 1 .. Len(L) : i # j /\ L[i] = L[j] => L[i] = Noop
    BY <1>0, <1>1, <2>1, <2>5, <2>6
  <2>9. TableOf(L, u)
    BY <2>7, <2>8 DEF TableOf
  <2> QED BY <2>9 DEF L, u
<1> QED BY <1>2, <1>3

\* The no-op that ends a batch needs no entry of the client table.
LEMMA CloseBatchTable ==
  ASSUME NEW lg \in Seq(Entry), NEW t \in [Clients -> Nat], TableOf(lg, t),
         DOMAIN log = Replicas, CloseBatch(lg)
  PROVE  TableOf(log'[Primary], t)
<1>1. log'[Primary] = Append(lg, Noop)
  BY Group DEF CloseBatch
<1> QED BY <1>1, TableAppends

\* Every step keeps the client tables at least as new as the logs.
LEMMA NextTable ==
  ASSUME TypeOK, TableInv, BlocksFromLog, [Next]_vars
  PROVE  TableInv'
<1> DEFINE P == log[Primary]
           t == client_table[Primary]
<1>0. /\ Primary \in Replicas /\ DOMAIN log = Replicas
      /\ P \in Seq(Entry) /\ t \in [Clients -> Nat] /\ TableOf(P, t)
  BY Group DEF TypeOK, TableInv
<1>1. CASE log'[Primary] = P /\ client_table'[Primary] = t
  BY <1>0, <1>1 DEF TableInv
<1>2. CASE CloseBatchTimeout
  BY <1>0, <1>2, CloseBatchTable DEF CloseBatchTimeout, TableInv
<1>3. ASSUME NEW r \in Replicas, NEW m \in msgs, HandleRequest(r, m) PROVE TableInv'
  <2>1. m.client \in Clients /\ m.num \in Opnum
    BY <1>3, MessageFields DEF HandleRequest, TypeOK
  <2>2. CASE r # Primary
    BY <1>1, <1>3, <2>1, <2>2 DEF HandleRequest, TypeOK
  <2>3. CASE r = Primary
    <3> DEFINE e  == [client |-> m.client, num |-> m.num]
               lg == Append(P, e)
               u  == [t EXCEPT ![m.client] = m.num]
    <3>1. e \in Request /\ e \in Entry /\ e.client = m.client /\ e.num = m.num
      BY <2>1 DEF Request, Entry
    <3>2. t[m.client] < m.num
      BY <1>3, <2>3 DEF HandleRequest, NewRequest
    <3>3. client_table'[Primary] = u
      BY <1>0, <1>3, <2>3 DEF HandleRequest, TypeOK
    <3> HIDE DEF e
    <3>4. TableOf(lg, u)
      BY <1>0, <3>1, <3>2, TableAppends
    <3>5. lg \in Seq(Entry) /\ u \in [Clients -> Nat]
      BY <1>0, <2>1, <3>1 DEF Opnum
    <3> HIDE DEF u
    <3>6. CloseBatch(lg) \/ log' = [log EXCEPT ![Primary] = lg]
      BY <1>3, <2>3 DEF HandleRequest, e
    <3> HIDE DEF lg
    <3>7. TableOf(log'[Primary], u)
      BY <1>0, <3>4, <3>5, <3>6, CloseBatchTable
    <3> QED BY <3>3, <3>7 DEF TableInv
  <2> QED BY <2>2, <2>3
<1>4. ASSUME NEW r \in Replicas, NEW m \in msgs, HandleGeneric(r, m) PROVE TableInv'
  <2>1. r # Primary
    BY <1>4, GenericCases DEF Backups
  <2>2. UNCHANGED client_table
    BY <1>4, GenericCases, FinishCases DEF Stop
  <2>3. log'[Primary] = P
    BY <1>0, <1>4, <2>1, GenericCases, FinishCases DEF Stop
  <2> QED BY <1>1, <2>2, <2>3
<1>5. ASSUME NEW m \in msgs, HandleVote(m) PROVE TableInv'
  BY <1>1, <1>5, VoteCases
<1>6. CASE UNCHANGED vars
  BY <1>1, <1>6 DEF vars
<1>7. CASE \E c \in Clients : Invoke(c) \/ \E m \in msgs : ReceiveReply(c, m)
  BY <1>1, <1>7 DEF Invoke, ReceiveReply
<1>8. CASE \E r \in Replicas : ResendVote(r)
  BY <1>1, <1>8 DEF ResendVote
<1> QED BY <1>2, <1>3, <1>4, <1>5, <1>6, <1>7, <1>8 DEF Next

-----------------------------------------------------------------------------
(***************************************************************************)
(* Every step keeps RepliesInv and CompletedIsExecuted.                    *)
(***************************************************************************)

LEMMA InitReplies == Init => RepliesInv /\ CompletedIsExecuted
<1> SUFFICES ASSUME Init PROVE RepliesInv /\ CompletedIsExecuted
  OBVIOUS
<1>1. \A m \in msgs : m.type # "reply"
  BY DEF Init, VoteMsg
<1>2. RepliesInv
  BY <1>1 DEF Init, RepliesInv
<1>3. \A c \in Clients : 1 .. last_req[c] = {}
  BY DEF Init
<1> QED BY <1>2, <1>3 DEF CompletedIsExecuted

\* What a replica executed is in its log.
LEMMA ExecutedInLog ==
  ASSUME TypeOK, ExecutedInv, NEW r \in Replicas
  PROVE  executed[r] \subseteq 1 .. Len(log[r])
<1>1. ExecutedUpTo(r)
  BY DEF ExecutedInv
<1>2. ASSUME NEW a, ExecutedFrom(r, a) PROVE executed[r] \subseteq 1 .. Len(log[r])
  BY <1>2 DEF ExecutedFrom
<1> QED BY <1>1, <1>2 DEF ExecutedUpTo

\* What a replica has executed it has executed for ever.
LEMMA DoneStays ==
  ASSUME TypeOK, ExecutedInv, Grows
  PROVE  \A r \in Replicas : Done(r) \subseteq Done(r)'
<1> SUFFICES ASSUME NEW r \in Replicas, NEW op \in executed[r]
             PROVE  op \in executed'[r] /\ log'[r][op] = log[r][op]
  BY DEF Done
<1> QED BY ExecutedInLog DEF Grows

\* The clients' view is kept by a step of a replica whose new replies are for
\* requests that it has executed.
LEMMA RepliesStep ==
  ASSUME TypeOK, ExecutedInv, RepliesInv, Grows, UNCHANGED clientVars,
         \A x \in msgs' \ msgs : x.type = "reply" => Req(x.client, x.num) \in Done(x.from)'
  PROVE  RepliesInv'
<1>0. \A r \in Replicas : Done(r) \subseteq Done(r)'
  BY DoneStays
<1>1. \A m \in msgs : m.type = "reply" => m.from \in Replicas
  BY MessageFields DEF TypeOK
<1>2. \A m \in msgs' : m.type = "reply" => Req(m.client, m.num) \in Done(m.from)'
  BY <1>0, <1>1 DEF RepliesInv
<1>3. \A c \in Clients :
        /\ pending[c] \in {0, last_req[c]}
        /\ pending[c] = 0 => received[c] = {}
        /\ \A r \in received[c] : Req(c, pending[c]) \in Done(r)'
  BY <1>0 DEF RepliesInv, TypeOK
<1> QED BY <1>2, <1>3 DEF RepliesInv, clientVars, Req

\* The replies of EnterNextView are to requests it executed.
LEMMA EnterReplies ==
  ASSUME TypeOK, NEW r \in Replicas, NEW lg \in Seq(Entry), lg = log'[r], NEW q,
         EnterNextView(r, lg, q), ~NeedsTransfer(r, lg), NEW x \in Replies(r, lg)
  PROVE  x.from = r /\ Req(x.client, x.num) \in Done(r)'
<1>1. PICK op \in ToExecute(r) : lg[op] # Noop /\ lg[op] = Req(x.client, x.num)
  BY RepliesAre
<1>2. op \in executed'[r]
  BY <1>1 DEF EnterNextView, TypeOK
<1> QED BY <1>1, <1>2, RepliesAre DEF Done

\* The clients' steps keep what replies stand for.
LEMMA ClientReplies ==
  ASSUME TypeOK, ExecutedInv, RepliesInv, Grows, NEW c \in Clients,
         Invoke(c) \/ \E m \in msgs : ReceiveReply(c, m)
  PROVE  RepliesInv'
<1>1. UNCHANGED <<log, executed>> /\ \A x \in msgs' \ msgs : x.type = "request"
  BY NoBlocks DEF Invoke, ReceiveReply, qcVars
<1>2. \A r : Done(r)' = Done(r)
  BY <1>1 DEF Done
<1>3. /\ \A m \in msgs' : m.type = "reply" => Req(m.client, m.num) \in Done(m.from)
      /\ \A d \in Clients :
           /\ pending[d] \in {0, last_req[d]}
           /\ pending[d] = 0 => received[d] = {}
           /\ \A r \in received[d] : Req(d, pending[d]) \in Done(r)
  BY <1>1 DEF RepliesInv
<1>4. ASSUME \A d \in Clients :
               /\ pending'[d] \in {0, last_req'[d]}
               /\ pending'[d] = 0 => received'[d] = {}
               /\ \A r \in received'[d] : Req(d, pending'[d]) \in Done(r)
      PROVE  RepliesInv'
  BY <1>2, <1>3, <1>4 DEF RepliesInv, Req
<1>5. CASE Invoke(c)
  <2>1. /\ pending[c] = 0 /\ UNCHANGED received
        /\ pending' = [pending EXCEPT ![c] = last_req[c] + 1]
        /\ last_req' = [last_req EXCEPT ![c] = @ + 1]
    BY <1>5 DEF Invoke
  <2>2. \A d \in Clients :
          /\ d # c => pending'[d] = pending[d] /\ last_req'[d] = last_req[d]
          /\ d = c => pending'[d] = last_req'[d] /\ received'[d] = {} /\ last_req'[d] # 0
    BY <1>3, <2>1 DEF TypeOK
  <2> QED BY <1>3, <1>4, <2>1, <2>2
<1>6. ASSUME NEW m \in msgs, ReceiveReply(c, m) PROVE RepliesInv'
  <2>1. /\ m.type = "reply" /\ m.client = c /\ pending[c] # 0 /\ m.num = pending[c]
        /\ UNCHANGED last_req
    BY <1>6, ReplyCases
  <2>2. Req(c, pending[c]) \in Done(m.from)
    BY <2>1 DEF RepliesInv
  <2>3. CASE UNCHANGED pending /\ received' = [received EXCEPT ![c] = @ \cup {m.from}]
    <3>1. \A d \in Clients :
            /\ d # c => received'[d] = received[d]
            /\ d = c => received'[d] = received[c] \cup {m.from}
      BY <2>3 DEF TypeOK
    <3> QED BY <1>3, <1>4, <2>1, <2>2, <2>3, <3>1
  <2>4. CASE /\ pending' = [pending EXCEPT ![c] = 0]
             /\ received' = [received EXCEPT ![c] = {}]
    <3>1. \A d \in Clients :
            /\ d # c => received'[d] = received[d] /\ pending'[d] = pending[d]
            /\ d = c => received'[d] = {} /\ pending'[d] = 0
      BY <2>4 DEF TypeOK
    <3> QED BY <1>3, <1>4, <2>1, <3>1
  <2> QED BY <1>6, <2>3, <2>4, ReplyCases
<1> QED BY <1>5, <1>6

\* Every step keeps what replies stand for.
LEMMA NextReplies ==
  ASSUME TypeOK, TypeOK', BlocksFromLog, QCsInOrder, ExecutedInv, RepliesInv, [Next]_vars
  PROVE  RepliesInv'
<1>0. Grows /\ Primary \in Replicas /\ log[Primary] \in Seq(Entry)
  BY NextGrows, Group DEF TypeOK
<1>1. CASE UNCHANGED clientVars /\ \A x \in msgs' \ msgs : x.type # "reply"
  BY <1>0, <1>1, RepliesStep
<1>2. ASSUME NEW r \in Replicas, NEW lg \in Seq(Entry), lg = log'[r], NEW q,
             EnterNextView(r, lg, q), ~NeedsTransfer(r, lg), UNCHANGED clientVars,
             \A x \in msgs' \ msgs : x.type = "reply" => x \in Replies(r, lg)
      PROVE  RepliesInv'
  <2>1. \A x \in msgs' \ msgs : x.type = "reply" => Req(x.client, x.num) \in Done(x.from)'
    <3> SUFFICES ASSUME NEW x \in msgs' \ msgs, x.type = "reply"
                 PROVE  Req(x.client, x.num) \in Done(x.from)'
      OBVIOUS
    <3>1. x.from = r /\ Req(x.client, x.num) \in Done(r)'
      BY <1>2, EnterReplies
    <3> QED BY <3>1 DEF Done
  <2> QED BY <1>0, <1>2, <2>1, RepliesStep
<1>3. ASSUME NEW m \in msgs, HandleVote(m) PROVE RepliesInv'
  BY <1>0, <1>1, <1>2, <1>3, VoteCases
<1>4. ASSUME NEW r \in Replicas, NEW m \in msgs, HandleGeneric(r, m) PROVE RepliesInv'
  <2>1. CASE Stop(r)
    BY <1>1, <2>1 DEF Stop
  <2>2. ASSUME NEW lg, NEW b, Takes(r, m, lg, b), FinishGeneric(r, m, lg, b), ~Stop(r)
        PROVE  RepliesInv'
    <3>1. /\ log' = [log EXCEPT ![r] = lg] /\ lg \in Seq(Entry) /\ UNCHANGED clientVars
      BY <2>2, FinishCases DEF Takes
    <3>2. log'[r] = lg
      BY <3>1 DEF TypeOK
    <3>3. CASE msgs' = msgs \cup {VoteMsg(r, m.op)}
      BY <1>1, <3>1, <3>3, NoBlocks
    <3>4. CASE /\ ~NeedsTransfer(r, lg) /\ EnterNextView(r, lg, m.justify)
               /\ msgs' = (msgs \cup {VoteMsg(r, m.op)}) \cup Replies(r, lg)
      BY <1>2, <3>1, <3>2, <3>4, NoBlocks
    <3> QED BY <2>2, <3>3, <3>4, FinishCases
  <2> QED BY <1>4, <2>1, <2>2, GenericCases
<1>5. CASE CloseBatchTimeout \/ \E r \in Replicas, m \in msgs : HandleRequest(r, m)
  <2>1. UNCHANGED clientVars
    BY <1>5, PrimaryCases
  <2>2. \A x \in msgs' \ msgs : x.type = "generic"
    BY <1>5, PrimaryAppends
  <2> QED BY <1>1, <2>1, <2>2
<1>6. CASE UNCHANGED vars
  BY <1>1, <1>6 DEF vars
<1>7. ASSUME NEW c \in Clients, Invoke(c) \/ \E m \in msgs : ReceiveReply(c, m)
      PROVE  RepliesInv'
  BY <1>0, <1>7, ClientReplies
<1>8. CASE \E r \in Replicas : ResendVote(r)
  BY <1>1, <1>8, NoBlocks DEF ResendVote
<1> QED BY <1>3, <1>4, <1>5, <1>6, <1>7, <1>8 DEF Next

\* The replicas that have executed request n of client c.
Executors(c, n) == {r \in Replicas : Req(c, n) \in Done(r)}

\* The replicas that executed a request are some of the replicas.
LEMMA ExecutorsAre ==
  ASSUME NEW c, NEW n
  PROVE  Executors(c, n) = {r \in Replicas : \E op \in executed[r] :
                              log[r][op] = [client |-> c, num |-> n]}
BY DEF Executors, Done, Req

\* Every step keeps the executions that completed requests stand on.
LEMMA NextCompleted ==
  ASSUME TypeOK, BlocksFromLog, ExecutedInv, RepliesInv, CompletedIsExecuted, Grows,
         [Next]_vars
  PROVE  CompletedIsExecuted'
<1>0. f + 1 \in Nat
  BY Group
<1>1. ASSUME NEW c, NEW n, NEW S \in SUBSET Executors(c, n), Cardinality(S) >= f + 1
      PROVE  Cardinality(Executors(c, n)') >= f + 1
  <2> DEFINE T == Executors(c, n)'
  <2>1. T \in SUBSET Replicas /\ S \in SUBSET T
    BY DoneStays DEF Executors, Req
  <2> HIDE DEF T
  <2>2. Cardinality(T) >= f + 1
    BY <1>0, <1>1, <2>1, MoreIsEnough, Group
  <2> QED BY <2>2 DEF T
<1>2. \A c \in Clients : \A n \in 1 .. last_req[c] : n # pending[c] =>
        Cardinality(Executors(c, n)') >= f + 1
  BY <1>1, ExecutorsAre DEF CompletedIsExecuted
<1>3. ASSUME \A c \in Clients : \A n \in 1 .. last_req'[c] : n # pending'[c] =>
               Cardinality(Executors(c, n)') >= f + 1
      PROVE  CompletedIsExecuted'
  BY <1>3 DEF CompletedIsExecuted, Executors, Done, Req
<1>4. CASE UNCHANGED <<pending, last_req>>
  BY <1>2, <1>3, <1>4
<1>5. ASSUME NEW c \in Clients, Invoke(c) PROVE CompletedIsExecuted'
  <2>1. /\ pending[c] = 0 /\ last_req[c] \in Nat
        /\ pending'[c] = last_req[c] + 1 /\ last_req'[c] = last_req[c] + 1
        /\ \A d \in Clients : d # c => pending'[d] = pending[d] /\ last_req'[d] = last_req[d]
    BY <1>5 DEF Invoke, TypeOK
  <2>2. \A n \in 1 .. last_req'[c] : n # pending'[c] => n \in 1 .. last_req[c] /\ n # pending[c]
    BY <2>1
  <2>3. \A d \in Clients : \A n \in 1 .. last_req'[d] : n # pending'[d] =>
          Cardinality(Executors(d, n)') >= f + 1
    BY <1>2, <2>1, <2>2
  <2> QED BY <1>3, <2>3
<1>6. ASSUME NEW c \in Clients, NEW m \in msgs, ReceiveReply(c, m) PROVE CompletedIsExecuted'
  <2> DEFINE got == received[c] \cup {m.from}
  <2>1. /\ m.type = "reply" /\ m.client = c /\ m.num = pending[c] /\ pending[c] # 0
        /\ UNCHANGED last_req
        /\ \/ UNCHANGED pending
           \/ Cardinality(got) >= f + 1 /\ pending' = [pending EXCEPT ![c] = 0]
    BY <1>6, ReplyCases
  <2>2. m.from \in Replicas
    BY <2>1, MessageFields DEF TypeOK
  <2>3. got \in SUBSET Executors(c, pending[c])
    BY <2>1, <2>2 DEF RepliesInv, TypeOK, Executors
  <2> HIDE DEF got
  <2>4. CASE Cardinality(got) >= f + 1 /\ pending' = [pending EXCEPT ![c] = 0]
    <3>1. ASSUME NEW n, n = pending[c] PROVE Cardinality(Executors(c, n)') >= f + 1
      BY <1>1, <2>3, <2>4, <3>1
    <3>2. \A d \in Clients : \A n \in 1 .. last_req'[d] : n # pending'[d] =>
            Cardinality(Executors(d, n)') >= f + 1
      <4> SUFFICES ASSUME NEW d \in Clients, NEW n \in 1 .. last_req[d], n # pending'[d]
                   PROVE  Cardinality(Executors(d, n)') >= f + 1
        BY <2>1
      <4>1. CASE n # pending[d]
        BY <1>2, <4>1
      <4>2. CASE d = c /\ n = pending[c]
        BY <3>1, <4>2
      <4> QED BY <2>4, <4>1, <4>2 DEF TypeOK
    <3> QED BY <1>3, <3>2
  <2> QED BY <1>4, <2>1, <2>4
<1>7. CASE UNCHANGED vars \/ CloseBatchTimeout
  BY <1>4, <1>7 DEF vars, CloseBatchTimeout, clientVars
<1>8. CASE \E m \in msgs : HandleVote(m)
  BY <1>4, <1>8, VoteCases DEF clientVars
<1>9. CASE \E r \in Replicas, m \in msgs : HandleRequest(r, m) \/ HandleGeneric(r, m)
  BY <1>4, <1>9, GenericCases, FinishCases DEF HandleRequest, Stop, clientVars
<1>10. CASE \E r \in Replicas : ResendVote(r)
  BY <1>4, <1>10 DEF ResendVote, clientVars
<1> QED BY <1>5, <1>6, <1>7, <1>8, <1>9, <1>10 DEF Next

-----------------------------------------------------------------------------
(***************************************************************************)
(* The theorems.                                                           *)
(***************************************************************************)

\* IInv holds in every reachable state: the primary's log orders everything,
\* and votes, QCs, executions and replies stand for what backups hold of it.
THEOREM Inductive == Spec => []IInv
<1>1. Init => IInv
  BY InitType, InitBlocks, InitVotes, InitTable, InitReplies DEF IInv
<1>2. IInv /\ [Next]_vars => IInv'
  <2> SUFFICES ASSUME IInv, [Next]_vars PROVE IInv'
    OBVIOUS
  <2>1. /\ TypeOK /\ BlocksFromLog /\ QCsInOrder /\ VotesAreHeld
        /\ ExecutedInv /\ TableInv /\ RepliesInv /\ CompletedIsExecuted
    BY DEF IInv
  <2>2. TypeOK'
    BY <2>1, NextType
  <2>3. Grows
    BY <2>1, NextGrows
  <2> QED BY <2>1, <2>2, <2>3, NextBlocks, NextOrder, NextVotes, NextExecuted, NextTable,
             NextReplies, NextCompleted DEF IInv
<1> QED BY <1>1, <1>2, PTL DEF Spec

\* The primary's log orders the blocks, so no log or buffer has another entry:
\* HandleGeneric appends or buffers a block only where it belongs.
THEOREM AgreementHolds == Spec => []Agreement
<1>1. IInv => Agreement
  <2> SUFFICES ASSUME IInv PROVE Agreement
    OBVIOUS
  <2> DEFINE P == log[Primary]
  <2>1. /\ P \in Seq(Entry) /\ Len(P) \in Nat /\ pending_op \in Nat /\ pending_op <= Len(P)
        /\ DOMAIN P = 1 .. Len(P)
    BY Group DEF IInv, TypeOK, BlocksFromLog, Opnum
  <2>2. ASSUME NEW r \in Replicas
        PROVE  \A op \in DOMAIN log[r] : op \in DOMAIN P /\ log[r][op] = P[op]
    <3>1. log[r] \in Seq(Entry) /\ DOMAIN log[r] = 1 .. Len(log[r]) /\ Len(log[r]) \in Nat
      BY DEF IInv, TypeOK
    <3>2. CASE r # Primary
      <4>1. /\ Len(log[r]) < pending_op
            /\ \A i \in 1 .. Len(log[r]) : log[r][i] = P[i]
        BY <3>2 DEF IInv, BlocksFromLog, Backups
      <4> HIDE DEF P
      <4> QED BY <2>1, <3>1, <4>1
    <3> QED BY <3>2
  <2>3. ASSUME NEW r \in Replicas, NEW op \in DOMAIN block_buffer[r],
               NEW i \in DOMAIN block_buffer[r][op]
        PROVE  block_buffer[r][op][i] = P[(op + i) - 1]
    <3>1. r \in Backups /\ block_buffer[r][op] \in Seq(Entry)
      BY DEF IInv, TypeOK, BlocksFromLog, Backups
    <3>2. Piece(op, block_buffer[r][op])
      BY <3>1 DEF IInv, BlocksFromLog
    <3>3. DOMAIN block_buffer[r][op] = 1 .. Len(block_buffer[r][op])
      BY <3>1
    <3> QED BY <3>2, <3>3 DEF Piece, PieceOf
  <2> QED BY <2>2, <2>3 DEF Agreement
<1> QED BY <1>1, Inductive, PTL

\* A replica executes everything from its first executed entry to its locked QC:
\* EnterNextView goes on where it stopped, whatever blocks the QCs skip.
THEOREM ExecutesInOrderHolds == Spec => []ExecutesInOrder
<1>1. IInv => ExecutesInOrder
  <2> SUFFICES ASSUME IInv, NEW r \in Replicas, executed[r] # {}
               PROVE  \E first \in executed[r] :
                        executed[r] = {op \in first .. locked_qc[r] - 1 : log[r][op] # Noop}
    BY DEF ExecutesInOrder
  <2>1. PICK a \in 1 .. locked_qc[r] : ExecutedFrom(r, a)
    BY DEF IInv, ExecutedInv, ExecutedUpTo
  <2>2. executed[r] = {op \in a .. locked_qc[r] - 1 : log[r][op] # Noop}
    BY <2>1 DEF ExecutedFrom
  <2>3. executed[r] \in SUBSET Nat /\ locked_qc[r] \in Int /\ a \in Nat
    BY <2>1 DEF IInv, TypeOK, Opnum
  <2>4. PICK first \in executed[r] : \A op \in executed[r] : first <= op
    BY <2>3, FirstOfOps
  <2>5. executed[r] = {op \in first .. locked_qc[r] - 1 : log[r][op] # Noop}
    BY <2>2, <2>3, <2>4
  <2> QED BY <2>5
<1> QED BY <1>1, Inductive, PTL

\* 2f backups hold the block of every QC: HandleVote counts no vote that
\* ResendVote sends for a block the backup may not have.
THEOREM QCIsHeldHolds == Spec => []QCIsHeld
<1>1. IInv => QCIsHeld
  BY DEF IInv, VotesAreHeld, QCIsHeld, Holders, Holds
<1> QED BY <1>1, Inductive, PTL

\* No request is in a log twice: the primary's table drops a retransmission.
THEOREM AtMostOnceHolds == Spec => []AtMostOnce
<1>1. IInv => AtMostOnce
  <2> SUFFICES ASSUME IInv, NEW r \in Replicas, NEW i \in DOMAIN log[r], NEW j \in DOMAIN log[r],
                      i # j, log[r][i] = log[r][j]
               PROVE  log[r][i] = Noop
    BY DEF AtMostOnce
  <2> DEFINE P == log[Primary]
  <2>1. /\ log[r] \in Seq(Entry) /\ DOMAIN log[r] = 1 .. Len(log[r]) /\ Len(log[r]) \in Nat
        /\ Len(P) \in Nat /\ pending_op \in Nat /\ pending_op <= Len(P)
    BY Group DEF IInv, TypeOK, BlocksFromLog, Opnum
  <2>2. i \in 1 .. Len(P) /\ j \in 1 .. Len(P) /\ log[r][i] = P[i] /\ log[r][j] = P[j]
    <3>1. CASE r = Primary
      BY <2>1, <3>1
    <3>2. CASE r # Primary
      <4>1. /\ Len(log[r]) < pending_op
            /\ \A k \in 1 .. Len(log[r]) : log[r][k] = P[k]
        BY <3>2 DEF IInv, BlocksFromLog, Backups
      <4> HIDE DEF P
      <4> QED BY <2>1, <4>1
    <3> QED BY <3>1, <3>2
  <2> QED BY <2>2 DEF IInv, TableInv, TableOf
<1> QED BY <1>1, Inductive, PTL

\* Every request whose continuation the client has called was executed by f+1
\* replicas: each of the replies it counted came from an execution.
THEOREM CompletedIsExecutedHolds == Spec => []CompletedIsExecuted
<1>1. IInv => CompletedIsExecuted
  BY DEF IInv
<1> QED BY <1>1, Inductive, PTL

-----------------------------------------------------------------------------
(***************************************************************************)
(* HotStuff implements ReplicatedLog: what its steps do to the log of the  *)
(* primary, to what is executed and to the clients.                        *)
(***************************************************************************)

\* A request in the network, its client has invoked.
RequestsInvoked ==
  \A m \in msgs : m.type = "request" => m.num \in 1 .. last_req[m.client]

\* A step that invokes nothing and sends no request.
LEMMA InvokedFrame ==
  ASSUME RequestsInvoked, UNCHANGED last_req,
         \A m \in msgs' \ msgs : m.type # "request"
  PROVE  RequestsInvoked'
BY DEF RequestsInvoked

\* After every step all requests are ones that a client invoked.
LEMMA NextInvoked ==
  ASSUME TypeOK, BlocksFromLog, QCsInOrder, RequestsInvoked, [Next]_vars
  PROVE  RequestsInvoked'
<1>1. CASE UNCHANGED vars
  BY <1>1, InvokedFrame DEF vars, clientVars
<1>2. CASE CloseBatchTimeout \/ \E r \in Replicas, m \in msgs : HandleRequest(r, m)
  <2>1. UNCHANGED last_req
    BY <1>2, PrimaryCases DEF clientVars
  <2>2. CASE UNCHANGED msgs
    BY <2>1, <2>2, InvokedFrame
  <2>3. ASSUME NEW lg \in Seq(Entry), CloseBatch(lg) PROVE RequestsInvoked'
    <3>1. \A m \in msgs' \ msgs : m.type = "generic"
      BY <2>3 DEF CloseBatch, GenericMsg
    <3> QED BY <2>1, <3>1, InvokedFrame
  <2> QED BY <1>2, <2>2, <2>3, PrimaryCases
<1>3. ASSUME NEW c \in Clients, Invoke(c) PROVE RequestsInvoked'
  <2>1. /\ last_req[c] \in Nat /\ last_req'[c] = last_req[c] + 1
        /\ \A d \in Clients : d # c => last_req'[d] = last_req[d]
        /\ msgs' = msgs \cup {RequestMsg(c, last_req[c] + 1)}
    BY <1>3 DEF Invoke, TypeOK
  <2>2. \A m \in msgs : m.type = "request" => m.client \in Clients /\ m.num \in 1 .. last_req[m.client]
    BY MessageFields DEF TypeOK, RequestsInvoked
  <2> QED BY <2>1, <2>2 DEF RequestsInvoked, RequestMsg, TypeOK
<1>4. ASSUME NEW c \in Clients, NEW m \in msgs, ReceiveReply(c, m) PROVE RequestsInvoked'
  BY <1>4, ReplyCases, InvokedFrame
<1>5. ASSUME NEW m \in msgs, HandleVote(m) PROVE RequestsInvoked'
  <2>1. UNCHANGED last_req /\ \A x \in msgs' \ msgs : x \in Replies(Primary, log[Primary])
    BY <1>5, VoteCases DEF clientVars
  <2>2. \A x \in Replies(Primary, log[Primary]) : x.type = "reply"
    BY DEF Replies, ReplyMsg
  <2> QED BY <2>1, <2>2, InvokedFrame
<1>6. ASSUME NEW r \in Replicas, NEW m \in msgs, HandleGeneric(r, m) PROVE RequestsInvoked'
  <2>1. CASE Stop(r)
    BY <2>1, InvokedFrame DEF Stop, clientVars
  <2>2. ASSUME NEW lg, NEW b, FinishGeneric(r, m, lg, b), ~Stop(r) PROVE RequestsInvoked'
    <3>1. UNCHANGED last_req /\ \A x \in msgs' \ msgs : x \in Replies(r, lg) \/ x = VoteMsg(r, m.op)
      BY <2>2, FinishCases DEF clientVars
    <3>2. \A x : x \in Replies(r, lg) \/ x = VoteMsg(r, m.op) => x.type # "request"
      BY DEF Replies, ReplyMsg, VoteMsg
    <3> QED BY <3>1, <3>2, InvokedFrame
  <2> QED BY <1>6, <2>1, <2>2, GenericCases
<1>7. ASSUME NEW r \in Replicas, ResendVote(r) PROVE RequestsInvoked'
  BY <1>7, InvokedFrame DEF ResendVote, VoteMsg, clientVars
<1> QED BY <1>1, <1>2, <1>3, <1>4, <1>5, <1>6, <1>7 DEF Next

\* The operator that ReplicatedLog counts with.
LEMMA SameCardinality == ASSUME NEW S PROVE Replicated!Cardinality(S) = Cardinality(S)
BY DEF Replicated!Cardinality, Cardinality

\* A step that executes nothing keeps what is executed.
LEMMA ExecutedLogFrame ==
  ASSUME TypeOK, ExecutedInv, Grows, UNCHANGED executed
  PROVE  ExecutedLog' = ExecutedLog
<1>1. \A r \in Replicas : \A op \in executed[r] : log'[r][op] = log[r][op]
  BY ExecutedInLog DEF Grows
<1> QED BY <1>1 DEF ExecutedLog

\* HandleRequest and the batch timer append to the primary's log what a client has
\* invoked, or a NOOP.
LEMMA PrimaryOrders ==
  ASSUME TypeOK, BlocksFromLog, QCsInOrder, RequestsInvoked,
         CloseBatchTimeout \/ \E r \in Replicas, m \in msgs : HandleRequest(r, m)
  PROVE  \/ log'[Primary] = log[Primary]
         \/ \E e : /\ e = Noop \/ \E c \in Clients : \E n \in 1 .. last_req[c] : e = Req(c, n)
                   /\ \/ log'[Primary] = Append(log[Primary], e)
                      \/ log'[Primary] = Append(Append(log[Primary], e), Noop)
<1>0. Primary \in Replicas
  BY Group
<1>1. CASE CloseBatchTimeout
  BY <1>0, <1>1 DEF CloseBatchTimeout, CloseBatch, TypeOK
<1>2. ASSUME NEW r \in Replicas, NEW m \in msgs, HandleRequest(r, m)
      PROVE  \/ log'[Primary] = log[Primary]
             \/ \E e : /\ \E c \in Clients : \E n \in 1 .. last_req[c] : e = Req(c, n)
                       /\ \/ log'[Primary] = Append(log[Primary], e)
                          \/ log'[Primary] = Append(Append(log[Primary], e), Noop)
  <2> DEFINE e == [client |-> m.client, num |-> m.num]
             lg == Append(log[r], e)
  <2>1. m.client \in Clients /\ m.num \in 1 .. last_req[m.client] /\ e = Req(m.client, m.num)
    BY <1>2, MessageFields DEF HandleRequest, TypeOK, RequestsInvoked, Req
  <2> HIDE DEF lg
  <2>2. \/ log' = log
        \/ r = Primary /\ log' = [log EXCEPT ![Primary] = lg]
        \/ r = Primary /\ log' = [log EXCEPT ![Primary] = Append(lg, Noop)]
    BY <1>2 DEF HandleRequest, CloseBatch, lg
  <2>3. \/ log'[Primary] = log[Primary]
        \/ r = Primary /\ log'[Primary] = lg
        \/ r = Primary /\ log'[Primary] = Append(lg, Noop)
    BY <1>0, <2>2 DEF TypeOK
  <2> HIDE DEF e
  <2> QED BY <2>1, <2>3 DEF lg
<1> QED BY <1>1, <1>2

\* HandleRequest and the batch timer are steps of the replicated log, or none.
LEMMA PrimaryRefines ==
  ASSUME TypeOK, BlocksFromLog, QCsInOrder, ExecutedInv, RequestsInvoked, [Next]_vars,
         CloseBatchTimeout \/ \E r \in Replicas, m \in msgs : HandleRequest(r, m)
  PROVE  [Replicated!Next]_Replicated!vars
<1> DEFINE P == log[Primary]
           Q == log'[Primary]
<1>1. UNCHANGED <<executed, pending, last_req>> /\ P \in Seq(Entry)
  BY PrimaryCases, Group DEF qcVars, clientVars, TypeOK
<1>2. ExecutedLog' = ExecutedLog
  BY <1>1, ExecutedLogFrame, NextGrows
<1>3. CASE Q = P
  BY <1>1, <1>2, <1>3 DEF Replicated!vars
<1>4. ASSUME NEW e, e = Noop \/ \E c \in Clients : \E n \in 1 .. last_req[c] : e = Req(c, n),
             Q = Append(P, e) \/ Q = Append(Append(P, e), Noop)
      PROVE  [Replicated!Next]_Replicated!vars
  <2>1. e \in Entry
    <3>1. \A c \in Clients : \A n \in 1 .. last_req[c] : Req(c, n) \in Request
      BY DEF Req, Request, Opnum, TypeOK
    <3> QED BY <1>4, <3>1, Group DEF Entry
  <2> HIDE DEF P, Q
  <2>2. Append(P, e) \in Seq(Entry) /\ Noop \in Entry
    BY <1>1, <2>1, AppendKeeps, Group
  <2>3. /\ Len(P) \in Nat /\ Len(P) < Len(Q)
        /\ \A i \in 1 .. Len(P) : Q[i] = P[i]
        /\ \A i \in Len(P) + 1 .. Len(Q) : Q[i] \in {e, Noop}
    <3>1. Len(P) \in Nat /\ Len(Append(P, e)) = Len(P) + 1
      BY <1>1, <2>1, AppendKeeps
    <3>2. \A i \in 1 .. Len(P) : Append(P, e)[i] = P[i] /\ Append(Append(P, e), Noop)[i] = P[i]
      BY <1>1, <2>1, <2>2, <3>1, AppendKeeps
    <3>3. Append(P, e)[Len(P) + 1] = e /\ Append(Append(P, e), Noop)[Len(P) + 1] = e
      BY <1>1, <2>1, <2>2, <3>1, AppendKeeps
    <3>4. /\ Len(Append(Append(P, e), Noop)) = Len(P) + 2
          /\ Append(Append(P, e), Noop)[Len(P) + 2] = Noop
      BY <2>2, <3>1, AppendKeeps
    <3>5. CASE Q = Append(P, e)
      BY <3>1, <3>2, <3>3, <3>5
    <3>6. CASE Q = Append(Append(P, e), Noop)
      <4>1. \A i \in Len(P) + 1 .. Len(P) + 2 : i = Len(P) + 1 \/ i = Len(P) + 2
        BY <3>1
      <4> QED BY <3>1, <3>2, <3>3, <3>4, <3>6, <4>1
    <3> QED BY <1>4, <3>5, <3>6
  <2>4. \A i \in Len(P) + 1 .. Len(Q) :
          Q[i] \in {Noop} \/ \E c \in Clients : \E n \in 1 .. last_req[c] : Q[i] = Req(c, n)
    BY <1>4, <2>3
  <2>5. \A c, n : Req(c, n) = Replicated!Request(c, n)
    BY DEF Req, Replicated!Request
  <2>6. Replicated!Order
    BY <1>1, <1>2, <2>3, <2>4, <2>5 DEF Replicated!Order, P, Q
  <2> QED BY <2>6 DEF Replicated!Next
<1> QED BY <1>3, <1>4, PrimaryOrders

\* A replica's log is a beginning of the primary's.
LEMMA LogIsPrefix ==
  ASSUME TypeOK, BlocksFromLog, NEW r \in Replicas
  PROVE  /\ Len(log[r]) \in Nat /\ Len(log[Primary]) \in Nat
         /\ Len(log[r]) <= Len(log[Primary])
         /\ \A i \in 1 .. Len(log[r]) : log[r][i] = log[Primary][i]
<1>1. /\ Len(log[r]) \in Nat /\ Len(log[Primary]) \in Nat /\ pending_op \in Nat
  BY Group DEF TypeOK, Opnum
<1>2. CASE r = Primary
  BY <1>1, <1>2
<1>3. CASE r # Primary
  BY <1>1, <1>3 DEF BlocksFromLog, Backups
<1> QED BY <1>2, <1>3

\* What r has executed leaves nothing out but NOOPs.
WithoutGap ==
  \A r \in Replicas :
    /\ executed[r] \subseteq 1 .. Len(log[Primary])
    /\ \A op \in executed[r] : log[r][op] = log[Primary][op]
    /\ Replicated!NoGap(executed[r])

\* A replica executes the op numbers one after the other.
LEMMA ExecutesWithoutGap == TypeOK /\ BlocksFromLog /\ ExecutedInv => WithoutGap
<1> SUFFICES ASSUME TypeOK, BlocksFromLog, ExecutedInv, NEW r \in Replicas
             PROVE  /\ executed[r] \subseteq 1 .. Len(log[Primary])
                    /\ \A op \in executed[r] : log[r][op] = log[Primary][op]
                    /\ Replicated!NoGap(executed[r])
  BY DEF WithoutGap
<1>1. executed[r] \subseteq 1 .. Len(log[r])
  BY ExecutedInLog
<1>2. /\ executed[r] \subseteq 1 .. Len(log[Primary])
      /\ \A op \in executed[r] : log[r][op] = log[Primary][op]
  BY <1>1, LogIsPrefix
<1>3. ASSUME NEW a \in 1 .. locked_qc[r], ExecutedFrom(r, a)
      PROVE  Replicated!NoGap(executed[r])
  <2>1. /\ a .. locked_qc[r] - 1 \subseteq 1 .. Len(log[r])
        /\ executed[r] = {op \in a .. locked_qc[r] - 1 : log[r][op] # Noop}
    BY <1>3 DEF ExecutedFrom
  <2> SUFFICES ASSUME NEW j \in executed[r], NEW i \in 1 .. j, NEW k \in executed[r], k <= i
               PROVE  i \in executed[r] \/ log[Primary][i] \in {Noop}
    BY DEF Replicated!NoGap
  <2>2. a \in Int /\ locked_qc[r] \in Int
    BY DEF TypeOK
  <2>3. i \in a .. locked_qc[r] - 1
    BY <2>1, <2>2
  <2>4. log[r][i] = log[Primary][i]
    BY <2>1, <2>3, LogIsPrefix
  <2> QED BY <2>1, <2>3, <2>4
<1>4. CASE executed[r] = {}
  BY <1>4 DEF Replicated!NoGap
<1> QED BY <1>2, <1>3, <1>4 DEF ExecutedInv, ExecutedUpTo

\* A replica that enters a view executes what comes next.
LEMMA EnterRefines ==
  ASSUME TypeOK, TypeOK', BlocksFromLog, BlocksFromLog', QCsInOrder, ExecutedInv, ExecutedInv',
         Grows, NEW r \in Replicas, NEW lg, NEW q, EnterNextView(r, lg, q),
         UNCHANGED clientVars, log'[Primary] = log[Primary]
  PROVE  [Replicated!Next]_Replicated!vars
<1> DEFINE E == executed[r]
           F == executed'[r]
<1>1. /\ F = E \cup {op \in ToExecute(r) : lg[op] # Noop}
      /\ \A s \in Replicas : s # r => executed'[s] = executed[s]
  BY DEF EnterNextView, TypeOK
<1>2. \A s \in Replicas : /\ ExecutedLog[s] = [op \in executed[s] |-> log[s][op]]
                          /\ ExecutedLog'[s] = [op \in executed'[s] |-> log'[s][op]]
  BY DEF ExecutedLog
<1>3. \A s \in Replicas : s # r => ExecutedLog'[s] = ExecutedLog[s]
  <2> SUFFICES ASSUME NEW s \in Replicas, s # r PROVE ExecutedLog'[s] = ExecutedLog[s]
    OBVIOUS
  <2>1. executed'[s] = executed[s] /\ \A op \in executed[s] : log'[s][op] = log[s][op]
    BY <1>1, ExecutedInLog DEF Grows
  <2>2. [op \in executed'[s] |-> log'[s][op]] = [op \in executed[s] |-> log[s][op]]
    BY <2>1
  <2>3. /\ ExecutedLog[s] = [op \in executed[s] |-> log[s][op]]
        /\ ExecutedLog'[s] = [op \in executed'[s] |-> log'[s][op]]
    BY <1>2
  <2> QED BY ONLY <2>2, <2>3
<1>4. /\ F \subseteq 1 .. Len(log[Primary])
      /\ \A op \in F : log'[r][op] = log[Primary][op]
      /\ Replicated!NoGap(F)
  <2>1. /\ F \subseteq 1 .. Len(log'[Primary])
        /\ \A op \in F : log'[r][op] = log'[Primary][op]
        /\ Replicated!NoGap(executed[r])'
    <3>1. WithoutGap'
      BY ExecutesWithoutGap, PTL
    <3> QED BY <3>1 DEF WithoutGap
  <2> QED BY <2>1 DEF Replicated!NoGap
<1>5. ExecutedLog'[r] = [op \in F |-> log[Primary][op]]
  BY <1>2, <1>4
<1>6. DOMAIN ExecutedLog[r] = E /\ DOMAIN ExecutedLog'[r] = F
  BY <1>2
<1>7. \A i \in E, j \in F \ E : i < j
  <2> SUFFICES ASSUME NEW i \in E, NEW j \in F \ E PROVE i < j
    OBVIOUS
  <2>1. j \in ToExecute(r) /\ locked_qc[r] \in Int
    BY <1>1 DEF TypeOK
  <2>2. j \in Int /\ locked_qc[r] <= j
    BY <2>1 DEF ToExecute, TypeOK
  <2>3. i \in Int /\ i <= locked_qc[r] - 1
    <3>1. ASSUME NEW a \in 1 .. locked_qc[r], ExecutedFrom(r, a)
          PROVE  i \in Int /\ i <= locked_qc[r] - 1
      BY <2>1, <3>1 DEF ExecutedFrom
    <3> QED BY <3>1 DEF ExecutedInv, ExecutedUpTo
  <2> QED BY <2>1, <2>2, <2>3
<1>8. UNCHANGED <<pending, last_req>>
  BY DEF clientVars
<1>9. CASE F = E
  <2>1. ExecutedLog'[r] = ExecutedLog[r]
    <3>1. \A op \in E : log'[r][op] = log[r][op]
      BY ExecutedInLog DEF Grows
    <3>2. [op \in executed'[r] |-> log'[r][op]] = [op \in executed[r] |-> log[r][op]]
      BY <1>9, <3>1
    <3>3. /\ ExecutedLog[r] = [op \in executed[r] |-> log[r][op]]
          /\ ExecutedLog'[r] = [op \in executed'[r] |-> log'[r][op]]
      BY <1>2
    <3> QED BY ONLY <3>2, <3>3
  <2>2. ExecutedLog' = ExecutedLog
    <3>1. \A s \in Replicas : ExecutedLog'[s] = ExecutedLog[s]
      BY <1>3, <2>1
    <3>2. /\ ExecutedLog = [s \in Replicas |-> ExecutedLog[s]]
          /\ ExecutedLog' = [s \in Replicas |-> ExecutedLog'[s]]
      BY DEF ExecutedLog
    <3> QED BY <3>1, <3>2
  <2> QED BY <1>8, <2>2 DEF Replicated!vars
<1>10. CASE F # E
  <2>1. F \ E # {} /\ E \subseteq F
    BY <1>1, <1>10
  <2> DEFINE new == [op \in F |-> log[Primary][op]]
  <2>2. ExecutedLog' = [ExecutedLog EXCEPT ![r] = new]
    <3>1. /\ ExecutedLog = [s \in Replicas |-> ExecutedLog[s]]
          /\ ExecutedLog' = [s \in Replicas |-> ExecutedLog'[s]]
      BY DEF ExecutedLog
    <3> HIDE DEF new
    <3> QED BY <1>3, <1>5, <3>1, ExceptIs DEF new
  <2>3. Replicated!Execute(r)
    BY <1>4, <1>6, <1>7, <1>8, <2>1, <2>2 DEF Replicated!Execute
  <2> QED BY <2>3 DEF Replicated!Next
<1> QED BY <1>9, <1>10

\* A client's step invokes a request, completes one, or changes neither.
LEMMA ClientRefines ==
  ASSUME TypeOK, RepliesInv, NEW c \in Clients, Invoke(c) \/ \E m \in msgs : ReceiveReply(c, m)
  PROVE  [Replicated!Next]_Replicated!vars
<1>1. UNCHANGED <<log, executed>>
  BY DEF Invoke, ReceiveReply, qcVars
<1>2. ExecutedLog' = ExecutedLog
  BY <1>1 DEF ExecutedLog
<1>3. CASE Invoke(c)
  <2>1. /\ pending[c] = 0 /\ last_req' = [last_req EXCEPT ![c] = @ + 1]
        /\ pending' = [pending EXCEPT ![c] = last_req[c] + 1]
        /\ last_req'[c] = last_req[c] + 1
    BY <1>3 DEF Invoke, TypeOK
  <2>2. Replicated!Invoke(c)
    BY <1>1, <1>2, <2>1 DEF Replicated!Invoke
  <2> QED BY <2>2 DEF Replicated!Next
<1>4. ASSUME NEW m \in msgs, ReceiveReply(c, m)
      PROVE  [Replicated!Next]_Replicated!vars
  <2> DEFINE got == received[c] \cup {m.from}
             n   == pending[c]
             S   == {r \in Replicas : \E op \in DOMAIN ExecutedLog[r] :
                       ExecutedLog[r][op] = Replicated!Request(c, n)}
  <2>1. /\ m.type = "reply" /\ m.client = c /\ m.num = n /\ n # 0 /\ UNCHANGED last_req
        /\ \/ UNCHANGED pending
           \/ Cardinality(got) >= f + 1 /\ pending' = [pending EXCEPT ![c] = 0]
    BY <1>4, ReplyCases
  <2>2. got \in SUBSET Replicas /\ \A r \in got : Req(c, n) \in Done(r)
    <3>1. m.from \in Replicas /\ Req(c, n) \in Done(m.from)
      BY <2>1, MessageFields DEF TypeOK, RepliesInv
    <3> QED BY <3>1 DEF TypeOK, RepliesInv
  <2>3. got \in SUBSET S
    <3> SUFFICES ASSUME NEW r \in got PROVE r \in S
      OBVIOUS
    <3>1. r \in Replicas /\ Req(c, n) \in Done(r)
      BY <2>2
    <3>2. PICK op \in executed[r] : log[r][op] = Req(c, n)
      BY <3>1 DEF Done
    <3>3. op \in DOMAIN ExecutedLog[r] /\ ExecutedLog[r][op] = log[r][op]
      BY <3>1, <3>2 DEF ExecutedLog
    <3>4. Req(c, n) = Replicated!Request(c, n)
      BY DEF Req, Replicated!Request
    <3> QED BY <3>1, <3>2, <3>3, <3>4
  <2> HIDE DEF got, S
  <2>4. CASE UNCHANGED pending
    BY <1>1, <1>2, <2>1, <2>4 DEF Replicated!vars
  <2>5. CASE Cardinality(got) >= f + 1 /\ pending' = [pending EXCEPT ![c] = 0]
    <3>1. S \in SUBSET Replicas /\ f + 1 \in Nat
      BY Group DEF S
    <3>2. Cardinality(S) >= f + 1
      BY <2>3, <2>5, <3>1, MoreIsEnough, Group
    <3>3. Replicated!Answer(c)
      BY <1>1, <1>2, <2>1, <2>5, <3>2, SameCardinality DEF Replicated!Answer, S
    <3> QED BY <3>3 DEF Replicated!Next
  <2> QED BY <2>1, <2>4, <2>5
<1> QED BY <1>3, <1>4

\* Every step of HotStuff is a step of ReplicatedLog, or changes nothing it speaks of.
LEMMA NextRefines ==
  ASSUME IInv, IInv', RequestsInvoked, [Next]_vars
  PROVE  [Replicated!Next]_Replicated!vars
<1>0. /\ TypeOK /\ BlocksFromLog /\ QCsInOrder /\ ExecutedInv /\ RepliesInv
      /\ TypeOK' /\ BlocksFromLog' /\ ExecutedInv'
      /\ Primary \in Replicas
  BY Group DEF IInv
<1>1. Grows
  BY <1>0, NextGrows
<1>2. ASSUME UNCHANGED <<executed, pending, last_req>>, log'[Primary] = log[Primary]
      PROVE  [Replicated!Next]_Replicated!vars
  BY <1>0, <1>1, <1>2, ExecutedLogFrame DEF Replicated!vars
<1>3. CASE UNCHANGED vars
  BY <1>2, <1>3 DEF vars, qcVars, clientVars
<1>4. ASSUME NEW m \in msgs, HandleVote(m) PROVE [Replicated!Next]_Replicated!vars
  <2>1. /\ UNCHANGED <<log, clientVars>>
        /\ UNCHANGED qcVars \/ EnterNextView(Primary, log[Primary], m.op)
    BY <1>0, <1>4, VoteCases
  <2>2. CASE UNCHANGED qcVars
    BY <1>2, <2>1, <2>2 DEF qcVars, clientVars
  <2>3. CASE EnterNextView(Primary, log[Primary], m.op)
    <3>1. UNCHANGED clientVars /\ log'[Primary] = log[Primary]
      BY <2>1
    <3> QED BY <1>0, <1>1, <2>3, <3>1, EnterRefines
  <2> QED BY <2>1, <2>2, <2>3
<1>5. ASSUME NEW r \in Replicas, NEW m \in msgs, HandleGeneric(r, m)
      PROVE  [Replicated!Next]_Replicated!vars
  <2>1. r \in Backups
    BY <1>0, <1>5, GenericCases
  <2>2. CASE Stop(r)
    BY <1>2, <2>2 DEF Stop, qcVars, clientVars
  <2>3. ASSUME NEW lg, NEW b, FinishGeneric(r, m, lg, b), ~Stop(r)
        PROVE  [Replicated!Next]_Replicated!vars
    <3>1. /\ log' = [log EXCEPT ![r] = lg] /\ UNCHANGED clientVars
          /\ UNCHANGED qcVars \/ EnterNextView(r, lg, m.justify)
      BY <2>3, FinishCases
    <3>2. log'[Primary] = log[Primary]
      BY <1>0, <2>1, <3>1 DEF Backups, TypeOK
    <3>3. CASE UNCHANGED qcVars
      BY <1>2, <3>1, <3>2, <3>3 DEF qcVars, clientVars
    <3>4. CASE EnterNextView(r, lg, m.justify)
      BY <1>0, <1>1, <3>1, <3>2, <3>4, EnterRefines
    <3> QED BY <3>1, <3>3, <3>4
  <2> QED BY <1>0, <1>5, <2>2, <2>3, GenericCases
<1>6. CASE \E r \in Replicas : ResendVote(r)
  BY <1>2, <1>6 DEF ResendVote, qcVars, clientVars
<1> QED BY <1>0, <1>3, <1>4, <1>5, <1>6, ClientRefines, PrimaryRefines DEF Next

\* Chained HotStuff, under its fixed primary, is a log that all replicas execute in
\* one order, whose answers f+1 replicas stand for.
THEOREM ReplicatesLogHolds == Spec => ReplicatesLog
<1>1. Init => RequestsInvoked /\ Replicated!Init
  <2> SUFFICES ASSUME Init PROVE RequestsInvoked /\ Replicated!Init
    OBVIOUS
  <2>1. RequestsInvoked
    BY DEF Init, RequestsInvoked, VoteMsg
  <2>2. log[Primary] = <<Noop>> /\ <<Noop>> \in Seq({Noop})
    BY Group DEF Init
  <2>3. ExecutedLog = [r \in Replicas |-> <<>>]
    <3>1. \A r \in Replicas : [op \in executed[r] |-> log[r][op]] = <<>>
      BY DEF Init
    <3> QED BY <3>1 DEF ExecutedLog
  <2> QED BY <2>1, <2>2, <2>3 DEF Init, Replicated!Init
<1>2. IInv /\ RequestsInvoked /\ [Next]_vars => RequestsInvoked'
  BY NextInvoked DEF IInv
<1>3. IInv /\ IInv' /\ RequestsInvoked /\ [Next]_vars => [Replicated!Next]_Replicated!vars
  BY NextRefines
<1> QED BY <1>1, <1>2, <1>3, Inductive, PTL DEF Spec, ReplicatesLog, Replicated!Spec
=============================================================================
