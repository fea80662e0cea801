------------------------------ MODULE VRProofs ------------------------------
(***************************************************************************)
(* Proofs about VR, for every group of 2F+1 replicas, every batch size and *)
(* every bound.                                                            *)
(*                                                                         *)
(* In all views: the fields keep their types (TypeCorrect) and a replica   *)
(* never goes back (OnlyForwardHolds), through normal operation, state     *)
(* transfer, view change and recovery.  A handler is a chain of operations *)
(* on a record; Keeps says what all of them leave alone, Forward what the  *)
(* chain as a whole may change, and the loops of the code are unfolded     *)
(* round by round (the lemmas named Rounds).                               *)
(*                                                                         *)
(* In the first view, as long as no replica has left it or restarted: the  *)
(* leader's log is the one order.  FirstViewInv says that every log,       *)
(* message and execution is a piece of it, and which backups stand behind  *)
(* what the leader has counted.  Beyond the first view these properties    *)
(* are not true of the code (run vr_transfer_fork).                        *)
(***************************************************************************)
EXTENDS VR, ProofFacts

\* The types of the protobuf messages and of the replica's fields.
Request == [client : Clients, id : Nat]
Entry   == [view : Nat, req : Request]
DumpOf  == [first : Nat \ {0}, entries : Seq(Entry)]
Ids     == SUBSET ReplicaIds

RequestMsgs  == [type : {"request"}, to : Ids, req : Request]
ReplyMsgs    == [type : {"reply"}, to : Ids, req : Request, op : Nat]
PrepareMsgs  == [type : {"prepare"}, to : Ids, view : Nat, op : Nat, batchStart : Nat,
                 reqs : Seq(Request)]
PrepareOKMsgs == [type : {"prepareOK"}, to : Ids, from : ReplicaIds, view : Nat, op : Nat]
CommitMsgs   == [type : {"commit"}, to : Ids, view : Nat, op : Nat]
TransferRequests == [type : {"requestStateTransfer"}, to : Ids, from : ReplicaIds,
                     view : Nat, op : Nat]
Transfers    == [type : {"stateTransfer"}, to : Ids, view : Nat, op : Nat, dump : DumpOf]
StartViewChanges == [type : {"startViewChange"}, to : Ids, from : ReplicaIds, view : Nat,
                     lastCommitted : Nat]
DoViewChanges == [type : {"doViewChange"}, to : Ids, from : ReplicaIds, view : Nat,
                  lastNormalView : Nat, lastOp : Nat, lastCommitted : Nat, dump : DumpOf]
StartViews   == [type : {"startView"}, to : Ids, view : Nat, lastOp : Nat,
                 lastCommitted : Nat, dump : DumpOf]
Recoveries   == [type : {"recovery"}, to : Ids, from : ReplicaIds, nonce : Nat]
Responses    == [type : {"recoveryResponse"}, to : Ids, from : ReplicaIds, view : Nat,
                 nonce : Nat, lastCommitted : Nat, lastOp : Nat, dump : DumpOf]

Message ==
    RequestMsgs \cup ReplyMsgs \cup PrepareMsgs \cup PrepareOKMsgs \cup CommitMsgs
    \cup TransferRequests \cup Transfers \cup StartViewChanges \cup DoViewChanges
    \cup StartViews \cup Recoveries \cup Responses

Faults ==
    {"none", "Append", "UpdateClientTable", "CommitUpTo", "SendPrepareOKs", "CloseBatch",
     "CloseBatchEntry", "UnexpectedPrepare", "PrepareShape", "UnexpectedCommit",
     "StateTransferGap", "StateTransferEntry", "StateTransferShort", "DoViewChangeEmpty",
     "DoViewChangeShort", "DoViewChangeLeader", "StartViewLeader", "StartViewEmpty",
     "StartViewShort", "RecoveryLeader"}

ReplicaState ==
    [id : ReplicaIds, status : {"normal", "viewChange", "recovering", "crashed"},
     fault : Faults, view : Nat, nonce : Nat, log : Seq(Entry), lastOp : Nat,
     lastCommitted : Nat, executed : Seq(Request), lastBatchEnd : Nat,
     batchComplete : BOOLEAN, lastRequest : [view : Nat, op : Nat],
     addresses : SUBSET Clients,
     clientTable : [Clients -> [id : Nat, replied : BOOLEAN, op : Nat]],
     pendingPrepares : Seq(PrepareMsgs), prepareOKs : [1 .. MaxOp -> Ids],
     startViewChanges : SUBSET StartViewChanges, doViewChanges : SUBSET DoViewChanges,
     recoveryResponses : SUBSET Responses, out : SUBSET Message]

\* The type invariant.
TypeOK ==
    /\ rep \in [ReplicaIds -> ReplicaState]
    /\ \A r \in ReplicaIds : rep[r].id = r /\ rep[r].out = {}
    /\ client \in [Clients -> [lastReqId : Nat, pending : Nat]]
    /\ msgs \subseteq Message

-----------------------------------------------------------------------------
\* Numbers, sequences and loops.

\* The length and the members of an interval of op numbers.
LEMMA IntervalIs ==
  ASSUME NEW a \in Nat, NEW b \in Nat
  PROVE  /\ Len(Interval(a, b)) \in Nat
         /\ b < a => Len(Interval(a, b)) = 0
         /\ a <= b => Len(Interval(a, b)) = b - a + 1
         /\ \A k \in 1 .. Len(Interval(a, b)) : Interval(a, b)[k] = a + k - 1
BY DEF Interval

\* The rounds of CommitUpTo.
LEMMA CommitRounds ==
  ASSUME NEW s \in ReplicaState, NEW upto \in Nat
  PROVE  LET n == IF upto < s.lastCommitted THEN 0 ELSE upto - s.lastCommitted IN
         \E t : /\ t[0] = s /\ CommitUpTo(s, upto) = t[n]
                /\ \A k \in 1 .. n :
                     t[k] = IF t[k - 1].status = "crashed" THEN t[k - 1]
                            ELSE ExecuteNext(t[k - 1], s.lastCommitted + k)
<1> DEFINE items == Interval(s.lastCommitted + 1, upto)
           n == IF upto < s.lastCommitted THEN 0 ELSE upto - s.lastCommitted
           Round(u, op) == Then(u, LAMBDA v : ExecuteNext(v, op))
           Run(k, t) == t = [j \in 0 .. k |-> IF j = 0 THEN s ELSE Round(t[j - 1], items[j])]
<1>1. n \in Nat /\ s.lastCommitted \in Nat /\ Len(items) = n
      /\ \A k \in 1 .. n : items[k] = s.lastCommitted + k
  <2> DEFINE a == s.lastCommitted
  <2>1. a \in Nat
    BY DEF ReplicaState
  <2> HIDE DEF a
  <2>2. a + 1 \in Nat
    BY <2>1
  <2>3. /\ upto < a + 1 => Len(Interval(a + 1, upto)) = 0
        /\ a + 1 <= upto => Len(Interval(a + 1, upto)) = upto - a
        /\ \A k \in 1 .. Len(Interval(a + 1, upto)) : Interval(a + 1, upto)[k] = a + k
    <3> DEFINE b == a + 1
    <3>1. b \in Nat /\ b = a + 1
      BY <2>2
    <3> HIDE DEF b
    <3>2. /\ upto < b => Len(Interval(b, upto)) = 0
          /\ b <= upto => Len(Interval(b, upto)) = upto - b + 1
          /\ \A k \in 1 .. Len(Interval(b, upto)) : Interval(b, upto)[k] = b + k - 1
          /\ Len(Interval(b, upto)) \in Nat
      BY <3>1, IntervalIs
    <3>3. \A k \in 1 .. Len(Interval(b, upto)) : k \in Nat /\ b + k - 1 = a + k
      BY <2>1, <3>1, <3>2
    <3>4. upto - b + 1 = upto - a
      BY <2>1, <3>1
    <3> QED BY ONLY <3>1, <3>2, <3>3, <3>4
  <2> QED BY <2>1, <2>3 DEF a
<1>2. CommitUpTo(s, upto) = (CHOOSE t : Run(Len(items), t))[Len(items)]
  BY DEF CommitUpTo, Loop, Then
<1>r. \A u, op : Round(u, op) = IF u.status = "crashed" THEN u ELSE ExecuteNext(u, op)
  BY DEF Then
<1> HIDE DEF items, n, Round
<1>3. \E t : Run(n, t)
  <2> DEFINE S == {k \in 0 .. n : \E t : Run(k, t)}
  <2>1. 0 \in S
    <3>1. Run(0, [j \in 0 .. 0 |-> s])
      OBVIOUS
    <3> HIDE DEF Run
    <3> QED BY <1>1, <3>1
  <2>2. ASSUME NEW k \in 1 .. n, k - 1 \in S PROVE k \in S
    <3>1. PICK g : Run(k - 1, g)
      BY <2>2
    <3> DEFINE h == [j \in 0 .. k |-> IF j = k THEN Round(g[k - 1], items[k]) ELSE g[j]]
    <3>2. \A j \in 0 .. k : h[j] = IF j = 0 THEN s ELSE Round(h[j - 1], items[j])
      BY <1>1, <3>1
    <3>3. Run(k, h)
      BY <3>2
    <3> HIDE DEF Run, h
    <3> QED BY <1>1, <3>3
  <2> HIDE DEF S
  <2>3. n \in S
    BY <1>1, <2>1, <2>2, RoundInduction DEF S
  <2> QED BY <2>3 DEF S
<1>4. PICK t : Run(n, t) /\ CommitUpTo(s, upto) = t[n]
  BY <1>1, <1>2, <1>3
<1>5. t[0] = s /\ \A k \in 1 .. n : t[k] = Round(t[k - 1], s.lastCommitted + k)
  BY <1>1, <1>4
<1> QED BY <1>4, <1>5, <1>r DEF n

-----------------------------------------------------------------------------
\* What the operations of a replica keep when they do not change the view.

\* The second sequence begins with the first.
Grows(x, y) == Len(x) <= Len(y) /\ \A i \in 1 .. Len(x) : x[i] = y[i]

Keeps(s, t) ==
    /\ t \in ReplicaState
    /\ t.id = s.id /\ t.view = s.view /\ t.nonce = s.nonce
    /\ t.status \in {s.status, "crashed"}
    /\ Grows(s.executed, t.executed)

\* The type of each field.
LEMMA FieldTypes ==
  ASSUME NEW s \in ReplicaState
  PROVE  /\ s.id \in ReplicaIds /\ s.view \in Nat /\ s.nonce \in Nat
         /\ s.status \in {"normal", "viewChange", "recovering", "crashed"}
         /\ s.log \in Seq(Entry) /\ Len(s.log) \in Nat
         /\ s.lastOp \in Nat /\ s.lastCommitted \in Nat /\ s.lastBatchEnd \in Nat
         /\ s.executed \in Seq(Request) /\ Len(s.executed) \in Nat
         /\ s.addresses \in SUBSET Clients
         /\ s.clientTable \in [Clients -> [id : Nat, replied : BOOLEAN, op : Nat]]
         /\ s.pendingPrepares \in Seq(PrepareMsgs) /\ Len(s.pendingPrepares) \in Nat
         /\ s.prepareOKs \in [1 .. MaxOp -> Ids]
         /\ s.startViewChanges \in SUBSET StartViewChanges
         /\ s.doViewChanges \in SUBSET DoViewChanges
         /\ s.recoveryResponses \in SUBSET Responses
         /\ s.out \in SUBSET Message
<1>1. s.log \in Seq(Entry) /\ s.executed \in Seq(Request) /\ s.pendingPrepares \in Seq(PrepareMsgs)
  BY DEF ReplicaState
<1> QED BY <1>1 DEF ReplicaState

\* An entry of a log has a request.
LEMMA EntryTypes ==
  ASSUME NEW log \in Seq(Entry), NEW op, Found(log, op)
  PROVE  /\ log[op] \in Entry /\ log[op].view \in Nat /\ log[op].req \in Request
         /\ log[op].req.client \in Clients /\ log[op].req.id \in Nat
<1>1. log[op] \in Entry
  BY DEF Found
<1> QED BY <1>1 DEF Entry, Request

\* Keeps is reflexive and transitive: a handler is a sequence of such operations.
LEMMA KeepsItself ==
  ASSUME NEW s \in ReplicaState
  PROVE  Keeps(s, s)
BY DEF Keeps, Grows, ReplicaState

\* A record that differs from s in none of the fields Keeps is about.
LEMMA SameKeeps ==
  ASSUME NEW s \in ReplicaState, NEW t \in ReplicaState,
         t.id = s.id, t.view = s.view, t.nonce = s.nonce, t.status \in {s.status, "crashed"},
         t.executed = s.executed
  PROVE  Keeps(s, t)
<1>1. Len(s.executed) \in Nat
  BY DEF ReplicaState
<1> QED BY <1>1 DEF Keeps, Grows

\* The second operation starts from the record the first one leaves.
LEMMA KeepsTransitive ==
  ASSUME NEW s \in ReplicaState, NEW t, NEW u, Keeps(s, t), Keeps(t, u)
  PROVE  Keeps(s, u)
<1>1. /\ Len(s.executed) \in Nat /\ Len(t.executed) \in Nat /\ Len(u.executed) \in Nat
  BY FieldTypes DEF Keeps
<1> QED BY <1>1 DEF Keeps, Grows

\* A failing ASSERT changes nothing but status and fault.
LEMMA CrashKeeps ==
  ASSUME NEW s \in ReplicaState, NEW where \in Faults
  PROVE  Keeps(s, Crash(s, where))
<1>1. Crash(s, where) \in ReplicaState
  BY DEF Crash, ReplicaState
<1>2. LET t == Crash(s, where) IN
      /\ t.id = s.id /\ t.view = s.view /\ t.nonce = s.nonce /\ t.status = "crashed"
      /\ t.executed = s.executed
  BY DEF Crash, ReplicaState
<1> QED BY <1>1, <1>2, SameKeeps

\* Sending changes nothing but out.
LEMMA SendKeeps ==
  ASSUME NEW s \in ReplicaState, NEW m \in Message
  PROVE  Keeps(s, Send(s, m))
<1>1. Send(s, m) \in ReplicaState
  BY DEF Send, ReplicaState
<1>2. LET t == Send(s, m) IN
      /\ t.id = s.id /\ t.view = s.view /\ t.nonce = s.nonce /\ t.status = s.status
      /\ t.executed = s.executed
  BY DEF Send, ReplicaState
<1> QED BY <1>1, <1>2, SameKeeps

\* Appending an entry, or the failing ASSERT of Log::Append.
LEMMA PushKeeps ==
  ASSUME NEW s \in ReplicaState, NEW e \in Entry
  PROVE  Keeps(s, Push(s, e))
<1>1. CASE MayAppend(s.log, s.lastOp + 1)
  <2> DEFINE t == [s EXCEPT !.lastOp = @ + 1, !.log = Append(@, e)]
  <2>0. Append(s.log, e) \in Seq(Entry) /\ s.lastOp + 1 \in Nat
    BY FieldTypes
  <2>1. t \in ReplicaState
    BY <2>0 DEF ReplicaState
  <2>2. /\ t.id = s.id /\ t.view = s.view /\ t.nonce = s.nonce /\ t.status = s.status
        /\ t.executed = s.executed
    BY DEF ReplicaState
  <2>3. Push(s, e) = t
    BY <1>1 DEF Push
  <2> HIDE DEF t
  <2> QED BY <2>1, <2>2, <2>3, SameKeeps
<1> QED BY <1>1, CrashKeeps DEF Push, Faults

\* UpdateClientTable, or its failing ASSERT.
LEMMA UpdateClientTableKeeps ==
  ASSUME NEW s \in ReplicaState, NEW req \in Request
  PROVE  Keeps(s, UpdateClientTable(s, req))
<1> DEFINE t == [s EXCEPT !.clientTable[req.client] =
                    [id |-> req.id, replied |-> FALSE, op |-> 0]]
<1>1. t \in ReplicaState
  <2>1. [id |-> req.id, replied |-> FALSE, op |-> 0] \in [id : Nat, replied : BOOLEAN, op : Nat]
    BY DEF Request
  <2>2. [s.clientTable EXCEPT ![req.client] = [id |-> req.id, replied |-> FALSE, op |-> 0]]
        \in [Clients -> [id : Nat, replied : BOOLEAN, op : Nat]]
    BY <2>1 DEF ReplicaState
  <2>3. t = [s EXCEPT !.clientTable = [s.clientTable EXCEPT ![req.client] =
                [id |-> req.id, replied |-> FALSE, op |-> 0]]]
    BY DEF ReplicaState
  <2> QED BY <2>2, <2>3 DEF ReplicaState
<1>2. /\ t.id = s.id /\ t.view = s.view /\ t.nonce = s.nonce /\ t.status = s.status
      /\ t.executed = s.executed
  BY DEF ReplicaState
<1>3. Keeps(s, t)
  BY <1>1, <1>2, SameKeeps
<1>4. Keeps(s, Crash(s, "UpdateClientTable"))
  BY CrashKeeps DEF Faults
<1>5. UpdateClientTable(s, req) \in {Crash(s, "UpdateClientTable"), s, t}
  BY DEF UpdateClientTable
<1> HIDE DEF t
<1> QED BY <1>3, <1>4, <1>5, KeepsItself

\* One round of CommitUpTo's loop lengthens executed by one.
LEMMA ExecuteNextKeeps ==
  ASSUME NEW s \in ReplicaState, NEW op \in Nat
  PROVE  Keeps(s, ExecuteNext(s, op))
<1>1. CASE ~Found(s.log, op)
  BY <1>1, CrashKeeps DEF ExecuteNext, Faults
<1>2. CASE Found(s.log, op)
  <2> DEFINE req == s.log[op].req
             row == IF s.clientTable[req.client].id <= req.id
                    THEN [id |-> req.id, replied |-> TRUE, op |-> op]
                    ELSE s.clientTable[req.client]
             sent == IF req.client \in s.addresses
                     THEN s.out \cup {Reply(req, op)} ELSE s.out
             table == [s.clientTable EXCEPT ![req.client] = row]
             t == [s EXCEPT !.lastCommitted = op, !.executed = Append(@, req),
                            !.clientTable = table, !.out = sent]
  <2>1. req \in Request /\ req.client \in Clients /\ req.id \in Nat
    BY <1>2, FieldTypes, EntryTypes
  <2>2. ExecuteNext(s, op) = t
    BY <1>2 DEF ExecuteNext, ReplicaState
  <2>3. row \in [id : Nat, replied : BOOLEAN, op : Nat]
    BY <2>1 DEF ReplicaState
  <2>4. Reply(req, op) \in ReplyMsgs
    BY <2>1 DEF Reply, ReplyMsgs, Ids
  <2>5. sent \in SUBSET Message
    BY <2>4 DEF ReplicaState, Message
  <2>6. Append(s.executed, req) \in Seq(Request) /\ Grows(s.executed, Append(s.executed, req))
    BY <2>1 DEF ReplicaState, Grows
  <2>7. table \in [Clients -> [id : Nat, replied : BOOLEAN, op : Nat]]
    <3> HIDE DEF row, req
    <3> QED BY <2>1, <2>3 DEF ReplicaState
  <2> HIDE DEF req, row, sent, table
  <2>8. t \in ReplicaState
    BY <2>5, <2>6, <2>7 DEF ReplicaState
  <2>9. /\ t.id = s.id /\ t.view = s.view /\ t.nonce = s.nonce /\ t.status = s.status
        /\ t.executed = Append(s.executed, req)
    BY DEF ReplicaState
  <2> QED BY <2>2, <2>6, <2>8, <2>9 DEF Keeps
<1> QED BY <1>1, <1>2

\* CommitUpTo, by induction on its rounds.
LEMMA CommitUpToKeeps ==
  ASSUME NEW s \in ReplicaState, NEW upto \in Nat
  PROVE  Keeps(s, CommitUpTo(s, upto))
<1> DEFINE n == IF upto < s.lastCommitted THEN 0 ELSE upto - s.lastCommitted
<1>0. n \in Nat /\ s.lastCommitted \in Nat
  BY DEF ReplicaState
<1>1. PICK t : /\ t[0] = s /\ CommitUpTo(s, upto) = t[n]
               /\ \A k \in 1 .. n :
                    t[k] = IF t[k - 1].status = "crashed" THEN t[k - 1]
                           ELSE ExecuteNext(t[k - 1], s.lastCommitted + k)
  BY CommitRounds
<1> HIDE DEF n
<1> DEFINE S == {k \in 0 .. n : Keeps(s, t[k])}
<1>2. 0 \in S
  BY <1>0, <1>1, KeepsItself
<1>3. ASSUME NEW k \in 1 .. n, k - 1 \in S PROVE k \in S
  <2>1. Keeps(s, t[k - 1]) /\ t[k - 1] \in ReplicaState /\ s.lastCommitted + k \in Nat
    BY <1>0, <1>3 DEF Keeps
  <2>2. Keeps(t[k - 1], t[k])
    BY <1>1, <2>1, ExecuteNextKeeps, KeepsItself
  <2>3. Keeps(s, t[k])
    BY <2>1, <2>2, KeepsTransitive
  <2> QED BY <1>0, <2>3
<1> HIDE DEF S
<1>4. n \in S
  BY <1>0, <1>2, <1>3, RoundInduction DEF S
<1> QED BY <1>1, <1>4 DEF S

\* The leader of a view is one of the replicas.
LEMMA LeaderIsReplica ==
  ASSUME NEW view \in Nat
  PROVE  GetLeaderIndex(view) \in ReplicaIds
BY SizeAssumption DEF GetLeaderIndex, ReplicaIds

\* Max and Min of two op numbers, and Min of any set of them.
LEMMA MaxOfTwo ==
  ASSUME NEW a \in Nat, NEW b \in Nat
  PROVE  Max({a, b}) \in {a, b} /\ a <= Max({a, b}) /\ b <= Max({a, b})
<1>1. \E x \in {a, b} : \A y \in {a, b} : y <= x
  OBVIOUS
<1> QED BY <1>1 DEF Max

\* The smallest of a set of op numbers.
LEMMA MinOfSet ==
  ASSUME NEW S \in SUBSET Nat, S # {}
  PROVE  Min(S) \in S /\ \A x \in S : Min(S) <= x
<1>1. \E x \in S : \A y \in S : x <= y
  BY FirstOfOps
<1> QED BY <1>1 DEF Min

\* What a dump of a log is made of.
LEMMA DumpTypes ==
  ASSUME NEW log \in Seq(Entry), NEW from \in Nat
  PROVE  /\ Dump(log, from) \in DumpOf
         /\ from <= Dump(log, from).first
         /\ from = 0 => Dump(log, from).first = 1
         /\ from > 0 => Dump(log, from).first = from
         /\ \A k \in 1 .. Len(Dump(log, from).entries) :
              Dump(log, from).entries[k] = log[Dump(log, from).first + k - 1]
         /\ Dump(log, from).first + Len(Dump(log, from).entries) - 1 <= Len(log)
            \/ Dump(log, from).entries = <<>>
<1> DEFINE first == Max({from, 1})
<1>1. first \in Nat \ {0} /\ from <= first /\ (from = 0 => first = 1) /\ (from > 0 => first = from)
  BY MaxOfTwo
<1>2. Dump(log, from) = [first |-> first, entries |-> SubSeq(log, first, Len(log))]
  BY DEF Dump
<1> HIDE DEF first
<1>3. /\ SubSeq(log, first, Len(log)) \in Seq(Entry)
      /\ Len(SubSeq(log, first, Len(log))) = IF first <= Len(log) THEN Len(log) - first + 1 ELSE 0
      /\ \A k \in 1 .. Len(SubSeq(log, first, Len(log))) :
           SubSeq(log, first, Len(log))[k] = log[first + k - 1]
  BY <1>1
<1> QED BY <1>1, <1>2, <1>3 DEF DumpOf

\* The destinations of a message to all.
LEMMA OthersAreReplicas ==
  ASSUME NEW s
  PROVE  Others(s) \in Ids
BY DEF Others, Ids

\* PREPAREOK is a message.
LEMMA PrepareOKTypes ==
  ASSUME NEW s \in ReplicaState, NEW op \in Nat, NEW view \in Nat
  PROVE  PrepareOK(s, view, op) \in PrepareOKMsgs
BY FieldTypes, LeaderIsReplica DEF PrepareOK, PrepareOKMsgs, Ids

\* One round of SendPrepareOKs' loop.
LEMMA AckNextKeeps ==
  ASSUME NEW s \in ReplicaState, NEW op \in Nat
  PROVE  Keeps(s, AckNext(s, op))
<1> DEFINE req == s.log[op].req
           t == UpdateClientTable(s, req)
<1>1. CASE op <= s.lastCommitted
  BY <1>1, KeepsItself DEF AckNext
<1>2. CASE ~(op <= s.lastCommitted) /\ ~Found(s.log, op)
  BY <1>2, CrashKeeps DEF AckNext, Faults
<1>3. CASE ~(op <= s.lastCommitted) /\ Found(s.log, op)
  <2>1. req \in Request
    BY <1>3, FieldTypes, EntryTypes
  <2> HIDE DEF req
  <2>2. Keeps(s, t)
    BY <2>1, UpdateClientTableKeeps
  <2>3. AckNext(s, op) = IF t.status = "crashed" THEN t ELSE Send(t, PrepareOK(t, t.view, op))
    BY <1>3 DEF AckNext, Then, req
  <2> HIDE DEF t
  <2>4. t \in ReplicaState /\ PrepareOK(t, t.view, op) \in Message
    BY <2>2, FieldTypes, PrepareOKTypes DEF Keeps, Message
  <2>5. Keeps(t, Send(t, PrepareOK(t, t.view, op)))
    BY <2>4, SendKeeps
  <2> QED BY <2>2, <2>3, <2>5, KeepsTransitive
<1> QED BY <1>1, <1>2, <1>3

\* The rounds of SendPrepareOKs.
LEMMA AckRounds ==
  ASSUME NEW s \in ReplicaState, NEW from \in Nat
  PROVE  LET n == IF s.lastOp < from THEN 0 ELSE s.lastOp - from + 1 IN
         \E t : /\ t[0] = s /\ SendPrepareOKs(s, from) = t[n]
                /\ \A k \in 1 .. n :
                     t[k] = IF t[k - 1].status = "crashed" THEN t[k - 1]
                            ELSE AckNext(t[k - 1], from + k - 1)
<1> DEFINE items == Interval(from, s.lastOp)
           n == IF s.lastOp < from THEN 0 ELSE s.lastOp - from + 1
           Round(u, op) == Then(u, LAMBDA v : AckNext(v, op))
           Run(k, t) == t = [j \in 0 .. k |-> IF j = 0 THEN s ELSE Round(t[j - 1], items[j])]
<1>1. n \in Nat /\ Len(items) = n /\ \A k \in 1 .. n : items[k] = from + k - 1
  <2>1. s.lastOp \in Nat
    BY FieldTypes
  <2>2. n \in Nat
    BY <2>1
  <2>3. Len(items) = n
    <3> DEFINE b == s.lastOp
    <3>1. b \in Nat
      BY <2>1
    <3> HIDE DEF b
    <3>2. (b < from => Len(Interval(from, b)) = 0) /\ (from <= b => Len(Interval(from, b)) = b - from + 1)
      BY <3>1, IntervalIs
    <3>3. Len(Interval(from, b)) = IF b < from THEN 0 ELSE b - from + 1
      BY <3>1, <3>2
    <3> QED BY <3>3 DEF b
  <2>4. \A k \in 1 .. Len(items) : items[k] = from + k - 1
    BY <2>1, IntervalIs
  <2> HIDE DEF items, n
  <2> QED BY <2>2, <2>3, <2>4
<1>2. SendPrepareOKs(s, from) = (CHOOSE t : Run(Len(items), t))[Len(items)]
  BY DEF SendPrepareOKs, Loop, Then
<1>r. \A u, op : Round(u, op) = IF u.status = "crashed" THEN u ELSE AckNext(u, op)
  BY DEF Then
<1> HIDE DEF items, n, Round
<1>3. \E t : Run(n, t)
  <2> DEFINE S == {k \in 0 .. n : \E t : Run(k, t)}
  <2>1. 0 \in S
    <3>1. Run(0, [j \in 0 .. 0 |-> s])
      OBVIOUS
    <3> HIDE DEF Run
    <3> QED BY <1>1, <3>1
  <2>2. ASSUME NEW k \in 1 .. n, k - 1 \in S PROVE k \in S
    <3>1. PICK g : Run(k - 1, g)
      BY <2>2
    <3> DEFINE h == [j \in 0 .. k |-> IF j = k THEN Round(g[k - 1], items[k]) ELSE g[j]]
    <3>2. \A j \in 0 .. k : h[j] = IF j = 0 THEN s ELSE Round(h[j - 1], items[j])
      BY <1>1, <3>1
    <3>3. Run(k, h)
      BY <3>2
    <3> HIDE DEF Run, h
    <3> QED BY <1>1, <3>3
  <2> HIDE DEF S
  <2>3. n \in S
    BY <1>1, <2>1, <2>2, RoundInduction DEF S
  <2> QED BY <2>3 DEF S
<1>4. PICK t : Run(n, t) /\ SendPrepareOKs(s, from) = t[n]
  BY <1>1, <1>2, <1>3
<1>5. t[0] = s /\ \A k \in 1 .. n : t[k] = Round(t[k - 1], from + k - 1)
  BY <1>1, <1>4
<1> QED BY <1>4, <1>5, <1>r DEF n

\* SendPrepareOKs, by induction on its rounds.
LEMMA SendPrepareOKsKeeps ==
  ASSUME NEW s \in ReplicaState, NEW from \in Nat
  PROVE  Keeps(s, SendPrepareOKs(s, from))
<1> DEFINE n == IF s.lastOp < from THEN 0 ELSE s.lastOp - from + 1
<1>0. n \in Nat
  BY FieldTypes
<1>1. PICK t : /\ t[0] = s /\ SendPrepareOKs(s, from) = t[n]
               /\ \A k \in 1 .. n :
                    t[k] = IF t[k - 1].status = "crashed" THEN t[k - 1]
                           ELSE AckNext(t[k - 1], from + k - 1)
  BY AckRounds
<1> HIDE DEF n
<1> DEFINE S == {k \in 0 .. n : Keeps(s, t[k])}
<1>2. 0 \in S
  BY <1>0, <1>1, KeepsItself
<1>3. ASSUME NEW k \in 1 .. n, k - 1 \in S PROVE k \in S
  <2>1. Keeps(s, t[k - 1]) /\ t[k - 1] \in ReplicaState /\ from + k - 1 \in Nat
    BY <1>0, <1>3 DEF Keeps
  <2>2. Keeps(t[k - 1], t[k])
    BY <1>1, <2>1, AckNextKeeps, KeepsItself
  <2>3. Keeps(s, t[k])
    BY <2>1, <2>2, KeepsTransitive
  <2> QED BY <1>0, <2>3
<1> HIDE DEF S
<1>4. n \in S
  BY <1>0, <1>2, <1>3, RoundInduction DEF S
<1> QED BY <1>1, <1>4 DEF S

\* RequestStateTransfer, sent or suppressed.
LEMMA RequestStateTransferKeeps ==
  ASSUME NEW s \in ReplicaState
  PROVE  Keeps(s, RequestStateTransfer(s))
<1> DEFINE m == [type |-> "requestStateTransfer", to |-> Others(s), from |-> s.id,
                 view |-> s.view, op |-> s.lastCommitted]
           t == [s EXCEPT !.lastRequest = [view |-> s.view, op |-> s.lastCommitted]]
<1>1. m \in Message
  BY FieldTypes, OthersAreReplicas DEF Message, TransferRequests
<1>2. t \in ReplicaState /\ t.id = s.id /\ t.view = s.view /\ t.nonce = s.nonce
      /\ t.status = s.status /\ t.executed = s.executed
  BY DEF ReplicaState
<1>3. Keeps(s, t)
  BY <1>2, SameKeeps
<1>4. RequestStateTransfer(s) \in {s, Send(t, m)}
  BY DEF RequestStateTransfer
<1> HIDE DEF t, m
<1>5. Keeps(t, Send(t, m))
  BY <1>1, <1>2, SendKeeps
<1> QED BY <1>2, <1>3, <1>4, <1>5, KeepsItself, KeepsTransitive

\* SendNullCommit, and the COMMIT after a quorum.
LEMMA SendCommitKeeps ==
  ASSUME NEW s \in ReplicaState
  PROVE  Keeps(s, SendCommit(s))
<1>1. [type |-> "commit", to |-> Others(s), view |-> s.view, op |-> s.lastCommitted] \in Message
  BY FieldTypes, OthersAreReplicas DEF Message, CommitMsgs
<1> QED BY <1>1, SendKeeps DEF SendCommit

\* CloseBatch, with its two ASSERTs.
LEMMA CloseBatchKeeps ==
  ASSUME NEW s \in ReplicaState
  PROVE  Keeps(s, CloseBatch(s))
<1> DEFINE reqs == [k \in 1 .. s.lastOp - s.lastBatchEnd |-> s.log[s.lastBatchEnd + k].req]
           m == [type |-> "prepare", to |-> Others(s), view |-> s.view,
                 op |-> s.lastOp, batchStart |-> s.lastBatchEnd + 1, reqs |-> reqs]
           t == [s EXCEPT !.lastBatchEnd = s.lastOp, !.batchComplete = FALSE]
           bad == \E op \in s.lastBatchEnd + 1 .. s.lastOp :
                     ~Found(s.log, op) \/ s.log[op].view # s.view
<1>1. CASE ~(AmLeader(s) /\ s.lastBatchEnd < s.lastOp)
  BY <1>1, CrashKeeps DEF CloseBatch, Faults
<1>2. CASE AmLeader(s) /\ s.lastBatchEnd < s.lastOp /\ bad
  BY <1>2, CrashKeeps DEF CloseBatch, Faults
<1>3. CASE AmLeader(s) /\ s.lastBatchEnd < s.lastOp /\ ~bad
  <2>1. s.lastOp - s.lastBatchEnd \in Nat /\ s.lastOp \in Nat /\ s.lastBatchEnd + 1 \in Nat
    BY <1>3, FieldTypes
  <2>2. \A k \in 1 .. s.lastOp - s.lastBatchEnd : s.log[s.lastBatchEnd + k].req \in Request
    <3> SUFFICES ASSUME NEW k \in 1 .. s.lastOp - s.lastBatchEnd
                 PROVE  s.log[s.lastBatchEnd + k].req \in Request
      OBVIOUS
    <3>1. s.lastBatchEnd + k \in s.lastBatchEnd + 1 .. s.lastOp
      BY <2>1, FieldTypes
    <3>2. Found(s.log, s.lastBatchEnd + k)
      BY <1>3, <3>1
    <3> QED BY <3>2, FieldTypes, EntryTypes
  <2>3. reqs \in Seq(Request)
    BY <2>1, <2>2
  <2> HIDE DEF reqs
  <2>4. m \in PrepareMsgs
    BY <2>1, <2>3, FieldTypes, OthersAreReplicas DEF PrepareMsgs
  <2>5. t \in ReplicaState /\ t.id = s.id /\ t.view = s.view /\ t.nonce = s.nonce
        /\ t.status = s.status /\ t.executed = s.executed
    BY DEF ReplicaState
  <2>6. CloseBatch(s) = Send(t, m)
    BY <1>3 DEF CloseBatch, reqs
  <2> HIDE DEF t, m
  <2>7. Keeps(s, t) /\ Keeps(t, Send(t, m))
    BY <2>4, <2>5, SameKeeps, SendKeeps DEF Message
  <2> QED BY <2>5, <2>6, <2>7, KeepsTransitive
<1> QED BY <1>1, <1>2, <1>3

\* A new request at the leader, replicated or not.
LEMMA AcceptRequestKeeps ==
  ASSUME NEW s \in ReplicaState, NEW req \in Request
  PROVE  Keeps(s, AcceptRequest(s, req))
<1> DEFINE row == [id |-> req.id, replied |-> TRUE, op |-> 0]
           t == [s EXCEPT !.clientTable[req.client] = row]
           e == [view |-> s.view, req |-> req]
           u == Push(s, e)
<1>1. CASE req.client \in LeaderOnly
  <2>1. row \in [id : Nat, replied : BOOLEAN, op : Nat] /\ Reply(req, 0) \in Message
    BY DEF Request, Reply, ReplyMsgs, Message, Ids
  <2> DEFINE table == [s.clientTable EXCEPT ![req.client] = row]
  <2> HIDE DEF row
  <2>2. table \in [Clients -> [id : Nat, replied : BOOLEAN, op : Nat]]
    BY <2>1, FieldTypes
  <2>3. t = [s EXCEPT !.clientTable = table]
    BY DEF ReplicaState
  <2> HIDE DEF table
  <2>4. t \in ReplicaState /\ t.id = s.id /\ t.view = s.view /\ t.nonce = s.nonce
        /\ t.status = s.status /\ t.executed = s.executed
    BY <2>2, <2>3 DEF ReplicaState
  <2>5. AcceptRequest(s, req) = Send(t, Reply(req, 0))
    BY <1>1 DEF AcceptRequest, row
  <2> HIDE DEF t
  <2>6. Keeps(s, t) /\ Keeps(t, Send(t, Reply(req, 0)))
    BY <2>1, <2>4, SameKeeps, SendKeeps
  <2> QED BY <2>4, <2>5, <2>6, KeepsTransitive
<1>2. CASE req.client \notin LeaderOnly
  <2>1. e \in Entry
    BY FieldTypes DEF Entry
  <2> HIDE DEF e
  <2>2. Keeps(s, u) /\ u \in ReplicaState
    BY <2>1, PushKeeps DEF Keeps
  <2>3. AcceptRequest(s, req) \in {u, CloseBatch(u)}
    BY <1>2 DEF AcceptRequest, Then, e
  <2> HIDE DEF u
  <2>4. Keeps(u, CloseBatch(u))
    BY <2>2, CloseBatchKeeps
  <2> QED BY <2>2, <2>3, <2>4, KeepsTransitive
<1> QED BY <1>1, <1>2

\* HandleRequest keeps view, nonce and executions.
LEMMA HandleRequestKeeps ==
  ASSUME NEW s \in ReplicaState, NEW m \in RequestMsgs
  PROVE  Keeps(s, HandleRequest(s, m))
<1> DEFINE known == s.clientTable[m.req.client]
           t == [s EXCEPT !.addresses = @ \cup {m.req.client}]
           u == UpdateClientTable(t, m.req)
<1>1. m.req \in Request /\ m.req.client \in Clients /\ m.req.id \in Nat
  BY DEF RequestMsgs, Request
<1>2. t \in ReplicaState /\ t.id = s.id /\ t.view = s.view /\ t.nonce = s.nonce
      /\ t.status = s.status /\ t.executed = s.executed
  BY <1>1 DEF ReplicaState
<1>3. Keeps(s, t)
  BY <1>2, SameKeeps
<1>4. Reply(m.req, known.op) \in Message
  <2>1. known \in [id : Nat, replied : BOOLEAN, op : Nat]
    BY <1>1, FieldTypes
  <2> QED BY <1>1, <2>1 DEF Reply, ReplyMsgs, Message, Ids
<1>5. HandleRequest(s, m) \in {s, t, Send(t, Reply(m.req, known.op)), u, AcceptRequest(u, m.req)}
  BY DEF HandleRequest, Then
<1> HIDE DEF t, known
<1>6. Keeps(t, u) /\ u \in ReplicaState
  BY <1>1, <1>2, UpdateClientTableKeeps DEF Keeps
<1> HIDE DEF u
<1>7. Keeps(t, Send(t, Reply(m.req, known.op))) /\ Keeps(u, AcceptRequest(u, m.req))
  BY <1>1, <1>2, <1>4, <1>6, SendKeeps, AcceptRequestKeeps
<1> QED BY <1>2, <1>3, <1>5, <1>6, <1>7, KeepsItself, KeepsTransitive

\* A PREPARE kept for later.
LEMMA PostponeKeeps ==
  ASSUME NEW s \in ReplicaState, NEW m \in PrepareMsgs
  PROVE  Keeps(s, Postpone(s, m))
<1> DEFINE t == RequestStateTransfer(s)
           u == [t EXCEPT !.pendingPrepares = Append(@, m)]
<1>1. Keeps(s, t) /\ t \in ReplicaState
  BY RequestStateTransferKeeps DEF Keeps
<1>2. Postpone(s, m) = u
  BY DEF Postpone
<1> HIDE DEF t
<1>3. Append(t.pendingPrepares, m) \in Seq(PrepareMsgs)
  BY <1>1, FieldTypes
<1>4. u \in ReplicaState /\ u.id = t.id /\ u.view = t.view /\ u.nonce = t.nonce
      /\ u.status = t.status /\ u.executed = t.executed
  BY <1>1, <1>3 DEF ReplicaState
<1> HIDE DEF u
<1>5. Keeps(t, u)
  BY <1>1, <1>4, SameKeeps
<1> QED BY <1>1, <1>2, <1>5, KeepsTransitive

\* One round of HandlePrepare's loop over the batch.
LEMMA AppendNextKeeps ==
  ASSUME NEW s \in ReplicaState, NEW view \in Nat, NEW req \in Request
  PROVE  Keeps(s, AppendNext(s, view, req))
<1> DEFINE e == [view |-> view, req |-> req]
           t == Push(s, e)
<1>1. e \in Entry
  BY DEF Entry
<1>2. AppendNext(s, view, req) \in {t, UpdateClientTable(t, req)}
  BY DEF AppendNext, Then
<1> HIDE DEF e
<1>3. Keeps(s, t) /\ t \in ReplicaState
  BY <1>1, PushKeeps DEF Keeps
<1> HIDE DEF t
<1>4. Keeps(t, UpdateClientTable(t, req))
  BY <1>3, UpdateClientTableKeeps
<1> QED BY <1>2, <1>3, <1>4, KeepsTransitive

\* The rounds of HandlePrepare's loop over the requests of a batch.
LEMMA AppendRounds ==
  ASSUME NEW s \in ReplicaState, NEW view \in Nat, NEW reqs \in Seq(Request)
  PROVE  \E t : /\ t[0] = s /\ AppendBatch(s, view, reqs) = t[Len(reqs)]
                /\ \A k \in 1 .. Len(reqs) :
                     t[k] = IF t[k - 1].status = "crashed" THEN t[k - 1]
                            ELSE AppendNext(t[k - 1], view, reqs[k])
<1> DEFINE n == Len(reqs)
           Round(u, req) == Then(u, LAMBDA v : AppendNext(v, view, req))
           Run(k, t) == t = [j \in 0 .. k |-> IF j = 0 THEN s ELSE Round(t[j - 1], reqs[j])]
<1>1. n \in Nat
  OBVIOUS
<1>2. AppendBatch(s, view, reqs) = (CHOOSE t : Run(n, t))[n]
  BY DEF AppendBatch, Loop, Then
<1>r. \A u, req : Round(u, req) = IF u.status = "crashed" THEN u ELSE AppendNext(u, view, req)
  BY DEF Then
<1> HIDE DEF n, Round
<1>3. \E t : Run(n, t)
  <2> DEFINE S == {k \in 0 .. n : \E t : Run(k, t)}
  <2>1. 0 \in S
    <3>1. Run(0, [j \in 0 .. 0 |-> s])
      OBVIOUS
    <3> HIDE DEF Run
    <3> QED BY <1>1, <3>1
  <2>2. ASSUME NEW k \in 1 .. n, k - 1 \in S PROVE k \in S
    <3>1. PICK g : Run(k - 1, g)
      BY <2>2
    <3> DEFINE h == [j \in 0 .. k |-> IF j = k THEN Round(g[k - 1], reqs[k]) ELSE g[j]]
    <3>2. \A j \in 0 .. k : h[j] = IF j = 0 THEN s ELSE Round(h[j - 1], reqs[j])
      BY <1>1, <3>1
    <3>3. Run(k, h)
      BY <3>2
    <3> HIDE DEF Run, h
    <3> QED BY <1>1, <3>3
  <2> HIDE DEF S
  <2>3. n \in S
    BY <1>1, <2>1, <2>2, RoundInduction DEF S
  <2> QED BY <2>3 DEF S
<1>4. PICK t : Run(n, t) /\ AppendBatch(s, view, reqs) = t[n]
  BY <1>2, <1>3
<1>5. t[0] = s /\ \A k \in 1 .. n : t[k] = Round(t[k - 1], reqs[k])
  BY <1>1, <1>4
<1> QED BY <1>4, <1>5, <1>r DEF n

\* HandlePrepare's loop, by induction on its rounds.
LEMMA AppendBatchKeeps ==
  ASSUME NEW s \in ReplicaState, NEW view \in Nat, NEW reqs \in Seq(Request)
  PROVE  Keeps(s, AppendBatch(s, view, reqs))
<1> DEFINE n == Len(reqs)
<1>0. n \in Nat
  OBVIOUS
<1>1. PICK t : /\ t[0] = s /\ AppendBatch(s, view, reqs) = t[n]
               /\ \A k \in 1 .. n :
                    t[k] = IF t[k - 1].status = "crashed" THEN t[k - 1]
                           ELSE AppendNext(t[k - 1], view, reqs[k])
  BY AppendRounds
<1>r. \A k \in 1 .. n : reqs[k] \in Request
  OBVIOUS
<1> HIDE DEF n
<1> DEFINE S == {k \in 0 .. n : Keeps(s, t[k])}
<1>2. 0 \in S
  BY <1>0, <1>1, KeepsItself
<1>3. ASSUME NEW k \in 1 .. n, k - 1 \in S PROVE k \in S
  <2>1. Keeps(s, t[k - 1]) /\ t[k - 1] \in ReplicaState
    BY <1>0, <1>3 DEF Keeps
  <2>2. Keeps(t[k - 1], t[k])
    BY <1>1, <1>r, <2>1, AppendNextKeeps, KeepsItself
  <2>3. Keeps(s, t[k])
    BY <2>1, <2>2, KeepsTransitive
  <2> QED BY <1>0, <2>3
<1> HIDE DEF S
<1>4. n \in S
  BY <1>0, <1>2, <1>3, RoundInduction DEF S
<1> QED BY <1>1, <1>4 DEF S

\* HandlePrepare keeps view, nonce and executions.
LEMMA HandlePrepareKeeps ==
  ASSUME NEW s \in ReplicaState, NEW m \in PrepareMsgs
  PROVE  Keeps(s, HandlePrepare(s, m))
<1> DEFINE reqs == SubSeq(m.reqs, s.lastOp - m.batchStart + 2, Len(m.reqs))
           t == AppendBatch(s, m.view, reqs)
           Ack(u) == Send(u, PrepareOK(u, m.view, m.op))
<1>1. m.view \in Nat /\ m.op \in Nat /\ m.batchStart \in Nat /\ m.reqs \in Seq(Request)
  BY DEF PrepareMsgs
<1>2. ASSUME NEW u \in ReplicaState PROVE Keeps(u, Ack(u))
  <2>1. PrepareOK(u, m.view, m.op) \in Message
    BY <1>1, PrepareOKTypes DEF Message
  <2> QED BY <2>1, SendKeeps
<1>3. HandlePrepare(s, m) \in {s, Postpone(s, m), Crash(s, "UnexpectedPrepare"),
                               Crash(s, "PrepareShape"), Ack(s)}
      \/ /\ ~(m.batchStart > s.lastOp + 1)
         /\ HandlePrepare(s, m) = IF t.status = "crashed" THEN t ELSE Ack(t)
  BY DEF HandlePrepare, Then
<1> HIDE DEF Ack
<1>4. CASE HandlePrepare(s, m) \in {s, Postpone(s, m), Crash(s, "UnexpectedPrepare"),
                                    Crash(s, "PrepareShape"), Ack(s)}
  <2>1. Keeps(s, Crash(s, "UnexpectedPrepare")) /\ Keeps(s, Crash(s, "PrepareShape"))
    BY CrashKeeps DEF Faults
  <2> QED BY <1>2, <1>4, <2>1, KeepsItself, PostponeKeeps
<1>5. CASE /\ ~(m.batchStart > s.lastOp + 1)
           /\ HandlePrepare(s, m) = IF t.status = "crashed" THEN t ELSE Ack(t)
  <2>1. s.lastOp - m.batchStart + 2 \in Nat \ {0}
    BY <1>1, <1>5, FieldTypes
  <2>2. reqs \in Seq(Request)
    <3> DEFINE i == s.lastOp - m.batchStart + 2
    <3>1. i \in Nat \ {0}
      BY <2>1
    <3> HIDE DEF i
    <3>2. SubSeq(m.reqs, i, Len(m.reqs)) \in Seq(Request)
      BY <1>1, <3>1
    <3> QED BY <3>2 DEF i
  <2> HIDE DEF reqs
  <2>3. Keeps(s, t) /\ t \in ReplicaState
    BY <1>1, <2>2, AppendBatchKeeps DEF Keeps
  <2> HIDE DEF t
  <2>4. Keeps(t, Ack(t))
    BY <1>2, <2>3
  <2> QED BY <1>5, <2>3, <2>4, KeepsTransitive
<1> QED BY <1>3, <1>4, <1>5

\* What follows the first quorum for an operation.
LEMMA AfterQuorumKeeps ==
  ASSUME NEW s \in ReplicaState, NEW op \in Nat
  PROVE  Keeps(s, AfterQuorum(s, op))
<1> DEFINE t == SendCommit(s)
           u == [t EXCEPT !.batchComplete = TRUE]
<1>1. Keeps(s, t) /\ t \in ReplicaState
  BY SendCommitKeeps DEF Keeps
<1>2. AfterQuorum(s, op) \in {t, u, CloseBatch(u)}
  BY DEF AfterQuorum
<1> HIDE DEF t
<1>3. u \in ReplicaState /\ u.id = t.id /\ u.view = t.view /\ u.nonce = t.nonce
      /\ u.status = t.status /\ u.executed = t.executed
  BY <1>1 DEF ReplicaState
<1> HIDE DEF u
<1>4. Keeps(t, u) /\ Keeps(u, CloseBatch(u))
  BY <1>1, <1>3, SameKeeps, CloseBatchKeeps
<1> QED BY <1>1, <1>2, <1>3, <1>4, KeepsTransitive

\* HandlePrepareOK executes at most more.
LEMMA HandlePrepareOKKeeps ==
  ASSUME NEW s \in ReplicaState, NEW m \in PrepareOKMsgs
  PROVE  Keeps(s, HandlePrepareOK(s, m))
<1> DEFINE t == [s EXCEPT !.prepareOKs[m.op] = @ \cup {m.from}]
           u == CommitUpTo(t, m.op)
<1>1. m.op \in Nat /\ m.from \in ReplicaIds
  BY DEF PrepareOKMsgs
<1>2. t \in ReplicaState /\ t.id = s.id /\ t.view = s.view /\ t.nonce = s.nonce
      /\ t.status = s.status /\ t.executed = s.executed
  <2> DEFINE oks == [s.prepareOKs EXCEPT ![m.op] = @ \cup {m.from}]
  <2>1. oks \in [1 .. MaxOp -> Ids]
    BY <1>1, FieldTypes DEF Ids
  <2>2. t = [s EXCEPT !.prepareOKs = oks]
    BY DEF ReplicaState
  <2> HIDE DEF oks
  <2> QED BY <2>1, <2>2 DEF ReplicaState
<1>3. HandlePrepareOK(s, m) \in {s, RequestStateTransfer(s), t, u, AfterQuorum(u, m.op)}
  BY DEF HandlePrepareOK, Then
<1> HIDE DEF t
<1>4. Keeps(s, t) /\ Keeps(t, u) /\ u \in ReplicaState
  BY <1>1, <1>2, SameKeeps, CommitUpToKeeps DEF Keeps
<1> HIDE DEF u
<1>5. Keeps(u, AfterQuorum(u, m.op))
  BY <1>1, <1>4, AfterQuorumKeeps
<1> QED BY <1>2, <1>3, <1>4, <1>5, KeepsItself, RequestStateTransferKeeps, KeepsTransitive

\* HandleCommit executes at most more.
LEMMA HandleCommitKeeps ==
  ASSUME NEW s \in ReplicaState, NEW m \in CommitMsgs
  PROVE  Keeps(s, HandleCommit(s, m))
<1>1. m.op \in Nat
  BY DEF CommitMsgs
<1>2. HandleCommit(s, m) \in {s, RequestStateTransfer(s), Crash(s, "UnexpectedCommit"),
                              CommitUpTo(s, m.op)}
  BY DEF HandleCommit
<1>3. Keeps(s, Crash(s, "UnexpectedCommit"))
  BY CrashKeeps DEF Faults
<1> QED BY <1>1, <1>2, <1>3, KeepsItself, RequestStateTransferKeeps, CommitUpToKeeps

\* HandleRequestStateTransfer only sends.
LEMMA HandleRequestStateTransferKeeps ==
  ASSUME NEW s \in ReplicaState, NEW m \in TransferRequests
  PROVE  Keeps(s, HandleRequestStateTransfer(s, m))
<1> DEFINE a == [type |-> "stateTransfer", to |-> {m.from}, view |-> s.view,
                 op |-> s.lastCommitted, dump |-> Dump(s.log, m.op + 1)]
<1>1. m.op + 1 \in Nat /\ {m.from} \in Ids
  BY DEF TransferRequests, Ids
<1>2. Dump(s.log, m.op + 1) \in DumpOf
  BY <1>1, FieldTypes, DumpTypes
<1>3. a \in Message
  BY <1>1, <1>2, FieldTypes DEF Message, Transfers
<1>4. HandleRequestStateTransfer(s, m) \in {s, RequestStateTransfer(s), Send(s, a)}
  BY DEF HandleRequestStateTransfer
<1> HIDE DEF a
<1> QED BY <1>3, <1>4, KeepsItself, RequestStateTransferKeeps, SendKeeps

-----------------------------------------------------------------------------
\* State transfer.

\* What HandleStateTransfer's loop works on.
TransferState == [s : ReplicaState, oldLastOp : Nat]

\* RemoveAfter and Install return logs.
LEMMA RemoveAfterTypes ==
  ASSUME NEW log \in Seq(Entry), NEW op \in Nat \ {0}
  PROVE  /\ RemoveAfter(log, op) \in Seq(Entry)
         /\ op > Len(log) => RemoveAfter(log, op) = log
         /\ op <= Len(log) => Len(RemoveAfter(log, op)) = op - 1
         /\ \A i \in 1 .. Len(RemoveAfter(log, op)) : i <= Len(log) /\ RemoveAfter(log, op)[i] = log[i]
<1>1. CASE op > Len(log)
  BY <1>1 DEF RemoveAfter
<1>2. CASE op <= Len(log)
  <2>1. RemoveAfter(log, op) = SubSeq(log, 1, op - 1)
    BY <1>2 DEF RemoveAfter
  <2>2. SubSeq(log, 1, op - 1) \in Seq(Entry) /\ Len(SubSeq(log, 1, op - 1)) = op - 1
        /\ \A i \in 1 .. op - 1 : SubSeq(log, 1, op - 1)[i] = log[i]
    BY <1>2
  <2> QED BY <1>2, <2>1, <2>2
<1> QED BY <1>1, <1>2

\* Log::Install leaves a log.
LEMMA InstallTypes ==
  ASSUME NEW log \in Seq(Entry), NEW dump \in DumpOf
  PROVE  Install(log, dump) \in Seq(Entry)
<1>1. CASE Divergence(log, dump) = {}
  BY <1>1 DEF Install
<1>2. CASE Divergence(log, dump) # {}
  <2> DEFINE k == Min(Divergence(log, dump))
             x == RemoveAfter(log, dump.first + k - 1)
             y == SubSeq(dump.entries, k, Len(dump.entries))
  <2>1. dump.first \in Nat \ {0} /\ dump.entries \in Seq(Entry)
    BY DEF DumpOf
  <2>2. k \in 1 .. Len(dump.entries)
    <3>1. Divergence(log, dump) \in SUBSET (1 .. Len(dump.entries))
      BY DEF Divergence
    <3>2. Divergence(log, dump) \in SUBSET Nat
      BY <2>1, <3>1
    <3>3. k \in Divergence(log, dump)
      BY <1>2, <3>2, MinOfSet
    <3> QED BY <3>1, <3>3
  <2>3. Install(log, dump) = x \o y
    BY <1>2 DEF Install
  <2> HIDE DEF k
  <2>4. x \in Seq(Entry)
    <3>1. dump.first + k - 1 \in Nat \ {0}
      BY <2>1, <2>2
    <3> QED BY <3>1, RemoveAfterTypes
  <2>5. y \in Seq(Entry)
    BY <2>1, <2>2
  <2> HIDE DEF x, y
  <2> QED BY <2>3, <2>4, <2>5
<1> QED BY <1>1, <1>2

\* One round of HandleStateTransfer's loop, all its branches.
LEMMA TransferEntryKeeps ==
  ASSUME NEW x \in TransferState, NEW op \in Nat \ {0}, NEW entry \in Entry
  PROVE  /\ TransferEntry(x, op, entry) \in TransferState
         /\ Keeps(x.s, TransferEntry(x, op, entry).s)
<1> DEFINE s == x.s
           y == TransferEntry(x, op, entry)
           log == Append(RemoveAfter(s.log, op), entry)
           t == [s EXCEPT !.log = log, !.lastOp = op]
<1>1. s \in ReplicaState /\ x.oldLastOp \in Nat /\ x = [s |-> s, oldLastOp |-> x.oldLastOp]
  BY DEF TransferState
<1>2. t \in ReplicaState /\ Keeps(s, t)
  <2>1. s.log \in Seq(Entry)
    BY <1>1, FieldTypes
  <2>2. RemoveAfter(s.log, op) \in Seq(Entry)
    BY <2>1, RemoveAfterTypes
  <2>3. log \in Seq(Entry)
    BY <2>2
  <2> HIDE DEF log
  <2>4. t \in ReplicaState /\ t.id = s.id /\ t.view = s.view /\ t.nonce = s.nonce
        /\ t.status = s.status /\ t.executed = s.executed
    BY <1>1, <2>3 DEF ReplicaState
  <2> HIDE DEF t
  <2> QED BY <1>1, <2>4, SameKeeps
<1>3. /\ y.s \in {s, Push(s, entry), Crash(s, "StateTransferGap"),
                  Crash(s, "StateTransferEntry"), t}
      /\ y.oldLastOp \in {x.oldLastOp, op}
      /\ y = [s |-> y.s, oldLastOp |-> y.oldLastOp]
  BY <1>1 DEF TransferEntry, TransferState
<1>4. Keeps(s, Crash(s, "StateTransferGap")) /\ Keeps(s, Crash(s, "StateTransferEntry"))
  BY <1>1, CrashKeeps DEF Faults
<1> HIDE DEF y, t
<1>5. Keeps(s, y.s) /\ y.s \in ReplicaState
  BY <1>1, <1>2, <1>3, <1>4, PushKeeps, KeepsItself DEF Keeps
<1> QED BY <1>1, <1>3, <1>5 DEF y, TransferState

\* The rounds of HandleStateTransfer's loop over the entries.
LEMMA TransferRounds ==
  ASSUME NEW s \in ReplicaState, NEW dump \in DumpOf
  PROVE  \E t : /\ t[0] = [s |-> s, oldLastOp |-> s.lastOp]
                /\ TransferEntries(s, dump) = t[Len(dump.entries)]
                /\ \A k \in 1 .. Len(dump.entries) :
                     t[k] = TransferEntry(t[k - 1], dump.first + k - 1, dump.entries[k])
<1> DEFINE n == Len(dump.entries)
           items == Interval(1, n)
           start == [s |-> s, oldLastOp |-> s.lastOp]
           Round(x, k) == TransferEntry(x, dump.first + k - 1, dump.entries[k])
           Run(k, t) == t = [j \in 0 .. k |-> IF j = 0 THEN start ELSE Round(t[j - 1], items[j])]
<1>1. n \in Nat /\ Len(items) = n /\ \A k \in 1 .. n : items[k] = k
  <2>1. n \in Nat
    BY DEF DumpOf
  <2> HIDE DEF n
  <2>2. /\ n < 1 => Len(Interval(1, n)) = 0
        /\ 1 <= n => Len(Interval(1, n)) = n - 1 + 1
        /\ \A k \in 1 .. Len(Interval(1, n)) : Interval(1, n)[k] = 1 + k - 1
    BY <2>1, IntervalIs
  <2> QED BY <2>1, <2>2
<1>2. TransferEntries(s, dump) = (CHOOSE t : Run(Len(items), t))[Len(items)]
  BY DEF TransferEntries, Loop
<1> HIDE DEF items, n, Round, start
<1>3. \E t : Run(n, t)
  <2> DEFINE S == {k \in 0 .. n : \E t : Run(k, t)}
  <2>1. 0 \in S
    <3>1. Run(0, [j \in 0 .. 0 |-> start])
      OBVIOUS
    <3> HIDE DEF Run
    <3> QED BY <1>1, <3>1
  <2>2. ASSUME NEW k \in 1 .. n, k - 1 \in S PROVE k \in S
    <3>1. PICK g : Run(k - 1, g)
      BY <2>2
    <3> DEFINE h == [j \in 0 .. k |-> IF j = k THEN Round(g[k - 1], items[k]) ELSE g[j]]
    <3>2. \A j \in 0 .. k : h[j] = IF j = 0 THEN start ELSE Round(h[j - 1], items[j])
      BY <1>1, <3>1
    <3>3. Run(k, h)
      BY <3>2
    <3> HIDE DEF Run, h
    <3> QED BY <1>1, <3>3
  <2> HIDE DEF S
  <2>3. n \in S
    BY <1>1, <2>1, <2>2, RoundInduction DEF S
  <2> QED BY <2>3 DEF S
<1>4. PICK t : Run(n, t) /\ TransferEntries(s, dump) = t[n]
  BY <1>1, <1>2, <1>3
<1>5. t[0] = start /\ \A k \in 1 .. n : t[k] = Round(t[k - 1], k)
  BY <1>1, <1>4
<1> QED BY <1>4, <1>5 DEF n, Round, start

\* HandleStateTransfer's loop, by induction on its rounds.
LEMMA TransferEntriesKeeps ==
  ASSUME NEW s \in ReplicaState, NEW dump \in DumpOf
  PROVE  /\ TransferEntries(s, dump) \in TransferState
         /\ Keeps(s, TransferEntries(s, dump).s)
<1> DEFINE n == Len(dump.entries)
<1>1. PICK t : /\ t[0] = [s |-> s, oldLastOp |-> s.lastOp]
               /\ TransferEntries(s, dump) = t[n]
               /\ \A k \in 1 .. n :
                    t[k] = TransferEntry(t[k - 1], dump.first + k - 1, dump.entries[k])
  BY TransferRounds
<1>2. n \in Nat /\ dump.first \in Nat \ {0} /\ \A k \in 1 .. n : dump.entries[k] \in Entry
  BY DEF DumpOf
<1> HIDE DEF n
<1> DEFINE S == {k \in 0 .. n : t[k] \in TransferState /\ Keeps(s, t[k].s)}
<1>3. 0 \in S
  <2>1. t[0] \in TransferState /\ t[0].s = s
    BY <1>1, FieldTypes DEF TransferState
  <2> QED BY <1>2, <2>1, KeepsItself
<1>4. ASSUME NEW k \in 1 .. n, k - 1 \in S PROVE k \in S
  <2> DEFINE x == t[k - 1]
             y == t[k]
  <2>1. x \in TransferState /\ Keeps(s, x.s) /\ dump.first + k - 1 \in Nat \ {0}
    BY <1>2, <1>4
  <2>2. y = TransferEntry(x, dump.first + k - 1, dump.entries[k])
    BY <1>1
  <2> HIDE DEF x, y
  <2>3. y \in TransferState /\ Keeps(x.s, y.s)
    BY <1>2, <2>1, <2>2, TransferEntryKeeps
  <2>4. Keeps(s, y.s)
    BY <2>1, <2>3, KeepsTransitive
  <2> QED BY <1>2, <2>3, <2>4 DEF y
<1> HIDE DEF S
<1>5. n \in S
  BY <1>2, <1>3, <1>4, RoundInduction DEF S
<1> QED BY <1>1, <1>5 DEF S

\* The rounds of the loop over the PREPAREs that were kept.
LEMMA PendingRounds ==
  ASSUME NEW s \in ReplicaState
  PROVE  \E t : /\ t[0] = [s EXCEPT !.pendingPrepares = << >>]
                /\ HandlePending(s) = t[Len(s.pendingPrepares)]
                /\ \A k \in 1 .. Len(s.pendingPrepares) :
                     t[k] = IF t[k - 1].status = "crashed" THEN t[k - 1]
                            ELSE HandlePrepare(t[k - 1], s.pendingPrepares[k])
<1> DEFINE ps == s.pendingPrepares
           n == Len(ps)
           start == [s EXCEPT !.pendingPrepares = << >>]
           Round(u, p) == Then(u, LAMBDA v : HandlePrepare(v, p))
           Run(k, t) == t = [j \in 0 .. k |-> IF j = 0 THEN start ELSE Round(t[j - 1], ps[j])]
<1>1. n \in Nat
  BY FieldTypes
<1>2. HandlePending(s) = (CHOOSE t : Run(n, t))[n]
  BY DEF HandlePending, Loop, Then
<1>r. \A u, p : Round(u, p) = IF u.status = "crashed" THEN u ELSE HandlePrepare(u, p)
  BY DEF Then
<1> HIDE DEF ps, n, Round, start
<1>3. \E t : Run(n, t)
  <2> DEFINE S == {k \in 0 .. n : \E t : Run(k, t)}
  <2>1. 0 \in S
    <3>1. Run(0, [j \in 0 .. 0 |-> start])
      OBVIOUS
    <3> HIDE DEF Run
    <3> QED BY <1>1, <3>1
  <2>2. ASSUME NEW k \in 1 .. n, k - 1 \in S PROVE k \in S
    <3>1. PICK g : Run(k - 1, g)
      BY <2>2
    <3> DEFINE h == [j \in 0 .. k |-> IF j = k THEN Round(g[k - 1], ps[k]) ELSE g[j]]
    <3>2. \A j \in 0 .. k : h[j] = IF j = 0 THEN start ELSE Round(h[j - 1], ps[j])
      BY <1>1, <3>1
    <3>3. Run(k, h)
      BY <3>2
    <3> HIDE DEF Run, h
    <3> QED BY <1>1, <3>3
  <2> HIDE DEF S
  <2>3. n \in S
    BY <1>1, <2>1, <2>2, RoundInduction DEF S
  <2> QED BY <2>3 DEF S
<1>4. PICK t : Run(n, t) /\ HandlePending(s) = t[n]
  BY <1>2, <1>3
<1>5. t[0] = start /\ \A k \in 1 .. n : t[k] = Round(t[k - 1], ps[k])
  BY <1>1, <1>4
<1> QED BY <1>4, <1>5, <1>r DEF n, start, ps

\* The PREPAREs kept for the end of a transfer, handled in turn.
LEMMA HandlePendingKeeps ==
  ASSUME NEW s \in ReplicaState
  PROVE  Keeps(s, HandlePending(s))
<1> DEFINE ps == s.pendingPrepares
           n == Len(ps)
<1>0. n \in Nat /\ \A k \in 1 .. n : ps[k] \in PrepareMsgs
  BY FieldTypes
<1>1. PICK t : /\ t[0] = [s EXCEPT !.pendingPrepares = << >>] /\ HandlePending(s) = t[n]
               /\ \A k \in 1 .. n :
                    t[k] = IF t[k - 1].status = "crashed" THEN t[k - 1]
                           ELSE HandlePrepare(t[k - 1], ps[k])
  BY PendingRounds
<1> HIDE DEF ps, n
<1> DEFINE S == {k \in 0 .. n : Keeps(s, t[k])}
<1>2. 0 \in S
  <2> DEFINE u == [s EXCEPT !.pendingPrepares = << >>]
  <2>1. u \in ReplicaState /\ u.id = s.id /\ u.view = s.view /\ u.nonce = s.nonce
        /\ u.status = s.status /\ u.executed = s.executed
    <3>1. << >> \in Seq(PrepareMsgs)
      OBVIOUS
    <3> QED BY <3>1 DEF ReplicaState
  <2> HIDE DEF u
  <2>2. Keeps(s, u)
    BY <2>1, SameKeeps
  <2> QED BY <1>0, <1>1, <2>2 DEF u
<1>3. ASSUME NEW k \in 1 .. n, k - 1 \in S PROVE k \in S
  <2>1. Keeps(s, t[k - 1]) /\ t[k - 1] \in ReplicaState
    BY <1>0, <1>3 DEF Keeps
  <2>2. Keeps(t[k - 1], t[k])
    BY <1>0, <1>1, <2>1, HandlePrepareKeeps, KeepsItself
  <2>3. Keeps(s, t[k])
    BY <2>1, <2>2, KeepsTransitive
  <2> QED BY <1>0, <2>3
<1> HIDE DEF S
<1>4. n \in S
  BY <1>0, <1>2, <1>3, RoundInduction DEF S
<1> QED BY <1>1, <1>4 DEF S

-----------------------------------------------------------------------------
\* What every operation of a process does: it never goes back.

Forward(s, t) ==
    /\ t \in ReplicaState
    /\ t.id = s.id /\ t.nonce = s.nonce /\ t.view >= s.view
    /\ s.status = "normal" /\ t.status = "viewChange" => t.view > s.view
    /\ t.status = "recovering" => s.status = "recovering" /\ t.view = s.view
    /\ Grows(s.executed, t.executed)

\* What keeps the view does not go back.
LEMMA KeepsIsForward ==
  ASSUME NEW s \in ReplicaState, NEW t, Keeps(s, t)
  PROVE  Forward(s, t)
BY FieldTypes DEF Keeps, Forward

\* A step forward and an operation that keeps the view is a step forward.
LEMMA ForwardThenKeeps ==
  ASSUME NEW s \in ReplicaState, NEW t, NEW u, Forward(s, t), Keeps(t, u)
  PROVE  Forward(s, u)
<1>1. /\ Len(s.executed) \in Nat /\ Len(t.executed) \in Nat /\ Len(u.executed) \in Nat
      /\ s.view \in Nat /\ t.view \in Nat /\ u.view \in Nat
  BY FieldTypes DEF Forward, Keeps
<1>2. Grows(s.executed, u.executed)
  BY <1>1 DEF Forward, Keeps, Grows
<1> QED BY <1>1, <1>2 DEF Forward, Keeps

\* EnterView after statements that did not change the view; what it leaves of
\* the record.
LEMMA EnterViewForward ==
  ASSUME NEW s \in ReplicaState, NEW t, Keeps(s, t), NEW view \in Nat, s.view <= view,
         NEW op \in Nat
  PROVE  /\ Forward(s, EnterView(t, view))
         /\ Forward(s, [EnterView(t, view) EXCEPT !.lastOp = op])
<1>1. t \in ReplicaState /\ t.id = s.id /\ t.nonce = s.nonce /\ Grows(s.executed, t.executed)
  BY DEF Keeps
<1> DEFINE u == EnterView(t, view)
           w == [EnterView(t, view) EXCEPT !.lastOp = op]
<1>2. /\ u \in ReplicaState /\ u.id = t.id /\ u.nonce = t.nonce /\ u.view = view
      /\ u.status = "normal" /\ u.executed = t.executed
  BY <1>1 DEF EnterView, NoQuorum, ReplicaState, Ids
<1>3. /\ w \in ReplicaState /\ w.id = t.id /\ w.nonce = t.nonce /\ w.view = view
      /\ w.status = "normal" /\ w.executed = t.executed
  <2> HIDE DEF u
  <2>1. w = [u EXCEPT !.lastOp = op]
    BY DEF u
  <2> QED BY <1>2, <2>1 DEF ReplicaState
<1> HIDE DEF u, w
<1>4. Forward(s, u) /\ Forward(s, w)
  BY <1>1, <1>2, <1>3, FieldTypes DEF Forward
<1> QED BY <1>4 DEF u, w

\* HandleStateTransfer enters the sender's view or stays in its own.
LEMMA HandleStateTransferForward ==
  ASSUME NEW s \in ReplicaState, NEW m \in Transfers
  PROVE  Forward(s, HandleStateTransfer(s, m))
<1>1. m.view \in Nat /\ m.op \in Nat /\ m.dump \in DumpOf
  BY DEF Transfers
<1>2. CASE m.view < s.view
  BY <1>2, KeepsItself, KeepsIsForward DEF HandleStateTransfer
<1>3. CASE ~(m.view < s.view)
  <2> DEFINE x == TransferEntries(s, m.dump)
             p == x.s
             q == Then(p, LAMBDA t : IF m.view > t.view THEN EnterView(t, m.view) ELSE t)
             u == Then(q, LAMBDA t : IF m.op > t.lastOp THEN Crash(t, "StateTransferShort") ELSE t)
             v == Then(u, LAMBDA t : CommitUpTo(t, m.op))
             w == Then(v, LAMBDA t : SendPrepareOKs(t, x.oldLastOp))
             z == Then(w, HandlePending)
  <2>1. HandleStateTransfer(s, m) = z
    BY <1>3 DEF HandleStateTransfer, Then
  <2>2. Keeps(s, p) /\ x.oldLastOp \in Nat /\ p \in ReplicaState /\ p.view = s.view
    BY <1>1, TransferEntriesKeeps DEF TransferState, Keeps
  <2> HIDE DEF x, p
  <2>a. q = IF p.status = "crashed" THEN p
             ELSE IF m.view > p.view THEN EnterView(p, m.view) ELSE p
    BY DEF Then
  <2> HIDE DEF q
  <2>b. u = IF q.status = "crashed" THEN q
             ELSE IF m.op > q.lastOp THEN Crash(q, "StateTransferShort") ELSE q
    BY DEF Then
  <2> HIDE DEF u
  <2>c. v = IF u.status = "crashed" THEN u ELSE CommitUpTo(u, m.op)
    BY DEF Then
  <2> HIDE DEF v
  <2>d. w = IF v.status = "crashed" THEN v ELSE SendPrepareOKs(v, x.oldLastOp)
    BY DEF Then
  <2> HIDE DEF w
  <2>e. z = IF w.status = "crashed" THEN w ELSE HandlePending(w)
    BY DEF Then
  <2> HIDE DEF z
  <2>3. Forward(s, q) /\ q \in ReplicaState
    <3>1. s.view <= m.view /\ s.lastOp \in Nat
      BY <1>1, <1>3, FieldTypes
    <3>2. Forward(s, EnterView(p, m.view))
      BY <1>1, <2>2, <3>1, EnterViewForward
    <3>3. Forward(s, p)
      BY <2>2, KeepsIsForward
    <3> QED BY <2>a, <3>2, <3>3 DEF Forward
  <2>4. Keeps(q, u) /\ u \in ReplicaState
    <3>1. Keeps(q, Crash(q, "StateTransferShort"))
      BY <2>3, CrashKeeps DEF Faults
    <3> QED BY <2>3, <2>b, <3>1, KeepsItself DEF Keeps
  <2>5. Keeps(u, v) /\ v \in ReplicaState
    BY <1>1, <2>4, <2>c, CommitUpToKeeps, KeepsItself DEF Keeps
  <2>6. Keeps(v, w) /\ w \in ReplicaState
    BY <2>2, <2>5, <2>d, SendPrepareOKsKeeps, KeepsItself DEF Keeps
  <2>7. Keeps(w, z)
    BY <2>6, <2>e, HandlePendingKeeps, KeepsItself
  <2>8. Forward(s, u)
    BY <2>3, <2>4, ForwardThenKeeps
  <2>9. Forward(s, w)
    BY <2>5, <2>6, <2>8, ForwardThenKeeps
  <2> QED BY <2>1, <2>7, <2>9, ForwardThenKeeps
<1> QED BY <1>2, <1>3

-----------------------------------------------------------------------------
\* View changes and recovery.

LEMMA StartViewChangeForward ==
  ASSUME NEW s \in ReplicaState, NEW view \in Nat, s.view <= view,
         s.status = "normal" => s.view < view
  PROVE  Forward(s, StartViewChange(s, view)) /\ StartViewChange(s, view).view = view
<1> DEFINE m == [type |-> "startViewChange", to |-> Others(s), from |-> s.id,
                 view |-> view, lastCommitted |-> s.lastCommitted]
           t == [s EXCEPT !.view = view, !.status = "viewChange"]
<1>1. m \in Message
  BY FieldTypes, OthersAreReplicas DEF Message, StartViewChanges
<1>2. t \in ReplicaState /\ t.id = s.id /\ t.view = view /\ t.nonce = s.nonce
      /\ t.status = "viewChange" /\ t.executed = s.executed
  BY DEF ReplicaState
<1>3. StartViewChange(s, view) = Send(t, m)
  BY DEF StartViewChange
<1> HIDE DEF t, m
<1>4. Forward(s, t)
  <2>1. Grows(s.executed, t.executed)
    BY <1>2, FieldTypes DEF Grows
  <2> QED BY <1>2, <2>1, FieldTypes DEF Forward
<1>5. Keeps(t, Send(t, m))
  BY <1>1, <1>2, SendKeeps
<1> QED BY <1>2, <1>3, <1>4, <1>5, ForwardThenKeeps DEF Keeps

\* Joining a view change goes to the view of the message.
LEMMA JoinForward ==
  ASSUME NEW s \in ReplicaState, NEW m, m.view \in Nat, ~StaleViewMessage(s, m)
  PROVE  Forward(s, Join(s, m)) /\ Join(s, m).view = m.view
<1>1. s.view <= m.view /\ (s.status = "normal" => s.view < m.view)
  BY FieldTypes DEF StaleViewMessage
<1>2. CASE s.status # "viewChange" \/ m.view > s.view
  BY <1>1, <1>2, StartViewChangeForward DEF Join
<1>3. CASE ~(s.status # "viewChange" \/ m.view > s.view)
  <2>1. s.view = m.view
    BY <1>1, <1>3, FieldTypes
  <2> QED BY <1>3, <2>1, KeepsItself, KeepsIsForward DEF Join
<1> QED BY <1>2, <1>3

\* The lowest commit number of a quorum is a number.
LEMMA MinCommittedTypes ==
  ASSUME NEW set, NEW own \in Nat, \A x \in set : x.lastCommitted \in Nat
  PROVE  MinCommitted(set, own) \in Nat
<1> DEFINE S == {x.lastCommitted : x \in set} \cup {own}
<1>1. S \in SUBSET Nat /\ S # {}
  OBVIOUS
<1> HIDE DEF S
<1>2. Min(S) \in S
  BY <1>1, MinOfSet
<1>3. MinCommitted(set, own) = Min(S)
  BY DEF MinCommitted, S
<1> QED BY <1>1, <1>2, <1>3

\* The last viewstamp of a log is one.
LEMMA LastViewstampTypes ==
  ASSUME NEW log \in Seq(Entry)
  PROVE  LastViewstamp(log).view \in Nat /\ LastViewstamp(log).op \in Nat
<1>1. CASE log = << >>
  BY <1>1 DEF LastViewstamp
<1>2. CASE log # << >>
  <2>1. Len(log) \in Nat /\ Found(log, Len(log))
    BY <1>2 DEF Found
  <2>2. log[Len(log)].view \in Nat
    BY <2>1, EntryTypes
  <2> QED BY <1>2, <2>1, <2>2 DEF LastViewstamp
<1> QED BY <1>1, <1>2

\* HandleStartViewChange goes to the view of the message, or drops it.
LEMMA HandleStartViewChangeForward ==
  ASSUME NEW s \in ReplicaState, NEW m \in StartViewChanges
  PROVE  Forward(s, HandleStartViewChange(s, m))
<1> DEFINE joined == Join(s, m)
           stored == Store(joined.startViewChanges, m)
           t == [joined EXCEPT !.startViewChanges = stored]
           dump == Dump(t.log, MinCommitted(t.startViewChanges, t.lastCommitted))
           a == [type |-> "doViewChange", to |-> {GetLeaderIndex(t.view)},
                 from |-> t.id, view |-> t.view,
                 lastNormalView |-> LastViewstamp(t.log).view,
                 lastOp |-> t.lastOp, lastCommitted |-> t.lastCommitted, dump |-> dump]
<1>1. m.view \in Nat
  BY DEF StartViewChanges
<1>2. CASE StaleViewMessage(s, m)
  BY <1>2, KeepsItself, KeepsIsForward DEF HandleStartViewChange
<1>3. CASE ~StaleViewMessage(s, m)
  <2>1. Forward(s, joined) /\ joined \in ReplicaState
    BY <1>1, <1>3, JoinForward DEF Forward
  <2>2. HandleStartViewChange(s, m) \in {t, Send(t, a)}
    BY <1>3 DEF HandleStartViewChange
  <2> HIDE DEF joined
  <2>3. stored \in SUBSET StartViewChanges
    BY <2>1, FieldTypes DEF Store
  <2> HIDE DEF stored
  <2>4. t \in ReplicaState /\ t.id = joined.id /\ t.view = joined.view
        /\ t.nonce = joined.nonce /\ t.status = joined.status /\ t.executed = joined.executed
    BY <2>1, <2>3 DEF ReplicaState
  <2> HIDE DEF t
  <2>5. Keeps(joined, t)
    BY <2>1, <2>4, SameKeeps
  <2>6. MinCommitted(t.startViewChanges, t.lastCommitted) \in Nat
    <3>1. \A x \in t.startViewChanges : x.lastCommitted \in Nat
      BY <2>4, FieldTypes DEF StartViewChanges
    <3> QED BY <2>4, <3>1, FieldTypes, MinCommittedTypes
  <2>7. dump \in DumpOf
    BY <2>4, <2>6, FieldTypes, DumpTypes
  <2> HIDE DEF dump
  <2>8. a \in Message
    <3>1. {GetLeaderIndex(t.view)} \in Ids
      BY <2>4, FieldTypes, LeaderIsReplica DEF Ids
    <3>2. LastViewstamp(t.log).view \in Nat
      BY <2>4, FieldTypes, LastViewstampTypes
    <3> QED BY <2>4, <2>7, <3>1, <3>2, FieldTypes DEF Message, DoViewChanges
  <2> HIDE DEF a
  <2>9. Keeps(t, Send(t, a))
    BY <2>4, <2>8, SendKeeps
  <2>10. Forward(s, t)
    BY <2>1, <2>5, ForwardThenKeeps
  <2> QED BY <2>2, <2>9, <2>10, ForwardThenKeeps
<1> QED BY <1>2, <1>3

\* A log that a message brings, installed or refused.
LEMMA InstallKeeps ==
  ASSUME NEW s \in ReplicaState, NEW log \in Seq(Entry)
  PROVE  Keeps(s, [s EXCEPT !.log = log])
<1> DEFINE t == [s EXCEPT !.log = log]
<1>1. t \in ReplicaState /\ t.id = s.id /\ t.view = s.view /\ t.nonce = s.nonce
      /\ t.status = s.status /\ t.executed = s.executed
  BY DEF ReplicaState
<1> HIDE DEF t
<1>2. Keeps(s, t)
  BY <1>1, SameKeeps
<1> QED BY <1>2 DEF t

\* Installing the latest log keeps view and executions.
LEMMA InstallLatestKeeps ==
  ASSUME NEW s \in ReplicaState, NEW x \in DoViewChanges, NEW m
  PROVE  Keeps(s, InstallLatest(s, x, m))
<1> DEFINE log == Install(RemoveAfter(s.log, x.lastOp + 1), x.dump)
<1>1. log \in Seq(Entry)
  <2>1. x.lastOp + 1 \in Nat \ {0} /\ x.dump \in DumpOf
    BY DEF DoViewChanges
  <2>2. RemoveAfter(s.log, x.lastOp + 1) \in Seq(Entry)
    BY <2>1, FieldTypes, RemoveAfterTypes
  <2> QED BY <2>1, <2>2, InstallTypes
<1>2. InstallLatest(s, x, m) \in {s, Crash(s, "DoViewChangeEmpty"), Crash(s, "DoViewChangeShort"),
                                  [s EXCEPT !.log = log]}
  BY DEF InstallLatest
<1>3. Keeps(s, Crash(s, "DoViewChangeEmpty")) /\ Keeps(s, Crash(s, "DoViewChangeShort"))
  BY CrashKeeps DEF Faults
<1> HIDE DEF log
<1> QED BY <1>1, <1>2, <1>3, InstallKeeps, KeepsItself

\* A new leader enters the view it has the quorum for.
LEMMA StartViewForward ==
  ASSUME NEW s \in ReplicaState, NEW m \in DoViewChanges, NEW garbage \in Nat, s.view <= m.view
  PROVE  Forward(s, StartView(s, m, garbage))
<1> DEFINE latest == LatestMsgs(s)
           own == LastViewstamp(s.log)
           last == CHOOSE x \in latest : TRUE
           latestOp == IF latest = {} THEN own.op ELSE last.lastOp
           minCommitted == MinCommitted(StoredFor(s, m) \cup s.doViewChanges,
                                        Min({garbage, s.lastCommitted}))
           p == IF latest = {} THEN s ELSE InstallLatest(s, last, m)
           q == Then(p, LAMBDA x : [EnterView(x, m.view) EXCEPT !.lastOp = latestOp])
           t == Then(q, LAMBDA x : IF latest = {} THEN x ELSE CommitUpTo(x, last.lastCommitted))
           Answer(x) ==
             [type |-> "startView", to |-> Others(x), view |-> x.view, lastOp |-> x.lastOp,
              lastCommitted |-> x.lastCommitted, dump |-> Dump(x.log, minCommitted)]
           z == Then(t, LAMBDA x : Send(x, Answer(x)))
           a == [type |-> "startView", to |-> Others(t), view |-> t.view, lastOp |-> t.lastOp,
                 lastCommitted |-> t.lastCommitted, dump |-> Dump(t.log, minCommitted)]
<1>1. StartView(s, m, garbage) = z
  BY DEF StartView, Then
<1>2. latest # {} => last \in DoViewChanges /\ last.lastOp \in Nat /\ last.lastCommitted \in Nat
  <2>1. latest \in SUBSET DoViewChanges
    BY FieldTypes DEF LatestMsgs
  <2> HIDE DEF latest
  <2>2. latest # {} => last \in DoViewChanges
    BY <2>1
  <2> QED BY <2>2 DEF DoViewChanges
<1>3. latestOp \in Nat
  <2>1. own.op \in Nat
    BY FieldTypes, LastViewstampTypes
  <2> HIDE DEF own, latest, last
  <2> QED BY <1>2, <2>1
<1>4. minCommitted \in Nat
  <2>1. Min({garbage, s.lastCommitted}) \in Nat
    <3>1. {garbage, s.lastCommitted} \in SUBSET Nat
      BY FieldTypes
    <3>2. Min({garbage, s.lastCommitted}) \in {garbage, s.lastCommitted}
      BY <3>1, MinOfSet
    <3> QED BY <3>1, <3>2
  <2>2. \A x \in StoredFor(s, m) \cup s.doViewChanges : x.lastCommitted \in Nat
    BY FieldTypes DEF StoredFor, StartViewChanges, DoViewChanges
  <2> QED BY <2>1, <2>2, MinCommittedTypes
<1> HIDE DEF latest, own, last, latestOp, minCommitted
<1>5. Keeps(s, p) /\ p \in ReplicaState
  BY <1>2, KeepsItself, InstallLatestKeeps DEF Keeps
<1> HIDE DEF p
<1>a. q = IF p.status = "crashed" THEN p ELSE [EnterView(p, m.view) EXCEPT !.lastOp = latestOp]
  BY DEF Then
<1> HIDE DEF q
<1>b. t = IF q.status = "crashed" THEN q
          ELSE IF latest = {} THEN q ELSE CommitUpTo(q, last.lastCommitted)
  BY DEF Then
<1> HIDE DEF t
<1>c. z = IF t.status = "crashed" THEN t ELSE Send(t, a)
  BY DEF Then
<1> HIDE DEF z
<1>6. Forward(s, q) /\ q \in ReplicaState
  <2>1. m.view \in Nat
    BY DEF DoViewChanges
  <2>2. Forward(s, [EnterView(p, m.view) EXCEPT !.lastOp = latestOp])
    BY <1>3, <1>5, <2>1, EnterViewForward
  <2>3. Forward(s, p)
    BY <1>5, KeepsIsForward
  <2> QED BY <1>a, <2>2, <2>3 DEF Forward
<1>7. Keeps(q, t) /\ t \in ReplicaState
  BY <1>2, <1>6, <1>b, KeepsItself, CommitUpToKeeps DEF Keeps
<1>8. Keeps(t, Send(t, a))
  <2>1. Dump(t.log, minCommitted) \in DumpOf
    BY <1>4, <1>7, FieldTypes, DumpTypes
  <2>2. a \in Message
    BY <1>7, <2>1, FieldTypes, OthersAreReplicas DEF Message, StartViews
  <2> QED BY <1>7, <2>2, SendKeeps
<1>9. Forward(s, t)
  BY <1>6, <1>7, ForwardThenKeeps
<1> HIDE DEF a
<1> QED BY <1>1, <1>c, <1>8, <1>9, ForwardThenKeeps


\* HandleDoViewChange, up to entering the view.
LEMMA HandleDoViewChangeForward ==
  ASSUME NEW s \in ReplicaState, NEW m \in DoViewChanges, NEW garbage \in Nat
  PROVE  Forward(s, HandleDoViewChange(s, m, garbage))
<1> DEFINE joined == Join(s, m)
           stored == Store(joined.doViewChanges, m)
           t == [joined EXCEPT !.doViewChanges = stored]
           u == StartView(t, m, garbage)
<1>1. m.view \in Nat
  BY DEF DoViewChanges
<1>2. CASE StaleViewMessage(s, m)
  BY <1>2, KeepsItself, KeepsIsForward DEF HandleDoViewChange
<1>3. CASE ~StaleViewMessage(s, m)
  <2>1. Forward(s, joined) /\ joined \in ReplicaState /\ joined.view = m.view
    BY <1>1, <1>3, JoinForward DEF Forward
  <2>2. HandleDoViewChange(s, m, garbage) \in {Crash(joined, "DoViewChangeLeader"), t, u}
    BY <1>3 DEF HandleDoViewChange
  <2> HIDE DEF joined
  <2>3. stored \in SUBSET DoViewChanges
    BY <2>1, FieldTypes DEF Store
  <2> HIDE DEF stored
  <2>4. t \in ReplicaState /\ t.id = joined.id /\ t.view = joined.view
        /\ t.nonce = joined.nonce /\ t.status = joined.status /\ t.executed = joined.executed
    BY <2>1, <2>3 DEF ReplicaState
  <2> HIDE DEF t
  <2>5. Keeps(joined, t) /\ Keeps(joined, Crash(joined, "DoViewChangeLeader"))
    BY <2>1, <2>4, SameKeeps, CrashKeeps DEF Faults
  <2>6. Forward(s, t) /\ Forward(s, Crash(joined, "DoViewChangeLeader"))
    BY <2>1, <2>5, ForwardThenKeeps
  <2>7. Forward(t, u)
    BY <1>1, <2>1, <2>4, StartViewForward
  <2> HIDE DEF u
  <2>8. Forward(s, u)
    <3>1. s.view <= u.view /\ (s.status = "normal" => s.view < u.view)
      <4>1. s.view <= m.view /\ (s.status = "normal" => s.view < m.view)
        BY <1>1, <1>3, FieldTypes DEF StaleViewMessage
      <4>2. t.view = m.view /\ t.view <= u.view /\ u.view \in Nat /\ s.view \in Nat
        BY <1>1, <2>1, <2>4, <2>7, FieldTypes DEF Forward
      <4> QED BY <1>1, <4>1, <4>2
    <3>2. Len(s.executed) \in Nat /\ Len(t.executed) \in Nat /\ Len(u.executed) \in Nat
      BY <2>4, <2>7, FieldTypes DEF Forward
    <3>3. Grows(s.executed, u.executed)
      BY <2>6, <2>7, <3>2 DEF Forward, Grows
    <3> QED BY <2>6, <2>7, <3>1, <3>3 DEF Forward
  <2> QED BY <2>2, <2>6, <2>8
<1> QED BY <1>2, <1>3

\* HandleStartView enters the view of the message.
LEMMA HandleStartViewForward ==
  ASSUME NEW s \in ReplicaState, NEW m \in StartViews
  PROVE  Forward(s, HandleStartView(s, m))
<1> DEFINE log == Install(RemoveAfter(s.log, m.lastOp + 1), m.dump)
           p == IF m.dump.entries = << >>
                THEN IF m.lastCommitted = s.lastCommitted /\ m.lastOp = m.lastCommitted
                     THEN s ELSE Crash(s, "StartViewEmpty")
                ELSE IF m.dump.first > s.lastCommitted + 1 THEN Crash(s, "StartViewShort")
                ELSE [s EXCEPT !.log = log]
           q == IF p.status = "crashed" THEN p ELSE [EnterView(p, m.view) EXCEPT !.lastOp = m.lastOp]
           t == IF q.status = "crashed" THEN q ELSE CommitUpTo(q, m.lastCommitted)
           u == IF t.status = "crashed" THEN t ELSE SendPrepareOKs(t, s.lastOp)
<1>1. m.view \in Nat /\ m.lastOp \in Nat /\ m.lastCommitted \in Nat /\ m.dump \in DumpOf
  BY DEF StartViews
<1>2. HandleStartView(s, m) \in {s, Crash(s, "StartViewLeader")}
      \/ (~StaleViewMessage(s, m) /\ HandleStartView(s, m) = u)
  BY DEF HandleStartView, Then
<1>3. Keeps(s, Crash(s, "StartViewEmpty")) /\ Keeps(s, Crash(s, "StartViewShort"))
      /\ Keeps(s, Crash(s, "StartViewLeader")) /\ Keeps(s, s)
  BY CrashKeeps, KeepsItself DEF Faults
<1>4. CASE HandleStartView(s, m) \in {s, Crash(s, "StartViewLeader")}
  BY <1>3, <1>4, KeepsIsForward
<1>5. CASE ~StaleViewMessage(s, m) /\ HandleStartView(s, m) = u
  <2>1. log \in Seq(Entry)
    <3>1. RemoveAfter(s.log, m.lastOp + 1) \in Seq(Entry)
      BY <1>1, FieldTypes, RemoveAfterTypes
    <3> QED BY <1>1, <3>1, InstallTypes
  <2> HIDE DEF log
  <2>2. Keeps(s, p) /\ p \in ReplicaState
    BY <1>3, <2>1, InstallKeeps DEF Keeps
  <2> HIDE DEF p
  <2>3. Forward(s, q) /\ q \in ReplicaState
    <3>1. s.view <= m.view
      BY <1>1, <1>5, FieldTypes DEF StaleViewMessage
    <3>2. Forward(s, [EnterView(p, m.view) EXCEPT !.lastOp = m.lastOp])
      BY <1>1, <2>2, <3>1, EnterViewForward
    <3>3. Forward(s, p)
      BY <2>2, KeepsIsForward
    <3> QED BY <3>2, <3>3 DEF Forward
  <2> HIDE DEF q
  <2>4. Keeps(q, t) /\ t \in ReplicaState
    BY <1>1, <2>3, CommitUpToKeeps, KeepsItself DEF Keeps
  <2> HIDE DEF t
  <2>5. Keeps(t, u)
    BY <2>4, FieldTypes, SendPrepareOKsKeeps, KeepsItself
  <2> HIDE DEF u
  <2>6. Forward(s, t)
    BY <2>3, <2>4, ForwardThenKeeps
  <2> QED BY <1>5, <2>5, <2>6, ForwardThenKeeps
<1> QED BY <1>2, <1>4, <1>5

\* HandleRecovery only sends.
LEMMA HandleRecoveryKeeps ==
  ASSUME NEW s \in ReplicaState, NEW m \in Recoveries
  PROVE  Keeps(s, HandleRecovery(s, m))
<1> DEFINE dump == IF AmLeader(s) THEN Dump(s.log, 0) ELSE Dump(<< >>, 0)
           a == [type |-> "recoveryResponse", to |-> {m.from}, from |-> s.id,
                 view |-> s.view, nonce |-> m.nonce,
                 lastCommitted |-> IF AmLeader(s) THEN s.lastCommitted ELSE 0,
                 lastOp |-> IF AmLeader(s) THEN s.lastOp ELSE 0, dump |-> dump]
<1>1. HandleRecovery(s, m) \in {s, Send(s, a)}
  BY DEF HandleRecovery
<1>2. dump \in DumpOf
  <2>1. << >> \in Seq(Entry) /\ s.log \in Seq(Entry)
    BY FieldTypes
  <2> QED BY <2>1, DumpTypes
<1> HIDE DEF dump
<1>3. a \in Message
  <2>1. {m.from} \in Ids /\ m.nonce \in Nat
    BY DEF Recoveries, Ids
  <2> QED BY <1>2, <2>1, FieldTypes DEF Message, Responses
<1> HIDE DEF a
<1> QED BY <1>1, <1>3, KeepsItself, SendKeeps

\* A replica that recovers has view 0 until then.
LEMMA HandleRecoveryResponseForward ==
  ASSUME NEW s \in ReplicaState, s.status = "recovering" => s.view = 0, NEW m \in Responses
  PROVE  Forward(s, HandleRecoveryResponse(s, m))
<1> DEFINE stored == {x \in s.recoveryResponses : x.from # m.from} \cup {m}
           t == [s EXCEPT !.recoveryResponses = stored]
           highestView == Max({x.view : x \in t.recoveryResponses})
           leaderResponses == {x \in t.recoveryResponses :
                                 /\ x.from = GetLeaderIndex(highestView)
                                 /\ x.view = highestView}
           x == CHOOSE y \in leaderResponses : TRUE
           log == Install(t.log, x.dump)
           p == [t EXCEPT !.log = log]
           q == [EnterView(p, x.view) EXCEPT !.lastOp = x.lastOp]
           u == CommitUpTo(q, x.lastCommitted)
<1>1. stored \in SUBSET Responses
  BY FieldTypes
<1>2. HandleRecoveryResponse(s, m) \in {s, t, Crash(t, "RecoveryLeader")}
      \/ (s.status = "recovering" /\ leaderResponses # {} /\ HandleRecoveryResponse(s, m) = u)
  BY DEF HandleRecoveryResponse
<1> HIDE DEF stored
<1>3. t \in ReplicaState /\ t.id = s.id /\ t.view = s.view /\ t.nonce = s.nonce
      /\ t.status = s.status /\ t.executed = s.executed /\ t.recoveryResponses = stored
  BY <1>1 DEF ReplicaState
<1>4. leaderResponses \in SUBSET Responses
  BY <1>1, <1>3
<1> HIDE DEF t, leaderResponses
<1>5. Keeps(s, t) /\ Keeps(t, Crash(t, "RecoveryLeader"))
  BY <1>3, SameKeeps, CrashKeeps DEF Faults
<1>6. CASE HandleRecoveryResponse(s, m) \in {s, t, Crash(t, "RecoveryLeader")}
  <2>1. Forward(s, s) /\ Forward(s, t)
    BY <1>5, KeepsItself, KeepsIsForward
  <2>2. Forward(s, Crash(t, "RecoveryLeader"))
    BY <1>5, <2>1, ForwardThenKeeps
  <2> QED BY <1>6, <2>1, <2>2
<1>7. CASE s.status = "recovering" /\ leaderResponses # {} /\ HandleRecoveryResponse(s, m) = u
  <2>1. x \in Responses
    BY <1>4, <1>7
  <2> HIDE DEF x
  <2>2. x.view \in Nat /\ x.lastOp \in Nat /\ x.lastCommitted \in Nat /\ x.dump \in DumpOf
    BY <2>1 DEF Responses
  <2>3. log \in Seq(Entry)
    BY <1>3, <2>2, FieldTypes, InstallTypes
  <2> HIDE DEF log
  <2>4. Keeps(t, p)
    BY <1>3, <2>3, InstallKeeps
  <2> HIDE DEF p
  <2>5. Keeps(s, p)
    BY <1>5, <2>4, KeepsTransitive
  <2>6. Forward(s, q) /\ q \in ReplicaState
    <3>1. s.view <= x.view
      BY <1>7, <2>2
    <3> QED BY <2>2, <2>5, <3>1, EnterViewForward DEF Forward
  <2> HIDE DEF q
  <2>7. Keeps(q, u)
    BY <2>2, <2>6, CommitUpToKeeps
  <2> QED BY <1>7, <2>6, <2>7, ForwardThenKeeps
<1> QED BY <1>2, <1>6, <1>7

-----------------------------------------------------------------------------
\* Type correctness.

\* The type of a message tells its fields.
LEMMA MessageKinds ==
  ASSUME NEW m \in Message
  PROVE  /\ m.type = "request" => m \in RequestMsgs
         /\ m.type = "reply" => m \in ReplyMsgs
         /\ m.type = "prepare" => m \in PrepareMsgs
         /\ m.type = "prepareOK" => m \in PrepareOKMsgs
         /\ m.type = "commit" => m \in CommitMsgs
         /\ m.type = "requestStateTransfer" => m \in TransferRequests
         /\ m.type = "stateTransfer" => m \in Transfers
         /\ m.type = "startViewChange" => m \in StartViewChanges
         /\ m.type = "doViewChange" => m \in DoViewChanges
         /\ m.type = "startView" => m \in StartViews
         /\ m.type = "recovery" => m \in Recoveries
         /\ m.type = "recoveryResponse" => m \in Responses
<1>1. /\ m \in RequestMsgs => m.type = "request"
      /\ m \in ReplyMsgs => m.type = "reply"
      /\ m \in PrepareMsgs => m.type = "prepare"
      /\ m \in PrepareOKMsgs => m.type = "prepareOK"
  BY DEF RequestMsgs, ReplyMsgs, PrepareMsgs, PrepareOKMsgs
<1>2. /\ m \in CommitMsgs => m.type = "commit"
      /\ m \in TransferRequests => m.type = "requestStateTransfer"
      /\ m \in Transfers => m.type = "stateTransfer"
      /\ m \in StartViewChanges => m.type = "startViewChange"
  BY DEF CommitMsgs, TransferRequests, Transfers, StartViewChanges
<1>3. /\ m \in DoViewChanges => m.type = "doViewChange"
      /\ m \in StartViews => m.type = "startView"
      /\ m \in Recoveries => m.type = "recovery"
      /\ m \in Responses => m.type = "recoveryResponse"
  BY DEF DoViewChanges, StartViews, Recoveries, Responses
<1> QED BY <1>1, <1>2, <1>3 DEF Message

\* Only a restart makes a replica recover, and it starts in view 0.
RecoversFromZero == \A r \in ReplicaIds : rep[r].status = "recovering" => rep[r].view = 0

\* A step of the process of r that does not go back.
Advances(r) == \E s : Forward(rep[r], s) /\ Step(r, s)

\* What such a step leaves in the variables.
LEMMA StepIs ==
  ASSUME TypeOK, NEW r \in ReplicaIds, NEW s \in ReplicaState, s.id = r, Step(r, s)
  PROVE  /\ rep' \in [ReplicaIds -> ReplicaState]
         /\ \A q \in ReplicaIds \ {r} : rep'[q] = rep[q]
         /\ rep'[r] = [s EXCEPT !.out = {}]
         /\ rep'[r].id = r /\ rep'[r].out = {} /\ rep'[r].view = s.view
         /\ rep'[r].nonce = s.nonce /\ rep'[r].status = s.status
         /\ rep'[r].executed = s.executed
         /\ msgs' = msgs \cup {m \in s.out : m.type \notin Lost}
         /\ msgs' \subseteq Message /\ client' = client
<1> DEFINE t == [s EXCEPT !.out = {}]
<1>1. t \in ReplicaState
  BY DEF ReplicaState
<1>2. t.id = r /\ t.out = {} /\ t.view = s.view /\ t.nonce = s.nonce /\ t.status = s.status
      /\ t.executed = s.executed
  BY DEF ReplicaState
<1>3. rep' = [rep EXCEPT ![r] = t] /\ msgs' = msgs \cup {m \in s.out : m.type \notin Lost}
      /\ client' = client
  BY DEF Step
<1> HIDE DEF t
<1>4. rep' \in [ReplicaIds -> ReplicaState] /\ rep'[r] = t
      /\ \A q \in ReplicaIds \ {r} : rep'[q] = rep[q]
  BY <1>1, <1>3 DEF TypeOK
<1>5. msgs' \subseteq Message
  BY <1>3, FieldTypes DEF TypeOK
<1> QED BY <1>2, <1>3, <1>4, <1>5 DEF t

\* The record of a restarted process.
LEMMA FreshTypes ==
  ASSUME NEW r \in ReplicaIds, NEW status \in {"normal", "viewChange", "recovering", "crashed"},
         NEW nonce \in Nat
  PROVE  Fresh(r, status, nonce) \in ReplicaState
<1>1. NoQuorum \in [1 .. MaxOp -> Ids]
  BY DEF NoQuorum, Ids
<1>2. [c \in Clients |-> [id |-> 0, replied |-> FALSE, op |-> 0]]
      \in [Clients -> [id : Nat, replied : BOOLEAN, op : Nat]]
  OBVIOUS
<1>3. << >> \in Seq(Entry) /\ << >> \in Seq(Request) /\ << >> \in Seq(PrepareMsgs)
  OBVIOUS
<1>4. "none" \in Faults
  BY DEF Faults
<1> QED BY <1>1, <1>2, <1>3, <1>4 DEF Fresh, ReplicaState

\* Every handler and every timer is such a step.
LEMMA HandlersAdvance ==
  ASSUME TypeOK, RecoversFromZero, NEW r \in ReplicaIds
  PROVE  /\ ReceiveRequest(r) => Advances(r)
         /\ ReceivePrepare(r) => Advances(r)
         /\ ReceivePrepareOK(r) => Advances(r)
         /\ ReceiveCommit(r) => Advances(r)
         /\ ReceiveRequestStateTransfer(r) => Advances(r)
         /\ ReceiveStateTransfer(r) => Advances(r)
         /\ ReceiveStartViewChange(r) => Advances(r)
         /\ ReceiveDoViewChange(r) => Advances(r)
         /\ ReceiveStartView(r) => Advances(r)
         /\ ReceiveRecovery(r) => Advances(r)
         /\ ReceiveRecoveryResponse(r) => Advances(r)
<1> DEFINE s == rep[r]
<1>1. s \in ReplicaState /\ (s.status = "recovering" => s.view = 0)
  BY DEF TypeOK, RecoversFromZero
<1>2. \A type : \A m \in Inbox(r, type) : m \in Message /\ m.type = type
  BY DEF Inbox, TypeOK
<1>3. ReceiveRequest(r) => Advances(r)
  BY <1>1, <1>2, MessageKinds, HandleRequestKeeps, KeepsIsForward DEF ReceiveRequest, Advances
<1>4. ReceivePrepare(r) => Advances(r)
  BY <1>1, <1>2, MessageKinds, HandlePrepareKeeps, KeepsIsForward DEF ReceivePrepare, Advances
<1>5. ReceivePrepareOK(r) => Advances(r)
  BY <1>1, <1>2, MessageKinds, HandlePrepareOKKeeps, KeepsIsForward DEF ReceivePrepareOK, Advances
<1>6. ReceiveCommit(r) => Advances(r)
  BY <1>1, <1>2, MessageKinds, HandleCommitKeeps, KeepsIsForward DEF ReceiveCommit, Advances
<1>7. ReceiveRequestStateTransfer(r) => Advances(r)
  BY <1>1, <1>2, MessageKinds, HandleRequestStateTransferKeeps, KeepsIsForward
     DEF ReceiveRequestStateTransfer, Advances
<1>8. ReceiveStateTransfer(r) => Advances(r)
  BY <1>1, <1>2, MessageKinds, HandleStateTransferForward DEF ReceiveStateTransfer, Advances
<1>9. ReceiveStartViewChange(r) => Advances(r)
  BY <1>1, <1>2, MessageKinds, HandleStartViewChangeForward DEF ReceiveStartViewChange, Advances
<1>10. ReceiveDoViewChange(r) => Advances(r)
  <2>1. \A m : Unspecified(s, m) \subseteq Nat
    BY <1>1, FieldTypes DEF Unspecified
  <2> QED BY <1>1, <1>2, <2>1, MessageKinds, HandleDoViewChangeForward
          DEF ReceiveDoViewChange, Advances
<1>11. ReceiveStartView(r) => Advances(r)
  BY <1>1, <1>2, MessageKinds, HandleStartViewForward DEF ReceiveStartView, Advances
<1>12. ReceiveRecovery(r) => Advances(r)
  BY <1>1, <1>2, MessageKinds, HandleRecoveryKeeps, KeepsIsForward DEF ReceiveRecovery, Advances
<1>13. ReceiveRecoveryResponse(r) => Advances(r)
  BY <1>1, <1>2, MessageKinds, HandleRecoveryResponseForward DEF ReceiveRecoveryResponse, Advances
<1> QED BY <1>3, <1>4, <1>5, <1>6, <1>7, <1>8, <1>9, <1>10, <1>11, <1>12, <1>13

\* So is every timer.
LEMMA TimersAdvance ==
  ASSUME TypeOK, NEW r \in ReplicaIds
  PROVE  /\ ViewChangeTimeout(r) => Advances(r)
         /\ NullCommitTimeout(r) => Advances(r)
         /\ CloseBatchTimeout(r) => Advances(r)
         /\ StateTransferTimeout(r) => Advances(r)
<1> DEFINE s == rep[r]
<1>1. s \in ReplicaState
  BY DEF TypeOK
<1>2. ViewChangeTimeout(r) => Advances(r)
  <2>1. s.view + 1 \in Nat /\ s.view < s.view + 1
    BY <1>1, FieldTypes
  <2>2. Forward(s, StartViewChange(s, s.view + 1))
    BY <1>1, <2>1, FieldTypes, StartViewChangeForward
  <2> QED BY <2>2 DEF ViewChangeTimeout, Advances
<1>3. NullCommitTimeout(r) => Advances(r)
  BY <1>1, SendCommitKeeps, KeepsIsForward DEF NullCommitTimeout, Advances
<1>4. CloseBatchTimeout(r) => Advances(r)
  BY <1>1, CloseBatchKeeps, KeepsIsForward DEF CloseBatchTimeout, Advances
<1>5. StateTransferTimeout(r) => Advances(r)
  <2> DEFINE t == [s EXCEPT !.lastRequest = [view |-> 0, op |-> 0]]
  <2>1. t \in ReplicaState /\ t.id = s.id /\ t.view = s.view /\ t.nonce = s.nonce
        /\ t.status = s.status /\ t.executed = s.executed
    BY <1>1 DEF ReplicaState
  <2>2. Forward(s, t)
    BY <1>1, <2>1, SameKeeps, KeepsIsForward
  <2> QED BY <2>2 DEF StateTransferTimeout, Advances
<1> QED BY <1>2, <1>3, <1>4, <1>5

\* A restart is a step of its own.
LEMMA RestartIs ==
  ASSUME TypeOK, NEW r \in ReplicaIds, Restart(r)
  PROVE  \E s \in ReplicaState : /\ Step(r, s) /\ s.id = r /\ s.view = 0
                                 /\ s.nonce = rep[r].nonce + 1
<1> DEFINE s == Fresh(r, "recovering", rep[r].nonce + 1)
           m == [type |-> "recovery", to |-> Others(s), from |-> r, nonce |-> s.nonce]
<1>1. rep[r].nonce + 1 \in Nat
  BY FieldTypes DEF TypeOK
<1>2. s \in ReplicaState /\ s.id = r /\ s.view = 0 /\ s.nonce = rep[r].nonce + 1
  BY <1>1, FreshTypes DEF Fresh
<1>3. m \in Message
  BY <1>1, <1>2, OthersAreReplicas DEF Message, Recoveries
<1>4. Step(r, Send(s, m))
  BY DEF Restart
<1> HIDE DEF s, m
<1>5. Send(s, m) \in ReplicaState
  BY <1>2, <1>3, SendKeeps DEF Keeps
<1>6. Send(s, m).id = r /\ Send(s, m).view = 0 /\ Send(s, m).nonce = rep[r].nonce + 1
  BY <1>2, <1>3, SendKeeps DEF Keeps
<1> QED BY <1>4, <1>5, <1>6

\* Every step either advances one replica, restarts one, or is a client's.
LEMMA StepKinds ==
  ASSUME TypeOK, RecoversFromZero, Next
  PROVE  \/ \E r \in ReplicaIds : Advances(r)
         \/ \E r \in ReplicaIds : Restart(r)
         \/ \E c \in Clients : Invoke(c) \/ HandleReply(c)
BY HandlersAdvance, TimersAdvance DEF Next

\* The processes start with typed records in view 0.
LEMMA TypesInit ==
  ASSUME Init
  PROVE  TypeOK /\ RecoversFromZero
<1>1. \A r \in ReplicaIds : LET s == Fresh(r, IF r \in Down THEN "crashed" ELSE "normal", 0) IN
        s \in ReplicaState /\ s.id = r /\ s.out = {} /\ s.view = 0
  BY FreshTypes DEF Fresh
<1> QED BY <1>1 DEF Init, TypeOK, RecoversFromZero

\* One step keeps the types.
LEMMA TypesNext ==
  ASSUME TypeOK, RecoversFromZero, [Next]_vars
  PROVE  TypeOK' /\ RecoversFromZero'
<1>1. CASE UNCHANGED vars
  BY <1>1 DEF vars, TypeOK, RecoversFromZero
<1>2. ASSUME NEW r \in ReplicaIds, Advances(r) PROVE TypeOK' /\ RecoversFromZero'
  <2>1. PICK s : Forward(rep[r], s) /\ Step(r, s)
    BY <1>2 DEF Advances
  <2>2. s \in ReplicaState /\ s.id = r
    BY <2>1 DEF Forward, TypeOK
  <2>3. s.status = "recovering" => s.view = 0
    BY <2>1 DEF Forward, RecoversFromZero
  <2>4. /\ rep' \in [ReplicaIds -> ReplicaState] /\ \A q \in ReplicaIds \ {r} : rep'[q] = rep[q]
        /\ rep'[r].id = r /\ rep'[r].out = {} /\ rep'[r].view = s.view
        /\ rep'[r].nonce = s.nonce /\ rep'[r].status = s.status
        /\ rep'[r].executed = s.executed
        /\ msgs' \subseteq Message /\ client' = client
    BY <2>1, <2>2, StepIs
  <2> QED BY <2>3, <2>4 DEF TypeOK, RecoversFromZero
<1>3. ASSUME NEW r \in ReplicaIds, Restart(r) PROVE TypeOK' /\ RecoversFromZero'
  <2>1. PICK s \in ReplicaState : Step(r, s) /\ s.id = r /\ s.view = 0
    BY <1>3, RestartIs
  <2>2. /\ rep' \in [ReplicaIds -> ReplicaState] /\ \A q \in ReplicaIds \ {r} : rep'[q] = rep[q]
        /\ rep'[r].id = r /\ rep'[r].out = {} /\ rep'[r].view = s.view
        /\ rep'[r].nonce = s.nonce /\ rep'[r].status = s.status
        /\ rep'[r].executed = s.executed
        /\ msgs' \subseteq Message /\ client' = client
    BY <2>1, StepIs
  <2> QED BY <2>1, <2>2 DEF TypeOK, RecoversFromZero
<1>4. ASSUME NEW c \in Clients, Invoke(c) PROVE TypeOK' /\ RecoversFromZero'
  <2> DEFINE id == client[c].lastReqId + 1
             m == [type |-> "request", to |-> ReplicaIds, req |-> [client |-> c, id |-> id]]
  <2>1. id \in Nat
    BY DEF TypeOK
  <2>2. client' = [client EXCEPT ![c] = [lastReqId |-> id, pending |-> id]]
        /\ msgs' = msgs \cup {m} /\ rep' = rep
    BY <1>4 DEF Invoke
  <2> HIDE DEF id
  <2>3. m \in Message
    BY <2>1 DEF Message, RequestMsgs, Request, Ids
  <2> QED BY <2>1, <2>2, <2>3 DEF TypeOK, RecoversFromZero
<1>5. ASSUME NEW c \in Clients, HandleReply(c) PROVE TypeOK' /\ RecoversFromZero'
  BY <1>5 DEF HandleReply, TypeOK, RecoversFromZero
<1> QED BY <1>1, <1>2, <1>3, <1>4, <1>5, StepKinds

\* Every field of a replica and of a message has its type, through view changes,
\* state transfers and recoveries: what the fields of replica.h and the protobuf
\* messages declare.
THEOREM TypeCorrect == Spec => []TypeOK
<1>1. Init => TypeOK /\ RecoversFromZero
  BY TypesInit
<1>2. TypeOK /\ RecoversFromZero /\ [Next]_vars => TypeOK' /\ RecoversFromZero'
  BY TypesNext
<1> QED BY <1>1, <1>2, PTL DEF Spec

\* One step of the whole system, seen from a replica that does not restart in it.
LEMMA ForwardStep ==
  ASSUME TypeOK, RecoversFromZero, Next, NEW r \in ReplicaIds, rep'[r].nonce = rep[r].nonce
  PROVE  /\ rep'[r].view >= rep[r].view
         /\ rep[r].status = "normal" /\ rep'[r].status = "viewChange"
               => rep'[r].view > rep[r].view
         /\ IsPrefix(rep[r].executed, rep'[r].executed)
<1>0. rep[r] \in ReplicaState /\ rep[r].view \in Nat /\ rep[r].nonce \in Nat
      /\ rep[r].executed \in Seq(Request)
  BY FieldTypes DEF TypeOK
<1>1. CASE rep'[r] = rep[r]
  BY <1>0, <1>1 DEF IsPrefix
<1>2. ASSUME Advances(r) PROVE Forward(rep[r], rep'[r])
  <2>1. PICK s : Forward(rep[r], s) /\ Step(r, s)
    BY <1>2 DEF Advances
  <2>2. s \in ReplicaState /\ s.id = r
    BY <2>1 DEF Forward, TypeOK
  <2>3. /\ rep' \in [ReplicaIds -> ReplicaState] /\ \A q \in ReplicaIds \ {r} : rep'[q] = rep[q]
        /\ rep'[r].id = r /\ rep'[r].out = {} /\ rep'[r].view = s.view
        /\ rep'[r].nonce = s.nonce /\ rep'[r].status = s.status
        /\ rep'[r].executed = s.executed
        /\ msgs' \subseteq Message /\ client' = client
    BY <2>1, <2>2, StepIs
  <2>4. rep[r].id = r
    BY DEF TypeOK
  <2> QED BY <2>1, <2>2, <2>3, <2>4 DEF Forward
<1>3. CASE Advances(r)
  <2>1. rep'[r].executed \in Seq(Request)
    BY <1>2, <1>3, FieldTypes DEF Forward
  <2>2. IsPrefix(rep[r].executed, rep'[r].executed)
    <3> DEFINE a == rep[r].executed
               b == rep'[r].executed
    <3>1. Grows(a, b) /\ a \in Seq(Request) /\ b \in Seq(Request)
      BY <1>0, <1>2, <1>3, <2>1 DEF Forward
    <3> HIDE DEF a, b
    <3>2. SubSeq(a, 1, Len(a)) = SubSeq(b, 1, Len(a)) /\ Len(a) <= Len(b)
      BY <3>1 DEF Grows
    <3> QED BY <3>2 DEF IsPrefix, a, b
  <2> QED BY <1>2, <1>3, <2>2 DEF Forward
<1>4. ASSUME NEW q \in ReplicaIds \ {r}, Advances(q) PROVE rep'[r] = rep[r]
  <2>1. PICK s : Forward(rep[q], s) /\ Step(q, s)
    BY <1>4 DEF Advances
  <2>2. s \in ReplicaState /\ s.id = q
    BY <2>1 DEF Forward, TypeOK
  <2> QED BY <2>1, <2>2, StepIs
<1>5. ASSUME NEW q \in ReplicaIds, Restart(q) PROVE rep'[r] = rep[r]
  <2>1. PICK s \in ReplicaState : Step(q, s) /\ s.id = q /\ s.nonce = rep[q].nonce + 1
    BY <1>5, RestartIs
  <2>2. q # r
    <3> SUFFICES ASSUME q = r PROVE FALSE
      OBVIOUS
    <3>1. rep'[q].nonce = rep[q].nonce + 1
      BY <2>1, StepIs
    <3> QED BY <1>0, <3>1
  <2> QED BY <2>1, <2>2, StepIs
<1>6. ASSUME NEW c \in Clients, Invoke(c) \/ HandleReply(c) PROVE rep'[r] = rep[r]
  BY <1>6 DEF Invoke, HandleReply
<1> QED BY <1>1, <1>3, <1>4, <1>5, <1>6, StepKinds

\* OnlyForward: no handler and no timer takes a replica back to an earlier view,
\* from a view it has entered into the view change for that same view, or away
\* from an operation it has executed.
THEOREM OnlyForwardHolds == Spec => OnlyForward
<1>1. Init => TypeOK /\ RecoversFromZero
  BY TypesInit
<1>2. TypeOK /\ RecoversFromZero /\ [Next]_vars => TypeOK' /\ RecoversFromZero'
  BY TypesNext
<1>3. TypeOK /\ RecoversFromZero /\ [Next]_vars
      => [\A r \in ReplicaIds :
            rep'[r].nonce = rep[r].nonce =>
               /\ rep'[r].view >= rep[r].view
               /\ rep[r].status = "normal" /\ rep'[r].status = "viewChange"
                     => rep'[r].view > rep[r].view
               /\ IsPrefix(rep[r].executed, rep'[r].executed)]_vars
  BY ForwardStep
<1> QED BY <1>1, <1>2, <1>3, PTL DEF Spec, OnlyForward

-----------------------------------------------------------------------------
\* The first view: no replica has left it and none has restarted.

FirstView == \A r \in ReplicaIds : rep[r].view = 0 /\ rep[r].nonce = 0

Backups == ReplicaIds \ {0}

\* The messages of the first view, each told by the log or the record it is about.
SoundPrepare(m, log) ==
    /\ m.view = 0 /\ 0 \notin m.to /\ m.batchStart > 0 /\ m.op <= Len(log)
    /\ Len(m.reqs) = m.op - m.batchStart + 1
    /\ \A k \in 1 .. Len(m.reqs) : m.reqs[k] = log[m.batchStart + k - 1].req

SoundDump(dump, log) ==
    \A k \in 1 .. Len(dump.entries) :
        dump.first + k - 1 <= Len(log) /\ dump.entries[k] = log[dump.first + k - 1]

SoundTransfer(m, log) == m.view = 0 /\ 0 \notin m.to /\ SoundDump(m.dump, log)

SoundReply(m, s) ==
    m.op > 0 => m.op <= s.lastCommitted /\ s.log[m.op].req = m.req

LeaderMessage(m, s) ==
    \/ m.type = "reply" /\ SoundReply(m, s)
    \/ m.type = "prepare" /\ SoundPrepare(m, s.log)
    \/ m.type = "commit" /\ m.view = 0 /\ 0 \notin m.to
    \/ m.type = "stateTransfer" /\ SoundTransfer(m, s.log)

BackupMessage(m, s, log) ==
    \/ m.type = "prepareOK" /\ m.view = 0 /\ m.from = s.id /\ m.op \in 1 .. Len(s.log)
    \/ m.type = "requestStateTransfer" /\ m.view = 0 /\ m.from = s.id
    \/ m.type = "stateTransfer" /\ SoundTransfer(m, log)

\* Every replica has executed what its log starts with.
InStep(s) ==
    /\ s.view = 0 /\ s.status \in {"normal", "crashed"}
    /\ s.lastOp = Len(s.log) /\ s.lastCommitted <= Len(s.log)
    /\ Len(s.executed) = s.lastCommitted
    /\ \A i \in 1 .. s.lastCommitted : s.executed[i] = s.log[i].req

\* A backup has a part of the leader's log and answers no client.
Backup(s, log) ==
    /\ InStep(s) /\ s.id # 0 /\ s.addresses = {}
    /\ Grows(s.log, log)
    /\ \A i \in 1 .. Len(s.pendingPrepares) : SoundPrepare(s.pendingPrepares[i], log)
    /\ \A m \in s.out : BackupMessage(m, s, log)

\* What a replica remembers of client c is a request it has executed.
Answered(s, c) ==
    /\ s.clientTable[c].op \in 1 .. s.lastCommitted
    /\ s.log[s.clientTable[c].op].req = [client |-> c, id |-> s.clientTable[c].id]

\* The leader's client table knows every request of its log, and what it
\* remembers as answered is executed.
Leader(s) ==
    /\ InStep(s) /\ s.id = 0
    /\ \A i \in 1 .. Len(s.log) :
          s.log[i].view = 0 /\ s.log[i].req.id <= s.clientTable[s.log[i].req.client].id
    /\ \A i, j \in 1 .. Len(s.log) : s.log[i].req = s.log[j].req => i = j
    /\ \A c \in Clients : s.clientTable[c].replied /\ s.clientTable[c].op > 0 =>
          Answered(s, c)
    /\ \A m \in s.out : LeaderMessage(m, s)

\* The backups that have an operation in their log.
Holders(op) == {r \in Backups : Len(rep[r].log) >= op}

FirstViewInv ==
    /\ \A r \in Backups : Backup(rep[r], rep[0].log)
    /\ Leader(rep[0]) /\ Len(rep[0].log) <= MaxOp
    /\ \A m \in msgs : \/ m.type = "request"
                       \/ LeaderMessage(m, rep[0])
                       \/ \E r \in Backups : BackupMessage(m, rep[r], rep[0].log)
    /\ \A op \in 1 .. MaxOp : rep[0].prepareOKs[op] \subseteq Holders(op)
    /\ rep[0].lastCommitted > 0 => Cardinality(Holders(rep[0].lastCommitted)) >= F

-----------------------------------------------------------------------------
\* Executing a part of the log.

\* From s, a replica has executed more of its log and come to t: it answered the
\* clients it knows, and its table remembers for them what it executed.
Commits(s, t) ==
    /\ t \in ReplicaState /\ InStep(t)
    /\ t.id = s.id /\ t.log = s.log /\ t.lastOp = s.lastOp /\ t.addresses = s.addresses
    /\ t.pendingPrepares = s.pendingPrepares /\ t.prepareOKs = s.prepareOKs
    /\ s.lastCommitted <= t.lastCommitted
    /\ \A c \in Clients :
          \/ t.clientTable[c] = s.clientTable[c]
          \/ s.clientTable[c].id <= t.clientTable[c].id /\ Answered(t, c)
    /\ \A m \in t.out : \/ m \in s.out
                        \/ m.type = "reply" /\ m.req.client \in s.addresses /\ SoundReply(m, t)

\* Commits is reflexive and transitive, like the rounds of CommitUpTo.
LEMMA CommitsItself ==
  ASSUME NEW s \in ReplicaState, InStep(s)
  PROVE  Commits(s, s)
<1>1. s.lastCommitted \in Nat
  BY FieldTypes
<1> QED BY <1>1 DEF Commits

\* Two parts of the log, executed one after the other.
LEMMA CommitsTransitive ==
  ASSUME NEW s \in ReplicaState, NEW t, NEW u, Commits(s, t), Commits(t, u)
  PROVE  Commits(s, u)
<1>1. /\ s.lastCommitted \in Nat /\ t.lastCommitted \in Nat /\ u.lastCommitted \in Nat
      /\ t \in ReplicaState /\ u \in ReplicaState /\ t.log = s.log /\ u.log = s.log
      /\ s.lastCommitted <= t.lastCommitted /\ t.lastCommitted <= u.lastCommitted
  BY FieldTypes DEF Commits
<1>2. ASSUME NEW c \in Clients
      PROVE  \/ u.clientTable[c] = s.clientTable[c]
             \/ s.clientTable[c].id <= u.clientTable[c].id /\ Answered(u, c)
  <2>1. s.clientTable[c].id \in Nat /\ t.clientTable[c].id \in Nat /\ u.clientTable[c].id \in Nat
    BY <1>1, FieldTypes
  <2>2. /\ \/ t.clientTable[c] = s.clientTable[c]
           \/ s.clientTable[c].id <= t.clientTable[c].id /\ Answered(t, c)
        /\ \/ u.clientTable[c] = t.clientTable[c]
           \/ t.clientTable[c].id <= u.clientTable[c].id /\ Answered(u, c)
    BY DEF Commits
  <2>3. u.clientTable[c] = t.clientTable[c] /\ Answered(t, c) => Answered(u, c)
    <3> HAVE u.clientTable[c] = t.clientTable[c] /\ Answered(t, c)
    <3>1. u.clientTable[c].op \in 1 .. u.lastCommitted
      BY <1>1 DEF Answered
    <3> QED BY <1>1, <3>1 DEF Answered
  <2> QED BY <2>1, <2>2, <2>3
<1>3. ASSUME NEW m \in u.out
      PROVE  m \in s.out \/ (m.type = "reply" /\ m.req.client \in s.addresses /\ SoundReply(m, u))
  <2>1. CASE m \in t.out /\ m \notin s.out
    <3>1. m.type = "reply" /\ m.req.client \in s.addresses /\ SoundReply(m, t)
      BY <2>1 DEF Commits
    <3>2. m \in ReplyMsgs /\ m.op \in Nat
      BY <1>1, <2>1, <3>1, FieldTypes, MessageKinds DEF ReplyMsgs
    <3> QED BY <1>1, <3>1, <3>2 DEF SoundReply
  <2>2. CASE m \notin t.out
    BY <2>2 DEF Commits
  <2> QED BY <2>1, <2>2
<1> QED BY <1>1, <1>2, <1>3 DEF Commits

\* One round of CommitUpTo.
LEMMA ExecuteNextCommits ==
  ASSUME NEW s \in ReplicaState, InStep(s), NEW op, op = s.lastCommitted + 1
  PROVE  /\ Commits(s, ExecuteNext(s, op))
         /\ ExecuteNext(s, op).lastCommitted = op \/ ExecuteNext(s, op).status = "crashed"
         /\ ExecuteNext(s, op).lastCommitted <= op
<1>0. s.lastCommitted \in Nat /\ op \in Nat /\ op > 0
  BY FieldTypes
<1>1. CASE ~Found(s.log, op)
  <2> DEFINE t == Crash(s, "CommitUpTo")
  <2>1. ExecuteNext(s, op) = t
    BY <1>1 DEF ExecuteNext
  <2>2. t \in ReplicaState
    BY CrashKeeps DEF Keeps, Faults
  <2>3. /\ t.id = s.id /\ t.view = s.view /\ t.log = s.log /\ t.lastOp = s.lastOp
        /\ t.addresses = s.addresses /\ t.pendingPrepares = s.pendingPrepares
        /\ t.prepareOKs = s.prepareOKs /\ t.lastCommitted = s.lastCommitted
        /\ t.clientTable = s.clientTable /\ t.out = s.out /\ t.executed = s.executed
        /\ t.status = "crashed"
    BY DEF Crash, ReplicaState
  <2> HIDE DEF t
  <2>4. InStep(t)
    BY <2>3 DEF InStep
  <2> QED BY <1>0, <2>1, <2>2, <2>3, <2>4 DEF Commits
<1>2. CASE Found(s.log, op)
  <2> DEFINE req == s.log[op].req
             row == IF s.clientTable[req.client].id <= req.id
                    THEN [id |-> req.id, replied |-> TRUE, op |-> op]
                    ELSE s.clientTable[req.client]
             table == [s.clientTable EXCEPT ![req.client] = row]
             sent == IF req.client \in s.addresses
                     THEN s.out \cup {Reply(req, op)} ELSE s.out
             done == Append(s.executed, req)
             t == [s EXCEPT !.lastCommitted = op, !.executed = done,
                            !.clientTable = table, !.out = sent]
  <2>1. req \in Request /\ req.client \in Clients /\ req.id \in Nat
    BY <1>2, FieldTypes, EntryTypes
  <2>2. ExecuteNext(s, op) = t
    BY <1>2 DEF ExecuteNext, ReplicaState
  <2>3. t \in ReplicaState
    BY <1>0, <2>2, ExecuteNextKeeps DEF Keeps
  <2>4. req = s.log[op].req /\ op \in 1 .. Len(s.log) /\ req = [client |-> req.client, id |-> req.id]
    BY <1>2, <2>1 DEF Found, Request
  <2>5. \A c \in Clients : \/ table[c] = s.clientTable[c]
                           \/ /\ c = req.client /\ s.clientTable[c].id <= table[c].id
                              /\ table[c].id = req.id /\ table[c].op = op
    <3> HIDE DEF req
    <3> QED BY <2>1, FieldTypes
  <2>6. \A m \in sent : m \in s.out \/ (m = Reply(req, op) /\ req.client \in s.addresses)
    OBVIOUS
  <2>7. /\ s.executed \in Seq(Request) /\ done \in Seq(Request) /\ Len(done) = Len(s.executed) + 1
        /\ done[Len(s.executed) + 1] = req
        /\ \A i \in 1 .. Len(s.executed) : done[i] = s.executed[i]
    BY <2>1, FieldTypes
  <2> HIDE DEF req, row, table, sent, done
  <2>8. /\ t.id = s.id /\ t.view = s.view /\ t.log = s.log /\ t.lastOp = s.lastOp
        /\ t.addresses = s.addresses /\ t.pendingPrepares = s.pendingPrepares
        /\ t.prepareOKs = s.prepareOKs /\ t.lastCommitted = op /\ t.clientTable = table
        /\ t.out = sent /\ t.executed = done /\ t.status = s.status
    BY DEF ReplicaState
  <2> HIDE DEF t
  <2>9. InStep(t)
    <3>1. \A i \in 1 .. op : done[i] = s.log[i].req
      BY <1>0, <2>4, <2>7 DEF InStep
    <3>2. op <= Len(s.log) /\ Len(done) = op
      BY <1>0, <2>4, <2>7 DEF InStep
    <3> QED BY <2>8, <3>1, <3>2 DEF InStep
  <2>10. \A m \in t.out : \/ m \in s.out
                          \/ m.type = "reply" /\ m.req.client \in s.addresses /\ SoundReply(m, t)
    BY <1>0, <2>4, <2>6, <2>8 DEF Reply, SoundReply
  <2>11. \A c \in Clients :
            \/ t.clientTable[c] = s.clientTable[c]
            \/ s.clientTable[c].id <= t.clientTable[c].id /\ Answered(t, c)
    BY <1>0, <2>4, <2>5, <2>8 DEF Answered
  <2>12. s.lastCommitted <= t.lastCommitted
    BY <1>0, <2>8
  <2> QED BY <1>0, <2>2, <2>3, <2>8, <2>9, <2>10, <2>11, <2>12 DEF Commits
<1> QED BY <1>1, <1>2

\* CommitUpTo executes what the log has, by induction on its rounds.
LEMMA CommitUpToCommits ==
  ASSUME NEW s \in ReplicaState, InStep(s), NEW upto \in Nat
  PROVE  /\ Commits(s, CommitUpTo(s, upto))
         /\ CommitUpTo(s, upto).lastCommitted \in {s.lastCommitted} \cup 1 .. upto
<1> DEFINE n == IF upto < s.lastCommitted THEN 0 ELSE upto - s.lastCommitted
<1>0. n \in Nat /\ s.lastCommitted \in Nat /\ (n > 0 => s.lastCommitted + n = upto)
  BY FieldTypes
<1>1. PICK t : /\ t[0] = s /\ CommitUpTo(s, upto) = t[n]
               /\ \A k \in 1 .. n :
                    t[k] = IF t[k - 1].status = "crashed" THEN t[k - 1]
                           ELSE ExecuteNext(t[k - 1], s.lastCommitted + k)
  BY CommitRounds
<1> HIDE DEF n
<1> DEFINE S == {k \in 0 .. n : /\ Commits(s, t[k]) /\ t[k].lastCommitted <= s.lastCommitted + k
                                /\ \/ t[k].status = "crashed"
                                   \/ t[k].lastCommitted = s.lastCommitted + k}
<1>2. 0 \in S
  BY <1>0, <1>1, CommitsItself
<1>3. ASSUME NEW k \in 1 .. n, k - 1 \in S PROVE k \in S
  <2>1. /\ Commits(s, t[k - 1]) /\ t[k - 1] \in ReplicaState /\ InStep(t[k - 1])
        /\ t[k - 1].lastCommitted \in Nat
    BY <1>3, FieldTypes DEF Commits
  <2>2. CASE t[k - 1].status = "crashed"
    <3>1. t[k] = t[k - 1]
      BY <1>1, <2>2
    <3>2. t[k].lastCommitted <= s.lastCommitted + k
      BY <1>0, <1>3, <2>1, <3>1
    <3> QED BY <2>1, <2>2, <3>1, <3>2
  <2>3. CASE t[k - 1].status # "crashed"
    <3>1. s.lastCommitted + k = t[k - 1].lastCommitted + 1
      BY <1>0, <1>3, <2>3
    <3>2. t[k] = ExecuteNext(t[k - 1], s.lastCommitted + k)
      BY <1>1, <2>3
    <3>3. /\ Commits(t[k - 1], t[k]) /\ t[k].lastCommitted <= s.lastCommitted + k
          /\ t[k].lastCommitted = s.lastCommitted + k \/ t[k].status = "crashed"
      BY <2>1, <3>1, <3>2, ExecuteNextCommits
    <3>4. Commits(s, t[k])
      BY <2>1, <3>3, CommitsTransitive
    <3> QED BY <3>3, <3>4
  <2> QED BY <2>2, <2>3
<1> HIDE DEF S
<1>4. n \in S
  BY <1>0, <1>2, <1>3, RoundInduction DEF S
<1>5. Commits(s, t[n]) /\ t[n].lastCommitted <= s.lastCommitted + n /\ t[n].lastCommitted \in Nat
      /\ s.lastCommitted <= t[n].lastCommitted
  BY <1>4, FieldTypes DEF S, Commits
<1>6. t[n].lastCommitted \in {s.lastCommitted} \cup 1 .. upto
  BY <1>0, <1>5
<1> QED BY <1>1, <1>5, <1>6

-----------------------------------------------------------------------------
\* What a backup of the first view does: its log stays a part of the leader's.

LeaderLog(log) == log \in Seq(Entry) /\ \A i \in 1 .. Len(log) : log[i].view = 0

\* A backup has gone from s to t.
BackupStep(s, t, log) ==
    t \in ReplicaState /\ Backup(t, log) /\ t.id = s.id /\ Len(s.log) <= Len(t.log)

\* BackupStep is reflexive and transitive.
LEMMA BackupStepItself ==
  ASSUME NEW s \in ReplicaState, NEW log, Backup(s, log)
  PROVE  BackupStep(s, s, log)
BY FieldTypes DEF BackupStep

\* The log only grows, in one step and in two.
LEMMA BackupStepTransitive ==
  ASSUME NEW s \in ReplicaState, NEW t, NEW u, NEW log,
         BackupStep(s, t, log), BackupStep(t, u, log)
  PROVE  BackupStep(s, u, log)
<1>1. Len(s.log) \in Nat /\ Len(t.log) \in Nat /\ Len(u.log) \in Nat
  BY FieldTypes DEF BackupStep
<1> QED BY <1>1 DEF BackupStep

\* A record that differs from s at most in its status, its sound pending PREPAREs, its
\* sound messages, and in fields that Backup is not about.
LEMMA SameBackup ==
  ASSUME NEW s \in ReplicaState, NEW t \in ReplicaState, NEW log, Backup(s, log),
         t.id = s.id, t.view = s.view, t.status \in {s.status, "crashed"},
         t.log = s.log, t.lastOp = s.lastOp, t.lastCommitted = s.lastCommitted,
         t.executed = s.executed, t.addresses = s.addresses,
         \A i \in 1 .. Len(t.pendingPrepares) : SoundPrepare(t.pendingPrepares[i], log),
         \A m \in t.out : m \in s.out \/ BackupMessage(m, s, log)
  PROVE  BackupStep(s, t, log)
<1>1. InStep(t)
  BY DEF Backup, InStep
<1>2. \A m \in t.out : BackupMessage(m, t, log)
  BY DEF Backup, BackupMessage
<1>3. Len(s.log) \in Nat
  BY FieldTypes
<1> QED BY <1>1, <1>2, <1>3 DEF Backup, BackupStep

\* A failing ASSERT leaves the log as it is.
LEMMA BackupCrash ==
  ASSUME NEW s \in ReplicaState, NEW log, Backup(s, log), NEW where \in Faults
  PROVE  BackupStep(s, Crash(s, where), log)
<1> DEFINE t == Crash(s, where)
<1>1. t \in ReplicaState
  BY CrashKeeps DEF Keeps
<1>2. /\ t.id = s.id /\ t.view = s.view /\ t.status = "crashed"
      /\ t.log = s.log /\ t.lastOp = s.lastOp /\ t.lastCommitted = s.lastCommitted
      /\ t.executed = s.executed /\ t.addresses = s.addresses
      /\ t.pendingPrepares = s.pendingPrepares /\ t.out = s.out
  BY DEF Crash, ReplicaState
<1> HIDE DEF t
<1>3. \A i \in 1 .. Len(t.pendingPrepares) : SoundPrepare(t.pendingPrepares[i], log)
  BY <1>2 DEF Backup
<1>4. BackupStep(s, t, log)
  BY <1>1, <1>2, <1>3, SameBackup
<1> QED BY <1>4 DEF t

\* A backup sends what BackupMessage allows.
LEMMA BackupSend ==
  ASSUME NEW s \in ReplicaState, NEW log, Backup(s, log), NEW m \in Message,
         BackupMessage(m, s, log)
  PROVE  BackupStep(s, Send(s, m), log)
<1> DEFINE t == Send(s, m)
<1>1. t \in ReplicaState
  BY SendKeeps DEF Keeps
<1>2. /\ t.id = s.id /\ t.view = s.view /\ t.status = s.status
      /\ t.log = s.log /\ t.lastOp = s.lastOp /\ t.lastCommitted = s.lastCommitted
      /\ t.executed = s.executed /\ t.addresses = s.addresses
      /\ t.pendingPrepares = s.pendingPrepares /\ t.out = s.out \cup {m}
  BY DEF Send, ReplicaState
<1> HIDE DEF t
<1>3. \A i \in 1 .. Len(t.pendingPrepares) : SoundPrepare(t.pendingPrepares[i], log)
  BY <1>2 DEF Backup
<1>4. \A a \in t.out : a \in s.out \/ BackupMessage(a, s, log)
  BY <1>2
<1>5. BackupStep(s, t, log)
  BY <1>1, <1>2, <1>3, <1>4, SameBackup
<1> QED BY <1>5 DEF t

\* The next entry of the leader's log.
LEMMA BackupPush ==
  ASSUME NEW s \in ReplicaState, NEW log, LeaderLog(log), Backup(s, log), NEW e,
         s.lastOp + 1 <= Len(log), e = log[s.lastOp + 1]
  PROVE  /\ BackupStep(s, Push(s, e), log) /\ Push(s, e).lastOp = s.lastOp + 1
         /\ Push(s, e).status = s.status
<1> DEFINE longer == Append(s.log, e)
           t == [s EXCEPT !.lastOp = @ + 1, !.log = Append(@, e)]
<1>1. s.lastOp \in Nat /\ Len(log) \in Nat /\ e \in Entry
  BY FieldTypes DEF LeaderLog
<1>2. Push(s, e) = t
  BY DEF Push, MayAppend, Backup, InStep
<1>3. t \in ReplicaState
  BY <1>1, <1>2, PushKeeps DEF Keeps
<1>4. /\ Len(longer) = Len(s.log) + 1 /\ longer[Len(s.log) + 1] = e /\ longer \in Seq(Entry)
      /\ \A i \in 1 .. Len(s.log) : longer[i] = s.log[i]
  BY <1>1, FieldTypes
<1>5. /\ t.id = s.id /\ t.view = s.view /\ t.status = s.status
      /\ t.log = longer /\ t.lastOp = s.lastOp + 1 /\ t.lastCommitted = s.lastCommitted
      /\ t.executed = s.executed /\ t.addresses = s.addresses
      /\ t.pendingPrepares = s.pendingPrepares /\ t.out = s.out
  BY DEF ReplicaState
<1> HIDE DEF t, longer
<1>6. /\ s.lastOp = Len(s.log) /\ s.lastCommitted <= Len(s.log) /\ Len(s.log) \in Nat
      /\ Len(s.executed) = s.lastCommitted /\ s.lastCommitted \in Nat
      /\ \A i \in 1 .. s.lastCommitted : s.executed[i] = s.log[i].req
      /\ s.view = 0 /\ s.status \in {"normal", "crashed"} /\ s.id # 0 /\ s.addresses = {}
  BY FieldTypes DEF Backup, InStep
<1>7. InStep(t)
  <2>1. \A i \in 1 .. s.lastCommitted : longer[i] = s.log[i]
    BY <1>4, <1>6
  <2>2. \A i \in 1 .. s.lastCommitted : s.executed[i] = longer[i].req
    BY <1>6, <2>1
  <2> QED BY <1>4, <1>5, <1>6, <2>2 DEF InStep
<1>8. Grows(longer, log)
  <2>1. \A i \in 1 .. Len(s.log) : s.log[i] = log[i]
    BY DEF Backup, Grows
  <2> QED BY <1>1, <1>4, <1>6, <2>1 DEF Grows
<1>9. \A m \in t.out : BackupMessage(m, t, log)
  <2>1. \A m \in s.out : BackupMessage(m, s, log)
    BY DEF Backup
  <2>2. ASSUME NEW m \in s.out, m.op \in 1 .. Len(s.log) PROVE m.op \in 1 .. Len(longer)
    BY <1>4, <1>6, <2>2
  <2> QED BY <1>5, <2>1, <2>2 DEF BackupMessage
<1>10. \A i \in 1 .. Len(t.pendingPrepares) : SoundPrepare(t.pendingPrepares[i], log)
  BY <1>5 DEF Backup
<1>11. Len(s.log) <= Len(t.log)
  BY <1>4, <1>5, <1>6
<1> QED BY <1>2, <1>3, <1>5, <1>6, <1>7, <1>8, <1>9, <1>10, <1>11 DEF Backup, BackupStep

\* Backup says nothing of the client table.
LEMMA BackupUpdateClientTable ==
  ASSUME NEW s \in ReplicaState, NEW log, Backup(s, log), NEW req \in Request
  PROVE  /\ BackupStep(s, UpdateClientTable(s, req), log)
         /\ UpdateClientTable(s, req).lastOp = s.lastOp
<1> DEFINE t == UpdateClientTable(s, req)
<1>1. t \in ReplicaState
  BY UpdateClientTableKeeps DEF Keeps
<1>2. /\ t.id = s.id /\ t.view = s.view /\ t.status \in {s.status, "crashed"}
      /\ t.log = s.log /\ t.lastOp = s.lastOp /\ t.lastCommitted = s.lastCommitted
      /\ t.executed = s.executed /\ t.addresses = s.addresses
      /\ t.pendingPrepares = s.pendingPrepares /\ t.out = s.out
  BY DEF UpdateClientTable, Crash, ReplicaState
<1> HIDE DEF t
<1>3. \A i \in 1 .. Len(t.pendingPrepares) : SoundPrepare(t.pendingPrepares[i], log)
  BY <1>2 DEF Backup
<1>4. BackupStep(s, t, log)
  BY <1>1, <1>2, <1>3, SameBackup
<1> QED BY <1>2, <1>4 DEF t

\* A backup knows no client's address: executing, it sends nothing.
LEMMA BackupCommitUpTo ==
  ASSUME NEW s \in ReplicaState, NEW log, Backup(s, log), NEW upto \in Nat
  PROVE  BackupStep(s, CommitUpTo(s, upto), log)
<1> DEFINE t == CommitUpTo(s, upto)
<1>1. Commits(s, t)
  BY CommitUpToCommits DEF Backup
<1> HIDE DEF t
<1>2. t.out \subseteq s.out
  BY <1>1 DEF Commits, Backup
<1>3. \A m \in t.out : BackupMessage(m, t, log)
  BY <1>1, <1>2 DEF Backup, BackupMessage, Commits
<1>4. Len(s.log) \in Nat
  BY FieldTypes
<1>5. Backup(t, log)
  BY <1>1, <1>3 DEF Commits, Backup
<1> QED BY <1>1, <1>4, <1>5 DEF Commits, BackupStep, t

\* A PREPAREOK for an operation of the backup's log.
LEMMA BackupPrepareOK ==
  ASSUME NEW s \in ReplicaState, NEW log, Backup(s, log), NEW op \in Nat,
         op \in 1 .. Len(s.log)
  PROVE  BackupStep(s, Send(s, PrepareOK(s, 0, op)), log)
<1>1. PrepareOK(s, 0, op) \in Message
  BY PrepareOKTypes DEF Message
<1>2. BackupMessage(PrepareOK(s, 0, op), s, log)
  BY DEF PrepareOK, BackupMessage
<1> QED BY <1>1, <1>2, BackupSend

\* A PREPAREOK is sent for an operation the log has.
LEMMA BackupAckNext ==
  ASSUME NEW s \in ReplicaState, NEW log, Backup(s, log), NEW op \in Nat
  PROVE  BackupStep(s, AckNext(s, op), log) /\ AckNext(s, op).lastOp = s.lastOp
<1> DEFINE req == s.log[op].req
           t == UpdateClientTable(s, req)
<1>1. CASE op <= s.lastCommitted
  BY <1>1, BackupStepItself DEF AckNext
<1>2. CASE ~(op <= s.lastCommitted) /\ ~Found(s.log, op)
  <2>1. AckNext(s, op) = Crash(s, "SendPrepareOKs")
    BY <1>2 DEF AckNext
  <2>2. Crash(s, "SendPrepareOKs").lastOp = s.lastOp
    BY DEF Crash, ReplicaState
  <2> QED BY <2>1, <2>2, BackupCrash DEF Faults
<1>3. CASE ~(op <= s.lastCommitted) /\ Found(s.log, op)
  <2>1. req \in Request /\ op \in 1 .. Len(s.log)
    BY <1>3, FieldTypes, EntryTypes DEF Found
  <2> HIDE DEF req
  <2>2. BackupStep(s, t, log) /\ t.lastOp = s.lastOp
    BY <2>1, BackupUpdateClientTable
  <2>3. AckNext(s, op) = IF t.status = "crashed" THEN t ELSE Send(t, PrepareOK(t, t.view, op))
    BY <1>3 DEF AckNext, Then, req
  <2> HIDE DEF t
  <2>4. t \in ReplicaState /\ Backup(t, log) /\ t.view = 0 /\ op \in 1 .. Len(t.log)
    <3>1. Len(s.log) \in Nat /\ Len(t.log) \in Nat
      BY <2>2, FieldTypes DEF BackupStep
    <3> QED BY <2>1, <2>2, <3>1 DEF BackupStep, Backup, InStep
  <2>5. BackupStep(t, Send(t, PrepareOK(t, 0, op)), log)
    BY <2>4, BackupPrepareOK
  <2>6. Send(t, PrepareOK(t, 0, op)).lastOp = t.lastOp
    BY <2>4 DEF Send, ReplicaState
  <2> QED BY <2>2, <2>3, <2>4, <2>5, <2>6, BackupStepTransitive
<1> QED BY <1>1, <1>2, <1>3

\* SendPrepareOKs of a backup, by induction on its rounds.
LEMMA BackupSendPrepareOKs ==
  ASSUME NEW s \in ReplicaState, NEW log, Backup(s, log), NEW from \in Nat
  PROVE  BackupStep(s, SendPrepareOKs(s, from), log)
<1> DEFINE n == IF s.lastOp < from THEN 0 ELSE s.lastOp - from + 1
<1>0. n \in Nat
  BY FieldTypes
<1>1. PICK t : /\ t[0] = s /\ SendPrepareOKs(s, from) = t[n]
               /\ \A k \in 1 .. n :
                    t[k] = IF t[k - 1].status = "crashed" THEN t[k - 1]
                           ELSE AckNext(t[k - 1], from + k - 1)
  BY AckRounds
<1> HIDE DEF n
<1> DEFINE S == {k \in 0 .. n : BackupStep(s, t[k], log)}
<1>2. 0 \in S
  BY <1>0, <1>1, BackupStepItself
<1>3. ASSUME NEW k \in 1 .. n, k - 1 \in S PROVE k \in S
  <2>1. /\ BackupStep(s, t[k - 1], log) /\ t[k - 1] \in ReplicaState /\ Backup(t[k - 1], log)
        /\ from + k - 1 \in Nat
    BY <1>0, <1>3 DEF BackupStep
  <2>2. BackupStep(t[k - 1], t[k], log)
    BY <1>1, <2>1, BackupAckNext, BackupStepItself
  <2>3. BackupStep(s, t[k], log)
    BY <2>1, <2>2, BackupStepTransitive
  <2> QED BY <1>0, <2>3
<1> HIDE DEF S
<1>4. n \in S
  BY <1>0, <1>2, <1>3, RoundInduction DEF S
<1> QED BY <1>1, <1>4 DEF S

\* In view 0 the leader is replica 0.
LEMMA FirstLeader ==
  ASSUME NEW s \in ReplicaState, s.view = 0
  PROVE  GetLeaderIndex(0) = 0 /\ 0 \in ReplicaIds /\ (AmLeader(s) <=> s.id = 0)
BY SizeAssumption, FieldTypes DEF GetLeaderIndex, ReplicaIds, AmLeader

\* A backup asks for state in view 0.
LEMMA BackupRequestStateTransfer ==
  ASSUME NEW s \in ReplicaState, NEW log, Backup(s, log)
  PROVE  /\ BackupStep(s, RequestStateTransfer(s), log)
         /\ RequestStateTransfer(s).pendingPrepares = s.pendingPrepares
<1> DEFINE m == [type |-> "requestStateTransfer", to |-> Others(s), from |-> s.id,
                 view |-> s.view, op |-> s.lastCommitted]
           t == [s EXCEPT !.lastRequest = [view |-> s.view, op |-> s.lastCommitted]]
<1>1. m \in Message
  BY FieldTypes, OthersAreReplicas DEF Message, TransferRequests
<1>2. /\ t \in ReplicaState /\ t.id = s.id /\ t.view = s.view /\ t.status = s.status
      /\ t.log = s.log /\ t.lastOp = s.lastOp /\ t.lastCommitted = s.lastCommitted
      /\ t.executed = s.executed /\ t.addresses = s.addresses
      /\ t.pendingPrepares = s.pendingPrepares /\ t.out = s.out
  BY DEF ReplicaState
<1>3. RequestStateTransfer(s) \in {s, Send(t, m)}
  BY DEF RequestStateTransfer
<1>4. m.type = "requestStateTransfer" /\ m.view = 0 /\ m.from = s.id
  BY DEF Backup, InStep
<1> HIDE DEF t, m
<1>5. BackupStep(s, t, log)
  <2>1. \A i \in 1 .. Len(t.pendingPrepares) : SoundPrepare(t.pendingPrepares[i], log)
    BY <1>2 DEF Backup
  <2> QED BY <1>2, <2>1, SameBackup
<1>6. BackupStep(t, Send(t, m), log)
  <2>1. Backup(t, log) /\ BackupMessage(m, t, log)
    BY <1>2, <1>4, <1>5 DEF BackupStep, BackupMessage
  <2> QED BY <1>1, <1>2, <2>1, BackupSend
<1>7. Send(t, m).pendingPrepares = t.pendingPrepares
  BY <1>2 DEF Send, ReplicaState
<1> QED BY <1>2, <1>3, <1>5, <1>6, <1>7, BackupStepItself, BackupStepTransitive

\* A sound PREPARE stays sound while it waits.
LEMMA BackupPostpone ==
  ASSUME NEW s \in ReplicaState, NEW log, Backup(s, log), NEW m \in PrepareMsgs,
         SoundPrepare(m, log)
  PROVE  BackupStep(s, Postpone(s, m), log)
<1> DEFINE t == RequestStateTransfer(s)
           longer == Append(t.pendingPrepares, m)
           u == [t EXCEPT !.pendingPrepares = longer]
<1>1. BackupStep(s, t, log) /\ t \in ReplicaState /\ Backup(t, log)
  BY BackupRequestStateTransfer DEF BackupStep
<1>2. Postpone(s, m) = u
  BY DEF Postpone
<1> HIDE DEF t
<1>3. longer \in Seq(PrepareMsgs) /\ \A i \in 1 .. Len(longer) :
          longer[i] = m \/ (i \in 1 .. Len(t.pendingPrepares) /\ longer[i] = t.pendingPrepares[i])
  BY <1>1, FieldTypes
<1> HIDE DEF longer
<1>4. /\ u \in ReplicaState /\ u.id = t.id /\ u.view = t.view /\ u.status = t.status
      /\ u.log = t.log /\ u.lastOp = t.lastOp /\ u.lastCommitted = t.lastCommitted
      /\ u.executed = t.executed /\ u.addresses = t.addresses
      /\ u.pendingPrepares = longer /\ u.out = t.out
  BY <1>1, <1>3 DEF ReplicaState
<1> HIDE DEF u
<1>5. \A i \in 1 .. Len(u.pendingPrepares) : SoundPrepare(u.pendingPrepares[i], log)
  BY <1>1, <1>3, <1>4 DEF Backup
<1>6. BackupStep(t, u, log)
  BY <1>1, <1>4, <1>5, SameBackup
<1> QED BY <1>1, <1>2, <1>6, BackupStepTransitive

\* A backup appends the request that the leader's log has there.
LEMMA BackupAppendNext ==
  ASSUME NEW s \in ReplicaState, NEW log, LeaderLog(log), Backup(s, log), NEW req,
         s.lastOp + 1 <= Len(log), req = log[s.lastOp + 1].req
  PROVE  /\ BackupStep(s, AppendNext(s, 0, req), log)
         /\ AppendNext(s, 0, req).lastOp = s.lastOp + 1
<1> DEFINE e == [view |-> 0, req |-> req]
           t == Push(s, e)
           u == UpdateClientTable(t, req)
<1>1. e = log[s.lastOp + 1] /\ req \in Request
  <2>1. log[s.lastOp + 1] \in Entry /\ log[s.lastOp + 1].view = 0
    BY FieldTypes DEF LeaderLog
  <2> QED BY <2>1 DEF Entry
<1>2. AppendNext(s, 0, req) = IF t.status = "crashed" THEN t ELSE u
  BY DEF AppendNext, Then
<1> HIDE DEF e
<1>3. BackupStep(s, t, log) /\ t.lastOp = s.lastOp + 1 /\ t \in ReplicaState /\ Backup(t, log)
  BY <1>1, BackupPush DEF BackupStep
<1> HIDE DEF t
<1>4. BackupStep(t, u, log) /\ u.lastOp = t.lastOp
  BY <1>1, <1>3, BackupUpdateClientTable
<1> HIDE DEF u
<1> QED BY <1>2, <1>3, <1>4, BackupStepTransitive

\* The rest of a batch, which continues the backup's log as it does the leader's.
LEMMA BackupAppendBatch ==
  ASSUME NEW s \in ReplicaState, NEW log, LeaderLog(log), Backup(s, log),
         NEW reqs \in Seq(Request),
         \A k \in 1 .. Len(reqs) :
            s.lastOp + k <= Len(log) /\ reqs[k] = log[s.lastOp + k].req
  PROVE  LET t == AppendBatch(s, 0, reqs) IN
         /\ BackupStep(s, t, log)
         /\ t.status = "crashed" \/ t.lastOp = s.lastOp + Len(reqs)
<1> DEFINE n == Len(reqs)
<1>0. n \in Nat /\ s.lastOp \in Nat
  BY FieldTypes
<1>1. PICK t : /\ t[0] = s /\ AppendBatch(s, 0, reqs) = t[n]
               /\ \A k \in 1 .. n :
                    t[k] = IF t[k - 1].status = "crashed" THEN t[k - 1]
                           ELSE AppendNext(t[k - 1], 0, reqs[k])
  BY AppendRounds
<1>r. \A k \in 1 .. n : s.lastOp + k <= Len(log) /\ reqs[k] = log[s.lastOp + k].req
  OBVIOUS
<1> HIDE DEF n
<1> DEFINE S == {k \in 0 .. n : /\ BackupStep(s, t[k], log)
                                /\ t[k].status = "crashed" \/ t[k].lastOp = s.lastOp + k}
<1>2. 0 \in S
  BY <1>0, <1>1, BackupStepItself
<1>3. ASSUME NEW k \in 1 .. n, k - 1 \in S PROVE k \in S
  <2>1. BackupStep(s, t[k - 1], log) /\ t[k - 1] \in ReplicaState /\ Backup(t[k - 1], log)
    BY <1>3 DEF BackupStep
  <2>2. CASE t[k - 1].status = "crashed"
    BY <1>0, <1>1, <2>1, <2>2
  <2>3. CASE t[k - 1].status # "crashed"
    <3>1. t[k - 1].lastOp + 1 = s.lastOp + k
      BY <1>0, <1>3, <2>3
    <3>2. t[k] = AppendNext(t[k - 1], 0, reqs[k])
      BY <1>1, <2>3
    <3>3. t[k - 1].lastOp + 1 <= Len(log) /\ reqs[k] = log[t[k - 1].lastOp + 1].req
      BY <1>r, <3>1
    <3>4. BackupStep(t[k - 1], t[k], log) /\ t[k].lastOp = s.lastOp + k
      BY <2>1, <3>1, <3>2, <3>3, BackupAppendNext
    <3>5. BackupStep(s, t[k], log)
      BY <2>1, <3>4, BackupStepTransitive
    <3> QED BY <1>0, <3>4, <3>5
  <2> QED BY <2>2, <2>3
<1> HIDE DEF S
<1>4. n \in S
  BY <1>0, <1>2, <1>3, RoundInduction DEF S
<1> QED BY <1>1, <1>4 DEF S, n

\* What a sequence ends with.
LEMMA SuffixIs ==
  ASSUME NEW S, NEW seq \in Seq(S), NEW i \in Nat \ {0}
  PROVE  LET tail == SubSeq(seq, i, Len(seq)) IN
         /\ tail \in Seq(S)
         /\ Len(tail) = IF i <= Len(seq) THEN Len(seq) - i + 1 ELSE 0
         /\ \A k \in 1 .. Len(tail) : tail[k] = seq[i + k - 1]
OBVIOUS

\* The part of a batch that a log of the length last does not have yet.
LEMMA BatchSuffix ==
  ASSUME NEW all \in Seq(Request), NEW log, NEW first \in Nat \ {0}, NEW op \in Nat,
         NEW last \in Nat, Len(all) = op - first + 1, first <= last + 1, op > last,
         \A k \in 1 .. Len(all) : all[k] = log[first + k - 1].req
  PROVE  LET reqs == SubSeq(all, last - first + 2, Len(all)) IN
         /\ reqs \in Seq(Request) /\ Len(reqs) = op - last
         /\ \A k \in 1 .. Len(reqs) : last + k <= op /\ reqs[k] = log[last + k].req
<1> DEFINE i == last - first + 2
           reqs == SubSeq(all, i, Len(all))
<1>1. i \in Nat \ {0} /\ i <= Len(all) /\ Len(all) - i + 1 = op - last
  OBVIOUS
<1>2. \A k \in 1 .. op - last : /\ last + k <= op /\ i + k - 1 \in 1 .. Len(all)
                                /\ first + (i + k - 1) - 1 = last + k
  OBVIOUS
<1> HIDE DEF i
<1>3. /\ reqs \in Seq(Request) /\ Len(reqs) = op - last
      /\ \A k \in 1 .. Len(reqs) : reqs[k] = all[i + k - 1]
  BY <1>1, SuffixIs
<1> HIDE DEF reqs
<1>4. ASSUME NEW k \in 1 .. Len(reqs) PROVE last + k <= op /\ reqs[k] = log[last + k].req
  <2>1. last + k <= op /\ i + k - 1 \in 1 .. Len(all) /\ first + (i + k - 1) - 1 = last + k
    BY <1>2, <1>3
  <2>2. reqs[k] = all[i + k - 1]
    BY <1>3
  <2>3. all[i + k - 1] = log[first + (i + k - 1) - 1].req
    BY <2>1
  <2> QED BY <2>1, <2>2, <2>3
<1> QED BY <1>3, <1>4 DEF reqs, i

\* HandlePrepare of a backup: what it appends is the leader's, what it acknowledges it
\* has.
LEMMA BackupHandlePrepare ==
  ASSUME NEW s \in ReplicaState, NEW log, LeaderLog(log), Backup(s, log),
         NEW m \in PrepareMsgs, SoundPrepare(m, log)
  PROVE  BackupStep(s, HandlePrepare(s, m), log)
<1> DEFINE reqs == SubSeq(m.reqs, s.lastOp - m.batchStart + 2, Len(m.reqs))
           t == AppendBatch(s, 0, reqs)
           Ack(u) == Send(u, PrepareOK(u, 0, m.op))
<1>1. /\ m.view = 0 /\ m.op \in Nat /\ m.batchStart \in Nat /\ m.reqs \in Seq(Request)
      /\ s.lastOp \in Nat /\ s.lastOp = Len(s.log) /\ m.op <= Len(log) /\ m.batchStart > 0
      /\ Len(m.reqs) = m.op - m.batchStart + 1 /\ s.view = 0
      /\ \A k \in 1 .. Len(m.reqs) : m.reqs[k] = log[m.batchStart + k - 1].req
  BY FieldTypes DEF PrepareMsgs, SoundPrepare, Backup, InStep
<1>2. ~AmLeader(s)
  BY <1>1, FirstLeader DEF Backup
<1>3. ASSUME NEW u \in ReplicaState, Backup(u, log), m.op \in 1 .. u.lastOp
      PROVE  BackupStep(u, Ack(u), log)
  <2>1. m.op \in 1 .. Len(u.log)
    BY <1>3 DEF Backup, InStep
  <2> QED BY <1>1, <1>3, <2>1, BackupPrepareOK
<1>4. \/ HandlePrepare(s, m) \in {s, Postpone(s, m), Crash(s, "PrepareShape")}
      \/ m.op \in 1 .. s.lastOp /\ HandlePrepare(s, m) = Ack(s)
      \/ /\ m.batchStart <= s.lastOp + 1 /\ m.batchStart <= m.op /\ m.op > s.lastOp
         /\ HandlePrepare(s, m) = IF t.status = "crashed" THEN t ELSE Ack(t)
  BY <1>1, <1>2 DEF HandlePrepare, Then
<1> HIDE DEF Ack
<1>5. CASE HandlePrepare(s, m) \in {s, Postpone(s, m), Crash(s, "PrepareShape")}
  BY <1>5, BackupStepItself, BackupPostpone, BackupCrash DEF Faults
<1>6. CASE m.op \in 1 .. s.lastOp /\ HandlePrepare(s, m) = Ack(s)
  BY <1>3, <1>6
<1>7. CASE /\ m.batchStart <= s.lastOp + 1 /\ m.batchStart <= m.op /\ m.op > s.lastOp
           /\ HandlePrepare(s, m) = IF t.status = "crashed" THEN t ELSE Ack(t)
  <2>1. /\ reqs \in Seq(Request) /\ Len(reqs) = m.op - s.lastOp
        /\ \A k \in 1 .. Len(reqs) :
             s.lastOp + k <= m.op /\ reqs[k] = log[s.lastOp + k].req
    <3> DEFINE all == m.reqs
               first == m.batchStart
               op == m.op
               last == s.lastOp
               rest == SubSeq(all, last - first + 2, Len(all))
    <3>1. /\ all \in Seq(Request) /\ first \in Nat \ {0} /\ op \in Nat /\ last \in Nat
          /\ Len(all) = op - first + 1 /\ first <= last + 1 /\ op > last
          /\ \A k \in 1 .. Len(all) : all[k] = log[first + k - 1].req
      BY <1>1, <1>7
    <3> HIDE DEF all, first, op, last
    <3>2. /\ rest \in Seq(Request) /\ Len(rest) = op - last
          /\ \A k \in 1 .. Len(rest) : last + k <= op /\ rest[k] = log[last + k].req
      BY <3>1, BatchSuffix
    <3>3. rest = reqs
      BY DEF all, first, last
    <3> HIDE DEF rest
    <3> QED BY <3>2, <3>3 DEF op, last
  <2> HIDE DEF reqs
  <2>2. \A k \in 1 .. Len(reqs) : s.lastOp + k <= Len(log)
    BY <1>1, <2>1, FieldTypes DEF LeaderLog
  <2>5. BackupStep(s, t, log) /\ (t.status = "crashed" \/ t.lastOp = m.op)
    <3>1. /\ BackupStep(s, t, log)
          /\ t.status = "crashed" \/ t.lastOp = s.lastOp + Len(reqs)
      BY <2>1, <2>2, BackupAppendBatch
    <3> QED BY <1>1, <2>1, <3>1
  <2> HIDE DEF t
  <2>6. t.lastOp = m.op => BackupStep(t, Ack(t), log)
    <3>1. t.lastOp = m.op => m.op \in 1 .. t.lastOp
      BY <1>1, <1>7
    <3> QED BY <1>3, <2>5, <3>1 DEF BackupStep
  <2> QED BY <1>7, <2>5, <2>6, BackupStepTransitive
<1> QED BY <1>4, <1>5, <1>6, <1>7

\* HandleCommit of a backup executes its own log, which is the leader's.
LEMMA BackupHandleCommit ==
  ASSUME NEW s \in ReplicaState, NEW log, Backup(s, log), NEW m \in CommitMsgs, m.view = 0
  PROVE  BackupStep(s, HandleCommit(s, m), log)
<1>1. m.op \in Nat /\ s.view = 0
  BY DEF CommitMsgs, Backup, InStep
<1>2. ~AmLeader(s)
  BY <1>1, FirstLeader DEF Backup
<1>3. HandleCommit(s, m) \in {s, RequestStateTransfer(s), CommitUpTo(s, m.op)}
  BY <1>2 DEF HandleCommit
<1> QED BY <1>1, <1>3, BackupStepItself, BackupRequestStateTransfer, BackupCommitUpTo

\* What a dump of a part of the leader's log holds.
LEMMA DumpIsSound ==
  ASSUME NEW part \in Seq(Entry), NEW log \in Seq(Entry), Grows(part, log), NEW from \in Nat
  PROVE  SoundDump(Dump(part, from), log)
<1> DEFINE d == Dump(part, from)
<1>1. /\ d \in DumpOf
      /\ \A k \in 1 .. Len(d.entries) : d.entries[k] = part[d.first + k - 1]
      /\ d.first + Len(d.entries) - 1 <= Len(part) \/ d.entries = <<>>
  BY DumpTypes
<1> HIDE DEF d
<1>2. d.first \in Nat \ {0} /\ Len(d.entries) \in Nat /\ Len(<<>>) = 0 /\ Len(part) \in Nat
      /\ Len(log) \in Nat
  BY <1>1 DEF DumpOf
<1>3. ASSUME NEW k \in 1 .. Len(d.entries)
      PROVE  d.first + k - 1 <= Len(log) /\ d.entries[k] = log[d.first + k - 1]
  <2> DEFINE i == d.first + k - 1
  <2>1. i \in 1 .. Len(part) /\ d.entries[k] = part[i]
    BY <1>1, <1>2, <1>3
  <2> HIDE DEF i
  <2>2. i <= Len(log) /\ d.entries[k] = log[i]
    BY <1>2, <2>1 DEF Grows
  <2> QED BY <2>2 DEF i
<1>4. SoundDump(d, log)
  BY <1>3 DEF SoundDump
<1> QED BY <1>4 DEF d

\* A backup sends a part of its log, which is a part of the leader's.
LEMMA BackupHandleRequestStateTransfer ==
  ASSUME NEW s \in ReplicaState, NEW log, LeaderLog(log), Backup(s, log),
         NEW m \in TransferRequests, m.from # 0
  PROVE  BackupStep(s, HandleRequestStateTransfer(s, m), log)
<1> DEFINE dump == Dump(s.log, m.op + 1)
           a == [type |-> "stateTransfer", to |-> {m.from}, view |-> s.view,
                 op |-> s.lastCommitted, dump |-> dump]
<1>1. m.op + 1 \in Nat /\ {m.from} \in Ids /\ s.view = 0
  BY DEF TransferRequests, Ids, Backup, InStep
<1>2. dump \in DumpOf /\ SoundDump(dump, log)
  BY <1>1, FieldTypes, DumpTypes, DumpIsSound DEF Backup, LeaderLog
<1>3. HandleRequestStateTransfer(s, m) \in {s, RequestStateTransfer(s), Send(s, a)}
  BY DEF HandleRequestStateTransfer
<1> HIDE DEF dump
<1>4. a \in Message
  BY <1>1, <1>2, FieldTypes DEF Message, Transfers
<1>5. BackupMessage(a, s, log)
  BY <1>1, <1>2 DEF BackupMessage, SoundTransfer
<1> HIDE DEF a
<1> QED BY <1>3, <1>4, <1>5, BackupStepItself, BackupRequestStateTransfer, BackupSend

\* An entry of a transfer that agrees with the leader's log: nothing is overwritten.
LEMMA BackupTransferEntry ==
  ASSUME NEW x \in TransferState, NEW log, LeaderLog(log), Backup(x.s, log),
         NEW op \in Nat \ {0}, op <= Len(log), NEW entry, entry = log[op]
  PROVE  /\ TransferEntry(x, op, entry) \in TransferState
         /\ BackupStep(x.s, TransferEntry(x, op, entry).s, log)
<1> DEFINE s == x.s
           y == TransferEntry(x, op, entry)
<1>1. s \in ReplicaState /\ s.lastOp \in Nat /\ entry \in Entry /\ Backup(s, log)
      /\ Len(s.log) \in Nat
  BY FieldTypes DEF TransferState, LeaderLog
<1>2. y \in TransferState
  BY <1>1, TransferEntryKeeps
<1>3. y.s \in {s, Crash(s, "StateTransferGap"), Crash(s, "StateTransferEntry")}
      \/ (op = s.lastOp + 1 /\ y.s = Push(s, entry))
      \/ (Found(s.log, op) /\ s.log[op].view # entry.view)
  BY <1>1 DEF TransferEntry, TransferState
<1>4. ~(Found(s.log, op) /\ s.log[op].view # entry.view)
  <2>1. \A i \in 1 .. Len(s.log) : s.log[i] = log[i]
    BY <1>1 DEF Backup, Grows
  <2> QED BY <2>1 DEF Found
<1> HIDE DEF y
<1>5. CASE op = s.lastOp + 1 /\ y.s = Push(s, entry)
  <2> HIDE DEF s
  <2>1. s.lastOp + 1 <= Len(log) /\ entry = log[s.lastOp + 1]
    BY <1>5
  <2>2. BackupStep(s, Push(s, entry), log)
    BY <1>1, <2>1, BackupPush
  <2> QED BY <1>2, <1>5, <2>2 DEF s, y
<1>6. CASE y.s \in {s, Crash(s, "StateTransferGap"), Crash(s, "StateTransferEntry")}
  <2>1. BackupStep(s, s, log) /\ BackupStep(s, Crash(s, "StateTransferGap"), log)
        /\ BackupStep(s, Crash(s, "StateTransferEntry"), log)
    BY <1>1, BackupStepItself, BackupCrash DEF Faults
  <2> QED BY <1>2, <1>6, <2>1 DEF y
<1> QED BY <1>3, <1>4, <1>5, <1>6

\* The loop of HandleStateTransfer, by induction on its rounds.
LEMMA BackupTransferEntries ==
  ASSUME NEW s \in ReplicaState, NEW log, LeaderLog(log), Backup(s, log),
         NEW dump \in DumpOf, SoundDump(dump, log)
  PROVE  LET x == TransferEntries(s, dump) IN x \in TransferState /\ BackupStep(s, x.s, log)
<1> DEFINE n == Len(dump.entries)
<1>1. PICK t : /\ t[0] = [s |-> s, oldLastOp |-> s.lastOp]
               /\ TransferEntries(s, dump) = t[n]
               /\ \A k \in 1 .. n :
                    t[k] = TransferEntry(t[k - 1], dump.first + k - 1, dump.entries[k])
  BY TransferRounds
<1>2. /\ n \in Nat /\ dump.first \in Nat \ {0}
      /\ \A k \in 1 .. n : dump.first + k - 1 <= Len(log)
                           /\ dump.entries[k] = log[dump.first + k - 1]
  BY DEF DumpOf, SoundDump
<1> HIDE DEF n
<1> DEFINE S == {k \in 0 .. n : t[k] \in TransferState /\ BackupStep(s, t[k].s, log)}
<1>3. 0 \in S
  <2>1. t[0] \in TransferState /\ t[0].s = s
    BY <1>1, FieldTypes DEF TransferState
  <2> QED BY <1>2, <2>1, BackupStepItself
<1>4. ASSUME NEW k \in 1 .. n, k - 1 \in S PROVE k \in S
  <2> DEFINE x == t[k - 1]
             y == t[k]
             op == dump.first + k - 1
             entry == dump.entries[k]
  <2>1. /\ x \in TransferState /\ BackupStep(s, x.s, log) /\ Backup(x.s, log)
        /\ op \in Nat \ {0} /\ op <= Len(log) /\ entry = log[op]
    <3>1. x \in TransferState /\ BackupStep(s, x.s, log)
      BY <1>4
    <3>2. op \in Nat \ {0} /\ op <= Len(log) /\ entry = log[op]
      BY <1>2
    <3> QED BY <3>1, <3>2 DEF BackupStep
  <2>2. y = TransferEntry(x, op, entry)
    BY <1>1
  <2> HIDE DEF x, y, op, entry
  <2>3. y \in TransferState /\ BackupStep(x.s, y.s, log)
    BY <2>1, <2>2, BackupTransferEntry
  <2>4. BackupStep(s, y.s, log)
    BY <2>1, <2>3, BackupStepTransitive
  <2> QED BY <1>2, <2>3, <2>4 DEF y
<1> HIDE DEF S
<1>5. n \in S
  BY <1>2, <1>3, <1>4, RoundInduction DEF S
<1> QED BY <1>1, <1>5 DEF S

\* The pending PREPAREs are sound, handled after any number of the others.
LEMMA BackupHandlePending ==
  ASSUME NEW s \in ReplicaState, NEW log, LeaderLog(log), Backup(s, log)
  PROVE  BackupStep(s, HandlePending(s), log)
<1> DEFINE ps == s.pendingPrepares
           n == Len(ps)
<1>0. n \in Nat /\ \A k \in 1 .. n : ps[k] \in PrepareMsgs /\ SoundPrepare(ps[k], log)
  BY FieldTypes DEF Backup
<1>1. PICK t : /\ t[0] = [s EXCEPT !.pendingPrepares = << >>] /\ HandlePending(s) = t[n]
               /\ \A k \in 1 .. n :
                    t[k] = IF t[k - 1].status = "crashed" THEN t[k - 1]
                           ELSE HandlePrepare(t[k - 1], ps[k])
  BY PendingRounds
<1> HIDE DEF ps, n
<1> DEFINE S == {k \in 0 .. n : BackupStep(s, t[k], log)}
<1>2. 0 \in S
  <2> DEFINE u == [s EXCEPT !.pendingPrepares = << >>]
  <2>1. /\ u \in ReplicaState /\ u.id = s.id /\ u.view = s.view /\ u.status = s.status
        /\ u.log = s.log /\ u.lastOp = s.lastOp /\ u.lastCommitted = s.lastCommitted
        /\ u.executed = s.executed /\ u.addresses = s.addresses
        /\ u.pendingPrepares = << >> /\ u.out = s.out
    <3>1. << >> \in Seq(PrepareMsgs)
      OBVIOUS
    <3> QED BY <3>1 DEF ReplicaState
  <2> HIDE DEF u
  <2>2. \A i \in 1 .. Len(u.pendingPrepares) : SoundPrepare(u.pendingPrepares[i], log)
    BY <2>1
  <2>3. BackupStep(s, u, log)
    BY <2>1, <2>2, SameBackup
  <2> QED BY <1>0, <1>1, <2>3 DEF u
<1>3. ASSUME NEW k \in 1 .. n, k - 1 \in S PROVE k \in S
  <2>1. BackupStep(s, t[k - 1], log) /\ t[k - 1] \in ReplicaState /\ Backup(t[k - 1], log)
    BY <1>0, <1>3 DEF BackupStep
  <2>2. BackupStep(t[k - 1], t[k], log)
    BY <1>0, <1>1, <2>1, BackupHandlePrepare, BackupStepItself
  <2>3. BackupStep(s, t[k], log)
    BY <2>1, <2>2, BackupStepTransitive
  <2> QED BY <1>0, <2>3
<1> HIDE DEF S
<1>4. n \in S
  BY <1>0, <1>2, <1>3, RoundInduction DEF S
<1> QED BY <1>1, <1>4 DEF S

\* HandleStateTransfer of a backup: entries, commits, PREPAREOKs, pending PREPAREs.
LEMMA BackupHandleStateTransfer ==
  ASSUME NEW s \in ReplicaState, NEW log, LeaderLog(log), Backup(s, log),
         NEW m \in Transfers, SoundTransfer(m, log)
  PROVE  BackupStep(s, HandleStateTransfer(s, m), log)
<1>1. m.view = 0 /\ m.op \in Nat /\ m.dump \in DumpOf /\ SoundDump(m.dump, log) /\ s.view = 0
  BY DEF Transfers, SoundTransfer, Backup, InStep
<1> DEFINE x == TransferEntries(s, m.dump)
           p == x.s
           q == Then(p, LAMBDA t : IF m.view > t.view THEN EnterView(t, m.view) ELSE t)
           u == Then(q, LAMBDA t : IF m.op > t.lastOp THEN Crash(t, "StateTransferShort") ELSE t)
           v == Then(u, LAMBDA t : CommitUpTo(t, m.op))
           w == Then(v, LAMBDA t : SendPrepareOKs(t, x.oldLastOp))
           z == Then(w, HandlePending)
<1>2. BackupStep(s, p, log) /\ x.oldLastOp \in Nat /\ p \in ReplicaState /\ p.view = 0
      /\ Backup(p, log)
  BY <1>1, BackupTransferEntries DEF TransferState, BackupStep, Backup, InStep
<1>n. ~(m.view < s.view)
  BY <1>1
<1>3. HandleStateTransfer(s, m) = z
  BY <1>n DEF HandleStateTransfer, Then
<1> HIDE DEF x, p
<1>a. q = IF p.status = "crashed" THEN p
           ELSE IF m.view > p.view THEN EnterView(p, m.view) ELSE p
  BY DEF Then
<1> HIDE DEF q
<1>b. u = IF q.status = "crashed" THEN q
           ELSE IF m.op > q.lastOp THEN Crash(q, "StateTransferShort") ELSE q
  BY DEF Then
<1> HIDE DEF u
<1>c. v = IF u.status = "crashed" THEN u ELSE CommitUpTo(u, m.op)
  BY DEF Then
<1> HIDE DEF v
<1>d. w = IF v.status = "crashed" THEN v ELSE SendPrepareOKs(v, x.oldLastOp)
  BY DEF Then
<1> HIDE DEF w
<1>e. z = IF w.status = "crashed" THEN w ELSE HandlePending(w)
  BY DEF Then
<1> HIDE DEF z
<1>q. q = p
  BY <1>1, <1>2, <1>a
<1>4. BackupStep(p, u, log) /\ u \in ReplicaState /\ Backup(u, log)
  <2>1. BackupStep(p, Crash(p, "StateTransferShort"), log)
    BY <1>2, BackupCrash DEF Faults
  <2> QED BY <1>2, <1>q, <1>b, <2>1, BackupStepItself DEF BackupStep
<1>5. BackupStep(u, v, log) /\ v \in ReplicaState /\ Backup(v, log)
  BY <1>1, <1>4, <1>c, BackupCommitUpTo, BackupStepItself DEF BackupStep
<1>6. BackupStep(v, w, log) /\ w \in ReplicaState /\ Backup(w, log)
  BY <1>2, <1>5, <1>d, BackupSendPrepareOKs, BackupStepItself DEF BackupStep
<1>7. BackupStep(w, z, log)
  BY <1>6, <1>e, BackupHandlePending, BackupStepItself
<1>8. BackupStep(s, u, log)
  BY <1>2, <1>4, BackupStepTransitive
<1>9. BackupStep(s, v, log)
  BY <1>5, <1>8, BackupStepTransitive
<1>10. BackupStep(s, w, log)
  BY <1>6, <1>9, BackupStepTransitive
<1> QED BY <1>3, <1>7, <1>10, BackupStepTransitive

-----------------------------------------------------------------------------
\* What the leader of the first view does: its log only grows.

\* The leader has gone from s to t, and counted no new PREPAREOK.
LeaderStep(s, t) ==
    /\ t \in ReplicaState /\ Leader(t) /\ Grows(s.log, t.log)
    /\ s.lastCommitted <= t.lastCommitted

\* LeaderStep and LeaderStays are reflexive and transitive.
LEMMA LeaderStepItself ==
  ASSUME NEW s \in ReplicaState, Leader(s)
  PROVE  LeaderStep(s, s)
BY FieldTypes DEF LeaderStep, Grows

\* The leader's log only grows, in one step and in two.
LEMMA LeaderStepTransitive ==
  ASSUME NEW s \in ReplicaState, NEW t, NEW u, LeaderStep(s, t), LeaderStep(t, u)
  PROVE  LeaderStep(s, u)
<1>1. /\ Len(s.log) \in Nat /\ Len(t.log) \in Nat /\ Len(u.log) \in Nat
      /\ s.lastCommitted \in Nat /\ t.lastCommitted \in Nat /\ u.lastCommitted \in Nat
  BY FieldTypes DEF LeaderStep
<1>2. Grows(s.log, u.log)
  BY <1>1 DEF LeaderStep, Grows
<1> QED BY <1>1, <1>2 DEF LeaderStep

\* A record that differs from s at most in its status, its sound messages, and in
\* fields that Leader is not about.
LEMMA SameLeader ==
  ASSUME NEW s \in ReplicaState, NEW t \in ReplicaState, Leader(s),
         t.id = s.id, t.view = s.view, t.status \in {s.status, "crashed"},
         t.log = s.log, t.lastOp = s.lastOp, t.lastCommitted = s.lastCommitted,
         t.executed = s.executed, t.clientTable = s.clientTable,
         \A m \in t.out : m \in s.out \/ LeaderMessage(m, s)
  PROVE  LeaderStep(s, t)
<1>1. InStep(t)
  BY DEF Leader, InStep
<1>2. \A m \in t.out : LeaderMessage(m, t)
  BY DEF Leader, LeaderMessage, SoundReply
<1>3. Grows(s.log, t.log) /\ s.lastCommitted \in Nat
  BY FieldTypes DEF Grows
<1>4. \A c \in Clients : t.clientTable[c].replied /\ t.clientTable[c].op > 0 => Answered(t, c)
  BY DEF Leader, Answered
<1> QED BY <1>1, <1>2, <1>3, <1>4 DEF Leader, LeaderStep

\* The leader has gone from s to t, and its log and what it counted are the same.
LeaderStays(s, t) ==
    /\ LeaderStep(s, t) /\ t.log = s.log /\ t.prepareOKs = s.prepareOKs
    /\ t.lastCommitted = s.lastCommitted

\* Doing nothing leaves log and counts.
LEMMA LeaderStaysItself ==
  ASSUME NEW s \in ReplicaState, Leader(s)
  PROVE  LeaderStays(s, s)
BY LeaderStepItself DEF LeaderStays

\* Neither of two steps touches log or counts.
LEMMA LeaderStaysTransitive ==
  ASSUME NEW s \in ReplicaState, NEW t, NEW u, LeaderStays(s, t), LeaderStays(t, u)
  PROVE  LeaderStays(s, u)
<1>1. LeaderStep(s, u)
  BY LeaderStepTransitive DEF LeaderStays
<1> QED BY <1>1 DEF LeaderStays

\* A failing ASSERT leaves log and counts.
LEMMA LeaderCrash ==
  ASSUME NEW s \in ReplicaState, Leader(s), NEW where \in Faults
  PROVE  LeaderStays(s, Crash(s, where))
<1> DEFINE t == Crash(s, where)
<1>1. t \in ReplicaState
  BY CrashKeeps DEF Keeps
<1>2. /\ t.id = s.id /\ t.view = s.view /\ t.status = "crashed"
      /\ t.log = s.log /\ t.lastOp = s.lastOp /\ t.lastCommitted = s.lastCommitted
      /\ t.executed = s.executed /\ t.clientTable = s.clientTable /\ t.out = s.out
      /\ t.prepareOKs = s.prepareOKs
  BY DEF Crash, ReplicaState
<1> HIDE DEF t
<1>3. LeaderStep(s, t)
  BY <1>1, <1>2, SameLeader
<1>4. LeaderStays(s, t)
  BY <1>2, <1>3 DEF LeaderStays
<1> QED BY <1>4 DEF t

\* The leader sends what LeaderMessage allows.
LEMMA LeaderSend ==
  ASSUME NEW s \in ReplicaState, Leader(s), NEW m \in Message, LeaderMessage(m, s)
  PROVE  LeaderStays(s, Send(s, m))
<1> DEFINE t == Send(s, m)
<1>1. t \in ReplicaState
  BY SendKeeps DEF Keeps
<1>2. /\ t.id = s.id /\ t.view = s.view /\ t.status = s.status
      /\ t.log = s.log /\ t.lastOp = s.lastOp /\ t.lastCommitted = s.lastCommitted
      /\ t.executed = s.executed /\ t.clientTable = s.clientTable /\ t.out = s.out \cup {m}
      /\ t.prepareOKs = s.prepareOKs
  BY DEF Send, ReplicaState
<1> HIDE DEF t
<1>3. \A a \in t.out : a \in s.out \/ LeaderMessage(a, s)
  BY <1>2
<1>4. LeaderStep(s, t)
  BY <1>1, <1>2, <1>3, SameLeader
<1>5. LeaderStays(s, t)
  BY <1>2, <1>4 DEF LeaderStays
<1> QED BY <1>5 DEF t

\* An entry of the shorter log is in the longer one.
LEMMA GrowsIs ==
  ASSUME NEW x \in Seq(Entry), NEW y \in Seq(Entry), Grows(x, y), NEW i \in 1 .. Len(x)
  PROVE  i <= Len(y) /\ y[i] = x[i]
BY DEF Grows

\* What is said of a log is true of a longer one: of a PREPARE,
LEMMA SoundPrepareGrows ==
  ASSUME NEW m \in PrepareMsgs, NEW x \in Seq(Entry), NEW y \in Seq(Entry), Grows(x, y),
         SoundPrepare(m, x)
  PROVE  SoundPrepare(m, y)
<1>1. /\ m.batchStart \in Nat /\ m.op \in Nat /\ Len(x) \in Nat /\ Len(y) \in Nat
      /\ Len(m.reqs) = m.op - m.batchStart + 1 /\ m.op <= Len(x) /\ m.batchStart > 0
      /\ Len(x) <= Len(y)
  BY DEF PrepareMsgs, SoundPrepare, Grows
<1>2. ASSUME NEW k \in 1 .. Len(m.reqs) PROVE m.reqs[k] = y[m.batchStart + k - 1].req
  <2> DEFINE i == m.batchStart + k - 1
  <2>1. i \in 1 .. Len(x)
    BY <1>1
  <2>2. m.reqs[k] = x[i].req
    BY DEF SoundPrepare
  <2> HIDE DEF i
  <2>3. m.reqs[k] = y[i].req
    BY <2>1, <2>2, GrowsIs
  <2> QED BY <2>3 DEF i
<1>3. m.op <= Len(y)
  BY <1>1
<1> QED BY <1>1, <1>2, <1>3 DEF SoundPrepare

\* The same of a state transfer,
LEMMA SoundTransferGrows ==
  ASSUME NEW m \in Transfers, NEW x \in Seq(Entry), NEW y \in Seq(Entry), Grows(x, y),
         SoundTransfer(m, x)
  PROVE  SoundTransfer(m, y)
<1> DEFINE d == m.dump
<1>1. d.first \in Nat \ {0} /\ Len(d.entries) \in Nat /\ SoundDump(d, x)
  BY DEF Transfers, DumpOf, SoundTransfer
<1> HIDE DEF d
<1>2. ASSUME NEW k \in 1 .. Len(d.entries)
      PROVE  d.first + k - 1 <= Len(y) /\ d.entries[k] = y[d.first + k - 1]
  <2> DEFINE i == d.first + k - 1
  <2>1. i \in 1 .. Len(x)
    BY <1>1 DEF SoundDump
  <2>2. d.entries[k] = x[i]
    BY <1>1 DEF SoundDump
  <2> HIDE DEF i
  <2>3. i <= Len(y) /\ d.entries[k] = y[i]
    BY <2>1, <2>2, GrowsIs
  <2> QED BY <2>3 DEF i
<1>3. SoundDump(d, y)
  BY <1>2 DEF SoundDump
<1> QED BY <1>3 DEF SoundTransfer, d

\* of any message of the leader,
LEMMA LeaderMessageGrows ==
  ASSUME NEW s \in ReplicaState, NEW t \in ReplicaState, Grows(s.log, t.log),
         s.lastCommitted <= t.lastCommitted, s.lastCommitted <= Len(s.log),
         NEW m \in Message, LeaderMessage(m, s)
  PROVE  LeaderMessage(m, t)
<1>1. s.log \in Seq(Entry) /\ t.log \in Seq(Entry) /\ Len(s.log) \in Nat
      /\ s.lastCommitted \in Nat /\ t.lastCommitted \in Nat
  BY FieldTypes
<1>2. CASE m.type = "reply" /\ SoundReply(m, s)
  <2>1. m.op \in Nat
    BY <1>2, MessageKinds DEF ReplyMsgs
  <2>2. CASE m.op > 0
    <3>1. m.op \in 1 .. Len(s.log) /\ m.op <= t.lastCommitted /\ s.log[m.op].req = m.req
      BY <1>1, <1>2, <2>1, <2>2 DEF SoundReply
    <3>2. t.log[m.op] = s.log[m.op]
      BY <1>1, <3>1, GrowsIs
    <3> QED BY <1>2, <3>1, <3>2 DEF SoundReply, LeaderMessage
  <2> QED BY <1>2, <2>2 DEF SoundReply, LeaderMessage
<1>3. CASE m.type = "prepare" /\ SoundPrepare(m, s.log)
  BY <1>1, <1>3, MessageKinds, SoundPrepareGrows DEF LeaderMessage
<1>4. CASE m.type = "commit" /\ m.view = 0 /\ 0 \notin m.to
  BY <1>4 DEF LeaderMessage
<1>5. CASE m.type = "stateTransfer" /\ SoundTransfer(m, s.log)
  BY <1>1, <1>5, MessageKinds, SoundTransferGrows DEF LeaderMessage
<1> QED BY <1>2, <1>3, <1>4, <1>5 DEF LeaderMessage

\* of any message of a backup,
LEMMA BackupMessageGrows ==
  ASSUME NEW s \in ReplicaState, NEW t \in ReplicaState, t.id = s.id,
         Len(s.log) <= Len(t.log), NEW x \in Seq(Entry), NEW y \in Seq(Entry), Grows(x, y),
         NEW m \in Message, BackupMessage(m, s, x)
  PROVE  BackupMessage(m, t, y)
<1>1. CASE m.type = "prepareOK" /\ m.view = 0 /\ m.from = s.id /\ m.op \in 1 .. Len(s.log)
  <2>1. m.op \in 1 .. Len(t.log)
    BY <1>1, FieldTypes
  <2> QED BY <1>1, <2>1 DEF BackupMessage
<1>2. CASE m.type = "requestStateTransfer" /\ m.view = 0 /\ m.from = s.id
  BY <1>2 DEF BackupMessage
<1>3. CASE m.type = "stateTransfer" /\ SoundTransfer(m, x)
  BY <1>3, MessageKinds, SoundTransferGrows DEF BackupMessage
<1> QED BY <1>1, <1>2, <1>3 DEF BackupMessage

\* and of a backup's record.
LEMMA BackupGrows ==
  ASSUME NEW s \in ReplicaState, NEW x \in Seq(Entry), NEW y \in Seq(Entry), Grows(x, y),
         Backup(s, x)
  PROVE  Backup(s, y)
<1>1. Grows(s.log, y)
  <2> DEFINE z == s.log
  <2>1. z \in Seq(Entry) /\ Grows(z, x)
    BY FieldTypes DEF Backup
  <2> HIDE DEF z
  <2>2. Len(x) \in Nat /\ Len(y) \in Nat /\ Len(z) \in Nat
    BY <2>1
  <2>3. Grows(z, y)
    BY <2>1, <2>2 DEF Grows
  <2> QED BY <2>3 DEF z
<1>2. \A i \in 1 .. Len(s.pendingPrepares) : SoundPrepare(s.pendingPrepares[i], y)
  BY FieldTypes, SoundPrepareGrows DEF Backup
<1>3. \A m \in s.out : BackupMessage(m, s, y)
  <2>1. Len(s.log) <= Len(s.log)
    BY FieldTypes
  <2> QED BY <2>1, FieldTypes, BackupMessageGrows DEF Backup
<1> QED BY <1>1, <1>2, <1>3 DEF Backup

\* A request that the leader's log does not have and its client table knows.
LEMMA LeaderPush ==
  ASSUME NEW s \in ReplicaState, Leader(s), NEW req \in Request,
         \A i \in 1 .. Len(s.log) : s.log[i].req # req,
         req.id <= s.clientTable[req.client].id
  PROVE  LET t == Push(s, [view |-> 0, req |-> req]) IN
         /\ LeaderStep(s, t) /\ Len(t.log) = Len(s.log) + 1
         /\ t.prepareOKs = s.prepareOKs /\ t.lastCommitted = s.lastCommitted
<1> DEFINE e == [view |-> 0, req |-> req]
           log == Append(s.log, e)
           t == [s EXCEPT !.lastOp = @ + 1, !.log = Append(@, e)]
<1>0. e \in Entry /\ e.view = 0 /\ e.req = req
  BY DEF Entry
<1> HIDE DEF e
<1>1. /\ s.lastOp = Len(s.log) /\ s.lastCommitted <= Len(s.log) /\ Len(s.log) \in Nat
      /\ Len(s.executed) = s.lastCommitted /\ s.lastCommitted \in Nat
      /\ \A i \in 1 .. s.lastCommitted : s.executed[i] = s.log[i].req
      /\ s.view = 0 /\ s.status \in {"normal", "crashed"} /\ s.id = 0
  BY FieldTypes DEF Leader, InStep
<1>2. Push(s, e) = t
  BY <1>1 DEF Push, MayAppend
<1>3. t \in ReplicaState
  BY <1>0, <1>2, PushKeeps DEF Keeps
<1>4. /\ Len(log) = Len(s.log) + 1 /\ log[Len(s.log) + 1] = e /\ log \in Seq(Entry)
      /\ \A i \in 1 .. Len(s.log) : log[i] = s.log[i]
  BY <1>0, FieldTypes
<1>5. /\ t.id = s.id /\ t.view = s.view /\ t.status = s.status
      /\ t.log = log /\ t.lastOp = s.lastOp + 1 /\ t.lastCommitted = s.lastCommitted
      /\ t.executed = s.executed /\ t.clientTable = s.clientTable /\ t.out = s.out
      /\ t.prepareOKs = s.prepareOKs
  BY DEF ReplicaState
<1> HIDE DEF t, log
<1>6. Grows(s.log, log)
  BY <1>1, <1>4 DEF Grows
<1>7. InStep(t)
  <2>1. \A i \in 1 .. s.lastCommitted : s.executed[i] = log[i].req
    BY <1>1, <1>4
  <2> QED BY <1>1, <1>4, <1>5, <2>1 DEF InStep
<1>8. \A m \in t.out : LeaderMessage(m, t)
  BY <1>1, <1>3, <1>5, <1>6, FieldTypes, LeaderMessageGrows DEF Leader
<1>9. ASSUME NEW i \in 1 .. Len(log)
      PROVE  log[i].view = 0 /\ log[i].req.id <= s.clientTable[log[i].req.client].id
  <2>1. CASE i \in 1 .. Len(s.log)
    BY <1>4, <2>1 DEF Leader
  <2>2. CASE i = Len(s.log) + 1
    BY <1>0, <1>4, <2>2
  <2> QED BY <1>1, <1>4, <2>1, <2>2
<1>10. ASSUME NEW i \in 1 .. Len(log), NEW j \in 1 .. Len(log), log[i].req = log[j].req
       PROVE  i = j
  <2>1. CASE i \in 1 .. Len(s.log) /\ j \in 1 .. Len(s.log)
    BY <1>4, <1>10, <2>1 DEF Leader
  <2>2. CASE i = Len(s.log) + 1 /\ j = Len(s.log) + 1
    BY <2>2
  <2>3. CASE i = Len(s.log) + 1 /\ j \in 1 .. Len(s.log)
    BY <1>0, <1>4, <1>10, <2>3
  <2>4. CASE i \in 1 .. Len(s.log) /\ j = Len(s.log) + 1
    BY <1>0, <1>4, <1>10, <2>4
  <2> QED BY <1>1, <1>4, <2>1, <2>2, <2>3, <2>4
<1>11. ASSUME NEW c \in Clients, t.clientTable[c].replied, t.clientTable[c].op > 0
       PROVE  Answered(t, c)
  <2>1. Answered(s, c)
    BY <1>5, <1>11 DEF Leader
  <2>2. s.clientTable[c].op \in 1 .. Len(s.log)
    BY <1>1, <2>1 DEF Answered
  <2>3. log[s.clientTable[c].op] = s.log[s.clientTable[c].op]
    BY <1>4, <2>2
  <2> QED BY <1>5, <2>1, <2>3 DEF Answered
<1>12. Leader(t)
  BY <1>1, <1>5, <1>7, <1>8, <1>9, <1>10, <1>11 DEF Leader
<1> QED BY <1>1, <1>2, <1>3, <1>4, <1>5, <1>6, <1>12 DEF LeaderStep, e

\* A row of the client table that is not older, and is answered only if executed.
LEMMA LeaderTable ==
  ASSUME NEW s \in ReplicaState, Leader(s), NEW c \in Clients,
         NEW row \in [id : Nat, replied : BOOLEAN, op : Nat],
         s.clientTable[c].id <= row.id, row.op = 0
  PROVE  LET t == [s EXCEPT !.clientTable[c] = row] IN
         LeaderStays(s, t) /\ t.clientTable[c] = row
<1> DEFINE table == [s.clientTable EXCEPT ![c] = row]
           t == [s EXCEPT !.clientTable = table]
<1>1. [s EXCEPT !.clientTable[c] = row] = t
  BY DEF ReplicaState
<1>2. /\ table \in [Clients -> [id : Nat, replied : BOOLEAN, op : Nat]] /\ table[c] = row
      /\ \A d \in Clients : d # c => table[d] = s.clientTable[d]
  BY FieldTypes
<1> HIDE DEF table
<1>3. /\ t \in ReplicaState /\ t.id = s.id /\ t.view = s.view /\ t.status = s.status
      /\ t.log = s.log /\ t.lastOp = s.lastOp /\ t.lastCommitted = s.lastCommitted
      /\ t.executed = s.executed /\ t.clientTable = table /\ t.out = s.out
      /\ t.prepareOKs = s.prepareOKs
  BY <1>2 DEF ReplicaState
<1> HIDE DEF t
<1>4. \A d \in Clients : s.clientTable[d].id <= table[d].id /\ s.clientTable[d].id \in Nat
                         /\ table[d].id \in Nat
  BY <1>2, FieldTypes
<1>5. InStep(t)
  BY <1>3 DEF Leader, InStep
<1>6. ASSUME NEW i \in 1 .. Len(s.log)
      PROVE  s.log[i].view = 0 /\ s.log[i].req.id <= table[s.log[i].req.client].id
  <2>1. Found(s.log, i)
    BY DEF Found
  <2>2. s.log[i].req.client \in Clients /\ s.log[i].req.id \in Nat
    BY <2>1, FieldTypes, EntryTypes
  <2>3. s.log[i].view = 0 /\ s.log[i].req.id <= s.clientTable[s.log[i].req.client].id
    BY DEF Leader
  <2> QED BY <1>4, <2>2, <2>3
<1>7. ASSUME NEW d \in Clients, t.clientTable[d].replied, t.clientTable[d].op > 0
      PROVE  Answered(t, d)
  <2>1. table[d] = s.clientTable[d]
    BY <1>2, <1>3, <1>7
  <2> QED BY <1>3, <1>7, <2>1 DEF Leader, Answered
<1>8. \A m \in t.out : LeaderMessage(m, t)
  BY <1>3 DEF Leader, LeaderMessage, SoundReply
<1>9. Leader(t)
  BY <1>3, <1>5, <1>6, <1>7, <1>8 DEF Leader
<1>10. Grows(s.log, t.log) /\ s.lastCommitted \in Nat
  BY <1>3, FieldTypes DEF Grows
<1>11. LeaderStays(s, t) /\ t.clientTable[c] = row
  BY <1>2, <1>3, <1>9, <1>10 DEF LeaderStays, LeaderStep
<1> QED BY <1>1, <1>11

\* A COMMIT of view 0 that does not go to the leader.
LEMMA LeaderSendCommit ==
  ASSUME NEW s \in ReplicaState, Leader(s)
  PROVE  LeaderStays(s, SendCommit(s))
<1> DEFINE m == [type |-> "commit", to |-> Others(s), view |-> s.view, op |-> s.lastCommitted]
<1>1. m \in Message
  BY FieldTypes, OthersAreReplicas DEF Message, CommitMsgs
<1>2. LeaderMessage(m, s)
  BY DEF LeaderMessage, Leader, InStep, Others
<1> QED BY <1>1, <1>2, LeaderSend DEF SendCommit

\* The PREPARE of a batch holds the operations after the last batch.
LEMMA LeaderCloseBatch ==
  ASSUME NEW s \in ReplicaState, Leader(s)
  PROVE  LeaderStays(s, CloseBatch(s))
<1> DEFINE reqs == [k \in 1 .. s.lastOp - s.lastBatchEnd |-> s.log[s.lastBatchEnd + k].req]
           m == [type |-> "prepare", to |-> Others(s), view |-> s.view,
                 op |-> s.lastOp, batchStart |-> s.lastBatchEnd + 1, reqs |-> reqs]
           t == [s EXCEPT !.lastBatchEnd = s.lastOp, !.batchComplete = FALSE]
<1>1. CloseBatch(s) \in {Crash(s, "CloseBatch"), Crash(s, "CloseBatchEntry")}
      \/ (s.lastBatchEnd < s.lastOp /\ CloseBatch(s) = Send(t, m))
  BY DEF CloseBatch
<1>2. CASE CloseBatch(s) \in {Crash(s, "CloseBatch"), Crash(s, "CloseBatchEntry")}
  BY <1>2, LeaderCrash DEF Faults
<1>3. CASE s.lastBatchEnd < s.lastOp /\ CloseBatch(s) = Send(t, m)
  <2>1. s.lastOp - s.lastBatchEnd \in Nat /\ s.lastOp \in Nat /\ s.lastBatchEnd \in Nat
        /\ s.lastOp = Len(s.log) /\ s.view = 0
    BY <1>3, FieldTypes DEF Leader, InStep
  <2>2. ASSUME NEW k \in 1 .. s.lastOp - s.lastBatchEnd
        PROVE  /\ s.log[s.lastBatchEnd + k].req \in Request
               /\ s.lastBatchEnd + 1 + k - 1 = s.lastBatchEnd + k
    <3>1. Found(s.log, s.lastBatchEnd + k)
      BY <2>1 DEF Found
    <3> QED BY <2>1, <3>1, FieldTypes, EntryTypes
  <2>3. /\ reqs \in Seq(Request) /\ Len(reqs) = s.lastOp - s.lastBatchEnd
        /\ \A k \in 1 .. Len(reqs) : reqs[k] = s.log[s.lastBatchEnd + 1 + k - 1].req
    <3> DEFINE n == s.lastOp - s.lastBatchEnd
    <3>1. n \in Nat /\ reqs = [k \in 1 .. n |-> s.log[s.lastBatchEnd + k].req]
          /\ \A k \in 1 .. n : s.log[s.lastBatchEnd + k].req \in Request
      BY <2>1, <2>2
    <3> HIDE DEF n, reqs
    <3>2. reqs \in Seq(Request) /\ Len(reqs) = n
          /\ \A k \in 1 .. n : reqs[k] = s.log[s.lastBatchEnd + k].req
      BY <3>1
    <3>3. \A k \in 1 .. n : s.lastBatchEnd + 1 + k - 1 = s.lastBatchEnd + k
      BY <2>2 DEF n
    <3>4. \A k \in 1 .. Len(reqs) : reqs[k] = s.log[s.lastBatchEnd + 1 + k - 1].req
      BY <3>2, <3>3
    <3> QED BY <3>2, <3>4 DEF n
  <2> HIDE DEF reqs
  <2>4. m \in PrepareMsgs /\ m \in Message
    BY <2>1, <2>3, FieldTypes, OthersAreReplicas DEF PrepareMsgs, Message
  <2>5. m.type = "prepare" /\ SoundPrepare(m, s.log)
    <3>1. 0 \notin Others(s)
      BY DEF Others, Leader
    <3> QED BY <2>1, <2>3, <3>1 DEF SoundPrepare
  <2>6. /\ t \in ReplicaState /\ t.id = s.id /\ t.view = s.view /\ t.status = s.status
        /\ t.log = s.log /\ t.lastOp = s.lastOp /\ t.lastCommitted = s.lastCommitted
        /\ t.executed = s.executed /\ t.clientTable = s.clientTable /\ t.out = s.out
        /\ t.prepareOKs = s.prepareOKs
    BY DEF ReplicaState
  <2> HIDE DEF m, t
  <2>7. LeaderStays(s, t) /\ Leader(t)
    BY <2>6, SameLeader DEF LeaderStays, LeaderStep
  <2>8. LeaderStays(t, Send(t, m))
    BY <2>4, <2>5, <2>6, <2>7, LeaderSend DEF LeaderMessage
  <2> QED BY <1>3, <2>6, <2>7, <2>8, LeaderStaysTransitive
<1> QED BY <1>1, <1>2, <1>3

\* A new request of a client: the log grows by one entry at most.
LEMMA LeaderAcceptRequest ==
  ASSUME NEW s \in ReplicaState, Leader(s), NEW req \in Request,
         \A i \in 1 .. Len(s.log) : s.log[i].req # req,
         req.id = s.clientTable[req.client].id
  PROVE  LET t == AcceptRequest(s, req) IN
         /\ LeaderStep(s, t) /\ Len(t.log) <= Len(s.log) + 1
         /\ t.prepareOKs = s.prepareOKs /\ t.lastCommitted = s.lastCommitted
<1> DEFINE row == [id |-> req.id, replied |-> TRUE, op |-> 0]
           t == [s EXCEPT !.clientTable[req.client] = row]
           e == [view |-> s.view, req |-> req]
           u == Push(s, e)
<1>0. s.view = 0 /\ Len(s.log) \in Nat /\ req.client \in Clients /\ req.id \in Nat
  BY FieldTypes DEF Leader, InStep, Request
<1>1. CASE req.client \in LeaderOnly
  <2>1. /\ row \in [id : Nat, replied : BOOLEAN, op : Nat] /\ row.op = 0
        /\ s.clientTable[req.client].id <= row.id
    BY <1>0
  <2>2. Reply(req, 0) \in Message /\ LeaderMessage(Reply(req, 0), t)
    BY DEF Reply, ReplyMsgs, Message, Ids, LeaderMessage, SoundReply
  <2>3. AcceptRequest(s, req) = Send(t, Reply(req, 0))
    BY <1>1 DEF AcceptRequest
  <2> HIDE DEF row
  <2>4. LeaderStays(s, t) /\ t \in ReplicaState /\ Leader(t)
    <3> DEFINE c == req.client
    <3>1. c \in Clients /\ s.clientTable[c].id <= row.id
      BY <1>0, <2>1
    <3> HIDE DEF c
    <3>2. LeaderStays(s, [s EXCEPT !.clientTable[c] = row])
      BY <2>1, <3>1, LeaderTable
    <3>3. LeaderStays(s, t)
      BY <3>2 DEF c
    <3> QED BY <3>3 DEF LeaderStays, LeaderStep
  <2> HIDE DEF t
  <2>5. LeaderStays(t, Send(t, Reply(req, 0)))
    BY <2>2, <2>4, LeaderSend
  <2>6. LeaderStays(s, AcceptRequest(s, req))
    BY <2>3, <2>4, <2>5, LeaderStaysTransitive
  <2> QED BY <1>0, <2>6 DEF LeaderStays
<1>2. CASE req.client \notin LeaderOnly
  <2>1. /\ LeaderStep(s, u) /\ Len(u.log) = Len(s.log) + 1
        /\ u.prepareOKs = s.prepareOKs /\ u.lastCommitted = s.lastCommitted
    BY <1>0, LeaderPush
  <2>2. AcceptRequest(s, req) \in {u, CloseBatch(u)}
    BY <1>2 DEF AcceptRequest, Then
  <2> HIDE DEF u
  <2>3. LeaderStays(u, u) /\ LeaderStays(u, CloseBatch(u))
    BY <2>1, LeaderStaysItself, LeaderCloseBatch DEF LeaderStep
  <2>4. LeaderStays(u, AcceptRequest(s, req))
    BY <2>2, <2>3
  <2>5. LeaderStep(s, AcceptRequest(s, req))
    BY <2>1, <2>4, LeaderStepTransitive DEF LeaderStays
  <2> QED BY <1>0, <2>1, <2>4, <2>5 DEF LeaderStays
<1> QED BY <1>1, <1>2

\* HandleRequest: an old number is dropped, the last one answered again from the client
\* table, a new one logged.
LEMMA LeaderHandleRequest ==
  ASSUME NEW s \in ReplicaState, Leader(s), NEW m \in RequestMsgs
  PROVE  LET t == HandleRequest(s, m) IN
         /\ LeaderStep(s, t) /\ Len(t.log) <= Len(s.log) + 1
         /\ t.prepareOKs = s.prepareOKs /\ t.lastCommitted = s.lastCommitted
<1> DEFINE c == m.req.client
           known == s.clientTable[c]
           t == [s EXCEPT !.addresses = @ \cup {c}]
           row == [id |-> m.req.id, replied |-> FALSE, op |-> 0]
           u == [t EXCEPT !.clientTable[c] = row]
           a == Reply(m.req, known.op)
<1>1. /\ m.req \in Request /\ c \in Clients /\ m.req.id \in Nat
      /\ m.req = [client |-> c, id |-> m.req.id] /\ Len(s.log) \in Nat
      /\ known \in [id : Nat, replied : BOOLEAN, op : Nat]
  BY FieldTypes DEF RequestMsgs, Request
<1>2. /\ t \in ReplicaState /\ t.id = s.id /\ t.view = s.view /\ t.status = s.status
      /\ t.log = s.log /\ t.lastOp = s.lastOp /\ t.lastCommitted = s.lastCommitted
      /\ t.executed = s.executed /\ t.clientTable = s.clientTable /\ t.out = s.out
      /\ t.prepareOKs = s.prepareOKs
  BY <1>1 DEF ReplicaState
<1>3. \/ HandleRequest(s, m) \in {s, t}
      \/ m.req.id = known.id /\ known.replied /\ HandleRequest(s, m) = Send(t, a)
      \/ ~(m.req.id < known.id) /\ m.req.id # known.id
         /\ HandleRequest(s, m) = Then(UpdateClientTable(t, m.req),
                                       LAMBDA x : AcceptRequest(x, m.req))
  BY DEF HandleRequest
<1> HIDE DEF t
<1>4. LeaderStays(s, t) /\ Leader(t)
  BY <1>2, SameLeader DEF LeaderStays, LeaderStep
<1>5. ASSUME NEW x, LeaderStays(s, x), HandleRequest(s, m) = x
      PROVE  LeaderStep(s, x) /\ Len(x.log) <= Len(s.log) + 1
             /\ x.prepareOKs = s.prepareOKs /\ x.lastCommitted = s.lastCommitted
  BY <1>1, <1>5 DEF LeaderStays
<1>6. CASE HandleRequest(s, m) \in {s, t}
  BY <1>4, <1>5, <1>6, LeaderStaysItself
<1>7. CASE m.req.id = known.id /\ known.replied /\ HandleRequest(s, m) = Send(t, a)
  <2>1. a \in Message
    BY <1>1 DEF Reply, ReplyMsgs, Message, Ids
  <2>2. a.op > 0 => Answered(s, c)
    BY <1>1, <1>7 DEF Leader, Reply
  <2>3. LeaderMessage(a, t)
    BY <1>1, <1>2, <1>7, <2>2 DEF Answered, Reply, LeaderMessage, SoundReply
  <2>4. LeaderStays(t, Send(t, a))
    BY <1>2, <1>4, <2>1, <2>3, LeaderSend
  <2>5. LeaderStays(s, Send(t, a))
    BY <1>4, <2>4, LeaderStaysTransitive
  <2> QED BY <1>5, <1>7, <2>5
<1>8. CASE ~(m.req.id < known.id) /\ m.req.id # known.id
           /\ HandleRequest(s, m) = Then(UpdateClientTable(t, m.req),
                                         LAMBDA x : AcceptRequest(x, m.req))
  <2>1. known.id < m.req.id /\ known.id \in Nat
    BY <1>1, <1>8
  <2>2. UpdateClientTable(t, m.req) = u
    BY <1>1, <1>2, <2>1 DEF UpdateClientTable
  <2>3. row \in [id : Nat, replied : BOOLEAN, op : Nat] /\ row.op = 0 /\ row.id = m.req.id
    BY <1>1
  <2>4. LeaderStays(t, u) /\ u.clientTable[c] = row
    <3>1. t.clientTable[c].id <= row.id
      BY <1>2, <2>1, <2>3
    <3> HIDE DEF row, c
    <3> QED BY <1>1, <1>2, <1>4, <2>3, <3>1, LeaderTable
  <2>5. u \in ReplicaState /\ Leader(u) /\ LeaderStays(s, u) /\ u.log = s.log
    BY <1>2, <1>4, <2>4, LeaderStaysTransitive DEF LeaderStays, LeaderStep
  <2> HIDE DEF u
  <2>6. HandleRequest(s, m) \in {u, AcceptRequest(u, m.req)}
    BY <1>8, <2>2 DEF Then
  <2>7. ASSUME NEW i \in 1 .. Len(u.log), u.log[i].req = m.req PROVE FALSE
    <3>1. s.log[i].req.id <= s.clientTable[s.log[i].req.client].id
      BY <2>5 DEF Leader
    <3>2. m.req.id <= known.id
      BY <2>5, <2>7, <3>1
    <3> QED BY <1>1, <2>1, <3>2
  <2>8. LET x == AcceptRequest(u, m.req) IN
        /\ LeaderStep(u, x) /\ Len(x.log) <= Len(u.log) + 1
        /\ x.prepareOKs = u.prepareOKs /\ x.lastCommitted = u.lastCommitted
    BY <1>1, <2>3, <2>4, <2>5, <2>7, LeaderAcceptRequest
  <2>9. CASE HandleRequest(s, m) = u
    BY <1>5, <2>5, <2>9
  <2>10. CASE HandleRequest(s, m) = AcceptRequest(u, m.req)
    <3>1. LeaderStep(s, AcceptRequest(u, m.req))
      BY <2>5, <2>8, LeaderStepTransitive DEF LeaderStays
    <3> QED BY <2>5, <2>8, <2>10, <3>1 DEF LeaderStays
  <2> QED BY <2>6, <2>9, <2>10
<1> QED BY <1>3, <1>6, <1>7, <1>8

\* CommitUpTo of the leader: replies are of executed requests, and the table points to
\* them.
LEMMA LeaderCommitUpTo ==
  ASSUME NEW s \in ReplicaState, Leader(s), NEW upto \in Nat
  PROVE  LET t == CommitUpTo(s, upto) IN
         /\ LeaderStep(s, t) /\ t.log = s.log /\ t.prepareOKs = s.prepareOKs
         /\ t.lastCommitted = s.lastCommitted \/ t.lastCommitted \in 1 .. upto
<1> DEFINE t == CommitUpTo(s, upto)
<1>1. /\ Commits(s, t) /\ InStep(s)
      /\ t.lastCommitted = s.lastCommitted \/ t.lastCommitted \in 1 .. upto
  BY CommitUpToCommits DEF Leader
<1> HIDE DEF t
<1>2. /\ t \in ReplicaState /\ InStep(t) /\ t.id = 0 /\ t.log = s.log
      /\ t.prepareOKs = s.prepareOKs /\ s.lastCommitted <= t.lastCommitted
      /\ s.lastCommitted \in Nat /\ t.lastCommitted \in Nat
  BY <1>1, FieldTypes DEF Commits, Leader
<1>3. Grows(s.log, t.log)
  BY <1>2, FieldTypes DEF Grows
<1>4. ASSUME NEW i \in 1 .. Len(t.log)
      PROVE  t.log[i].view = 0 /\ t.log[i].req.id <= t.clientTable[t.log[i].req.client].id
  <2> DEFINE c == t.log[i].req.client
  <2>1. Found(s.log, i)
    BY <1>2 DEF Found
  <2>2. c \in Clients /\ t.log[i].req.id \in Nat
    BY <1>2, <2>1, FieldTypes, EntryTypes
  <2>3. t.log[i].view = 0 /\ t.log[i].req.id <= s.clientTable[c].id
    BY <1>2 DEF Leader
  <2> HIDE DEF c
  <2>4. s.clientTable[c].id <= t.clientTable[c].id /\ s.clientTable[c].id \in Nat
        /\ t.clientTable[c].id \in Nat
    BY <1>1, <1>2, <2>2, FieldTypes DEF Commits
  <2>5. t.log[i].req.id <= t.clientTable[c].id
    BY <2>2, <2>3, <2>4
  <2> QED BY <2>3, <2>5 DEF c
<1>5. ASSUME NEW c \in Clients, t.clientTable[c].replied, t.clientTable[c].op > 0
      PROVE  Answered(t, c)
  <2>1. CASE t.clientTable[c] = s.clientTable[c]
    <3>1. Answered(s, c)
      BY <1>5, <2>1 DEF Leader
    <3>2. t.clientTable[c].op \in 1 .. t.lastCommitted
      BY <1>2, <2>1, <3>1 DEF Answered
    <3> QED BY <1>2, <2>1, <3>1, <3>2 DEF Answered
  <2> QED BY <1>1, <2>1 DEF Commits
<1>6. ASSUME NEW m \in t.out PROVE LeaderMessage(m, t)
  <2>1. CASE m \in s.out
    <3>1. LeaderMessage(m, s) /\ m \in Message /\ s.lastCommitted <= Len(s.log)
      BY <2>1, FieldTypes DEF Leader, InStep
    <3> QED BY <1>2, <1>3, <3>1, LeaderMessageGrows
  <2>2. CASE m.type = "reply" /\ SoundReply(m, t)
    BY <2>2 DEF LeaderMessage
  <2> QED BY <1>1, <2>1, <2>2 DEF Commits
<1>7. \A i, j \in 1 .. Len(t.log) : t.log[i].req = t.log[j].req => i = j
  BY <1>2 DEF Leader
<1>8. Leader(t)
  BY <1>2, <1>4, <1>5, <1>6, <1>7 DEF Leader
<1>9. LeaderStep(s, t)
  BY <1>2, <1>3, <1>8 DEF LeaderStep
<1> QED BY <1>1, <1>2, <1>9 DEF t

\* What follows the first quorum changes neither log nor counts.
LEMMA LeaderAfterQuorum ==
  ASSUME NEW s \in ReplicaState, Leader(s), NEW op \in Nat
  PROVE  LeaderStays(s, AfterQuorum(s, op))
<1> DEFINE t == SendCommit(s)
           u == [t EXCEPT !.batchComplete = TRUE]
<1>1. LeaderStays(s, t) /\ t \in ReplicaState /\ Leader(t)
  BY LeaderSendCommit DEF LeaderStays, LeaderStep
<1>2. AfterQuorum(s, op) \in {t, u, CloseBatch(u)}
  BY DEF AfterQuorum
<1> HIDE DEF t
<1>3. /\ u \in ReplicaState /\ u.id = t.id /\ u.view = t.view /\ u.status = t.status
      /\ u.log = t.log /\ u.lastOp = t.lastOp /\ u.lastCommitted = t.lastCommitted
      /\ u.executed = t.executed /\ u.clientTable = t.clientTable /\ u.out = t.out
      /\ u.prepareOKs = t.prepareOKs
  BY <1>1 DEF ReplicaState
<1> HIDE DEF u
<1>4. LeaderStays(t, u) /\ Leader(u)
  BY <1>1, <1>3, SameLeader DEF LeaderStays, LeaderStep
<1>5. LeaderStays(u, CloseBatch(u)) /\ LeaderStays(s, u)
  BY <1>1, <1>3, <1>4, LeaderCloseBatch, LeaderStaysTransitive
<1>6. LeaderStays(s, CloseBatch(u))
  BY <1>5, LeaderStaysTransitive
<1> QED BY <1>1, <1>2, <1>5, <1>6

\* The leader executes an operation when F backups have acknowledged it.
LEMMA LeaderHandlePrepareOK ==
  ASSUME NEW s \in ReplicaState, Leader(s), NEW m \in PrepareOKMsgs, m.view = 0,
         m.op \in 1 .. MaxOp
  PROVE  LET x == HandlePrepareOK(s, m)
             oks == [s.prepareOKs EXCEPT ![m.op] = @ \cup {m.from}] IN
         /\ LeaderStep(s, x) /\ x.log = s.log
         /\ x.prepareOKs \in {s.prepareOKs, oks}
         /\ \/ x.lastCommitted = s.lastCommitted
            \/ x.lastCommitted \in 1 .. m.op /\ ~(Cardinality(oks[m.op]) < F)
<1> DEFINE oks == [s.prepareOKs EXCEPT ![m.op] = @ \cup {m.from}]
           t == [s EXCEPT !.prepareOKs = oks]
           u == CommitUpTo(t, m.op)
           x == HandlePrepareOK(s, m)
<1>1. m.op \in Nat /\ m.from \in ReplicaIds /\ s.view = 0 /\ AmLeader(s)
  BY FirstLeader DEF PrepareOKMsgs, Leader, InStep
<1>2. oks \in [1 .. MaxOp -> Ids] /\ [s EXCEPT !.prepareOKs[m.op] = @ \cup {m.from}] = t
  <2>1. oks \in [1 .. MaxOp -> Ids]
    BY <1>1, FieldTypes DEF Ids
  <2> QED BY <2>1 DEF ReplicaState
<1>3. /\ t \in ReplicaState /\ t.id = s.id /\ t.view = s.view /\ t.status = s.status
      /\ t.log = s.log /\ t.lastOp = s.lastOp /\ t.lastCommitted = s.lastCommitted
      /\ t.executed = s.executed /\ t.clientTable = s.clientTable /\ t.out = s.out
      /\ t.prepareOKs = oks
  <2> HIDE DEF oks
  <2> QED BY <1>2 DEF ReplicaState
<1>4. x \in {s, t} \/ (~(Cardinality(oks[m.op]) < F) /\ x \in {u, AfterQuorum(u, m.op)})
  BY <1>1, <1>2, <1>3 DEF HandlePrepareOK, Then
<1> HIDE DEF t, x, oks
<1>5. LeaderStep(s, t) /\ Leader(t)
  BY <1>3, SameLeader DEF LeaderStep
<1>6. /\ LeaderStep(t, u) /\ u.log = t.log /\ u.prepareOKs = t.prepareOKs
      /\ u.lastCommitted = t.lastCommitted \/ u.lastCommitted \in 1 .. m.op
      /\ u \in ReplicaState /\ Leader(u)
  BY <1>1, <1>3, <1>5, LeaderCommitUpTo DEF LeaderStep
<1> HIDE DEF u
<1>7. LeaderStep(s, u)
  BY <1>3, <1>5, <1>6, LeaderStepTransitive
<1>8. CASE x \in {s, t}
  BY <1>3, <1>5, <1>8, LeaderStepItself DEF x, oks
<1>9. CASE ~(Cardinality(oks[m.op]) < F) /\ x \in {u, AfterQuorum(u, m.op)}
  <2>1. LeaderStays(u, x)
    BY <1>1, <1>6, <1>9, LeaderStaysItself, LeaderAfterQuorum
  <2>2. LeaderStep(s, x) /\ x.log = s.log /\ x.prepareOKs = oks
        /\ (x.lastCommitted = s.lastCommitted \/ x.lastCommitted \in 1 .. m.op)
    BY <1>3, <1>6, <1>7, <2>1, LeaderStepTransitive DEF LeaderStays
  <2> QED BY <1>9, <2>2 DEF x, oks
<1> QED BY <1>4, <1>8, <1>9

\* The leader sends a part of its log.
LEMMA LeaderHandleRequestStateTransfer ==
  ASSUME NEW s \in ReplicaState, Leader(s), NEW m \in TransferRequests, m.view = 0, m.from # 0
  PROVE  LeaderStays(s, HandleRequestStateTransfer(s, m))
<1> DEFINE dump == Dump(s.log, m.op + 1)
           a == [type |-> "stateTransfer", to |-> {m.from}, view |-> s.view,
                 op |-> s.lastCommitted, dump |-> dump]
<1>1. m.op + 1 \in Nat /\ {m.from} \in Ids /\ s.view = 0
  BY DEF TransferRequests, Ids, Leader, InStep
<1>2. dump \in DumpOf /\ SoundDump(dump, s.log)
  <2> DEFINE log == s.log
  <2>1. log \in Seq(Entry)
    BY FieldTypes
  <2> HIDE DEF log
  <2>2. Grows(log, log)
    BY <2>1 DEF Grows
  <2>3. Dump(log, m.op + 1) \in DumpOf /\ SoundDump(Dump(log, m.op + 1), log)
    BY <1>1, <2>1, <2>2, DumpTypes, DumpIsSound
  <2> QED BY <2>3 DEF log
<1>3. HandleRequestStateTransfer(s, m) \in {s, Send(s, a)}
  BY <1>1 DEF HandleRequestStateTransfer
<1> HIDE DEF dump
<1>4. a \in Message
  BY <1>1, <1>2, FieldTypes DEF Message, Transfers
<1>5. LeaderMessage(a, s)
  BY <1>1, <1>2 DEF LeaderMessage, SoundTransfer
<1> HIDE DEF a
<1> QED BY <1>3, <1>4, <1>5, LeaderStaysItself, LeaderSend

-----------------------------------------------------------------------------
\* The steps of the first view.

\* What is known of a message that has been sent in the first view.
LEMMA FirstViewMessages ==
  ASSUME TypeOK, FirstViewInv, NEW m \in msgs
  PROVE  /\ m.type \in {"request", "reply", "prepare", "commit", "stateTransfer",
                        "prepareOK", "requestStateTransfer"}
         /\ m.type = "prepare" => SoundPrepare(m, rep[0].log)
         /\ m.type = "commit" => m.view = 0 /\ 0 \notin m.to
         /\ m.type = "stateTransfer" => SoundTransfer(m, rep[0].log)
         /\ m.type = "prepareOK" =>
               m.view = 0 /\ m.from \in Backups /\ m.op \in 1 .. Len(rep[m.from].log)
         /\ m.type = "requestStateTransfer" => m.view = 0 /\ m.from # 0
         /\ m.type = "reply" => SoundReply(m, rep[0])
<1>1. CASE m.type = "request"
  BY <1>1
<1>2. CASE LeaderMessage(m, rep[0])
  BY <1>2 DEF LeaderMessage
<1>3. ASSUME NEW r \in Backups, BackupMessage(m, rep[r], rep[0].log)
      PROVE  /\ m.type \in {"stateTransfer", "prepareOK", "requestStateTransfer"}
             /\ m.type = "stateTransfer" => SoundTransfer(m, rep[0].log)
             /\ m.type = "prepareOK" =>
                   m.view = 0 /\ m.from \in Backups /\ m.op \in 1 .. Len(rep[m.from].log)
             /\ m.type = "requestStateTransfer" => m.view = 0 /\ m.from # 0
  <2>1. rep[r].id = r /\ r # 0
    BY DEF TypeOK, Backups
  <2> QED BY <1>3, <2>1 DEF BackupMessage
<1> QED BY <1>1, <1>2, <1>3 DEF FirstViewInv

\* The backups that hold an operation are finitely many.
LEMMA HoldersAreFinite ==
  ASSUME NEW op
  PROVE  IsFiniteSet(Holders(op)) /\ Cardinality(Holders(op)) \in Nat
<1>1. IsFiniteSet(ReplicaIds)
  <2>1. 0 \in Int /\ N - 1 \in Int
    BY SizeAssumption
  <2> QED BY <2>1, FS_Interval DEF ReplicaIds
<1>2. Holders(op) \subseteq ReplicaIds
  BY DEF Holders, Backups
<1>3. IsFiniteSet(Holders(op))
  BY <1>1, <1>2, FS_Subset
<1> QED BY <1>3, FS_CardinalityType

\* A backup has moved; or the leader has, and counts only backups that hold the
\* operation they acknowledged.
BackupMoves(r) == \E t : BackupStep(rep[r], t, rep[0].log) /\ Step(r, t)

LeaderMoves ==
    \E t : /\ LeaderStep(rep[0], t) /\ Step(0, t) /\ Len(t.log) <= MaxOp
           /\ \A op \in 1 .. MaxOp : t.prepareOKs[op] \subseteq Holders(op)
           /\ t.lastCommitted > 0 => Cardinality(Holders(t.lastCommitted)) >= F

\* The leader's record and the log of the leader.
LEMMA FirstViewRecords ==
  ASSUME TypeOK, FirstViewInv
  PROVE  /\ 0 \in ReplicaIds /\ rep[0] \in ReplicaState /\ Leader(rep[0])
         /\ rep[0].log \in Seq(Entry) /\ LeaderLog(rep[0].log)
         /\ \A r \in Backups : r \in ReplicaIds /\ rep[r] \in ReplicaState /\ r # 0
                               /\ Backup(rep[r], rep[0].log) /\ ~AmLeader(rep[r])
         /\ AmLeader(rep[0])
<1>1. 0 \in ReplicaIds
  BY SizeAssumption DEF ReplicaIds
<1>2. rep[0] \in ReplicaState /\ Leader(rep[0]) /\ rep[0].log \in Seq(Entry)
  BY <1>1, FieldTypes DEF TypeOK, FirstViewInv
<1>3. LeaderLog(rep[0].log)
  BY <1>2 DEF Leader, LeaderLog
<1>4. \A r \in Backups : r \in ReplicaIds /\ rep[r] \in ReplicaState /\ r # 0
                         /\ Backup(rep[r], rep[0].log)
  BY DEF Backups, TypeOK, FirstViewInv
<1>5. \A r \in Backups : ~AmLeader(rep[r])
  BY <1>4, FirstLeader DEF Backup, InStep
<1>6. AmLeader(rep[0])
  BY <1>2, FirstLeader DEF Leader, InStep
<1> QED BY <1>1, <1>2, <1>3, <1>4, <1>5, <1>6

\* Every handler and timer of a backup is such a step.
LEMMA BackupHandlersMove ==
  ASSUME TypeOK, FirstViewInv, NEW r \in Backups
  PROVE  /\ ReceiveRequest(r) => BackupMoves(r)
         /\ ReceivePrepare(r) => BackupMoves(r)
         /\ ReceivePrepareOK(r) => BackupMoves(r)
         /\ ReceiveCommit(r) => BackupMoves(r)
         /\ ReceiveRequestStateTransfer(r) => BackupMoves(r)
         /\ ReceiveStateTransfer(r) => BackupMoves(r)
         /\ ~NullCommitTimeout(r) /\ ~CloseBatchTimeout(r)
         /\ StateTransferTimeout(r) => BackupMoves(r)
<1> DEFINE s == rep[r]
           log == rep[0].log
<1>1. s \in ReplicaState /\ Backup(s, log) /\ ~AmLeader(s) /\ LeaderLog(log) /\ s.view = 0
  BY FirstViewRecords DEF Backup, InStep
<1>2. \A type : \A m \in Inbox(r, type) : m \in msgs /\ m \in Message /\ m.type = type
  BY DEF Inbox, TypeOK
<1>3. BackupStep(s, s, log)
  BY <1>1, BackupStepItself
<1>4. ReceiveRequest(r) => BackupMoves(r)
  <2>1. \A m : HandleRequest(s, m) = s
    BY <1>1 DEF HandleRequest
  <2> QED BY <1>3, <2>1 DEF ReceiveRequest, BackupMoves
<1>5. ReceivePrepare(r) => BackupMoves(r)
  <2>1. \A m \in Inbox(r, "prepare") : BackupStep(s, HandlePrepare(s, m), log)
    <3> TAKE m \in Inbox(r, "prepare")
    <3>1. m \in PrepareMsgs /\ SoundPrepare(m, log)
      BY <1>2, MessageKinds, FirstViewMessages
    <3> QED BY <1>1, <3>1, BackupHandlePrepare
  <2> QED BY <2>1 DEF ReceivePrepare, BackupMoves
<1>6. ReceivePrepareOK(r) => BackupMoves(r)
  <2>1. \A m \in Inbox(r, "prepareOK") : HandlePrepareOK(s, m) = s
    <3> TAKE m \in Inbox(r, "prepareOK")
    <3>1. m.view = 0
      BY <1>2, FirstViewMessages
    <3> QED BY <1>1, <3>1 DEF HandlePrepareOK
  <2> QED BY <1>3, <2>1 DEF ReceivePrepareOK, BackupMoves
<1>7. ReceiveCommit(r) => BackupMoves(r)
  <2>1. \A m \in Inbox(r, "commit") : BackupStep(s, HandleCommit(s, m), log)
    <3> TAKE m \in Inbox(r, "commit")
    <3>1. m \in CommitMsgs /\ m.view = 0
      BY <1>2, MessageKinds, FirstViewMessages
    <3> QED BY <1>1, <3>1, BackupHandleCommit
  <2> QED BY <2>1 DEF ReceiveCommit, BackupMoves
<1>8. ReceiveRequestStateTransfer(r) => BackupMoves(r)
  <2>1. \A m \in Inbox(r, "requestStateTransfer") :
            BackupStep(s, HandleRequestStateTransfer(s, m), log)
    <3> TAKE m \in Inbox(r, "requestStateTransfer")
    <3>1. m \in TransferRequests /\ m.from # 0
      BY <1>2, MessageKinds, FirstViewMessages
    <3> QED BY <1>1, <3>1, BackupHandleRequestStateTransfer
  <2> QED BY <2>1 DEF ReceiveRequestStateTransfer, BackupMoves
<1>9. ReceiveStateTransfer(r) => BackupMoves(r)
  <2>1. \A m \in Inbox(r, "stateTransfer") : BackupStep(s, HandleStateTransfer(s, m), log)
    <3> TAKE m \in Inbox(r, "stateTransfer")
    <3>1. m \in Transfers /\ SoundTransfer(m, log)
      BY <1>2, MessageKinds, FirstViewMessages
    <3> QED BY <1>1, <3>1, BackupHandleStateTransfer
  <2> QED BY <2>1 DEF ReceiveStateTransfer, BackupMoves
<1>10. ~NullCommitTimeout(r) /\ ~CloseBatchTimeout(r)
  BY <1>1 DEF NullCommitTimeout, CloseBatchTimeout
<1>11. StateTransferTimeout(r) => BackupMoves(r)
  <2> DEFINE t == [s EXCEPT !.lastRequest = [view |-> 0, op |-> 0]]
  <2>1. /\ t \in ReplicaState /\ t.id = s.id /\ t.view = s.view /\ t.status = s.status
        /\ t.log = s.log /\ t.lastOp = s.lastOp /\ t.lastCommitted = s.lastCommitted
        /\ t.executed = s.executed /\ t.addresses = s.addresses
        /\ t.pendingPrepares = s.pendingPrepares /\ t.out = s.out
    BY <1>1 DEF ReplicaState
  <2>2. StateTransferTimeout(r) => Step(r, t)
    BY DEF StateTransferTimeout
  <2> HIDE DEF t
  <2>3. \A i \in 1 .. Len(t.pendingPrepares) : SoundPrepare(t.pendingPrepares[i], log)
    BY <1>1, <2>1 DEF Backup
  <2>4. BackupStep(s, t, log)
    BY <1>1, <2>1, <2>3, SameBackup
  <2> QED BY <2>2, <2>4 DEF BackupMoves
<1> QED BY <1>4, <1>5, <1>6, <1>7, <1>8, <1>9, <1>10, <1>11

\* A step of the leader that counts nothing new.
LEMMA LeaderStaysMoves ==
  ASSUME TypeOK, FirstViewInv, NEW t, LeaderStays(rep[0], t), Step(0, t)
  PROVE  LeaderMoves
BY DEF LeaderStays, LeaderMoves, FirstViewInv

\* Every handler and timer of the leader is one, or cannot happen.
LEMMA LeaderHandlersMove ==
  ASSUME TypeOK, FirstViewInv
  PROVE  /\ ReceiveRequest(0) => LeaderMoves
         /\ ~ReceivePrepare(0) /\ ~ReceiveCommit(0) /\ ~ReceiveStateTransfer(0)
         /\ ReceivePrepareOK(0) => LeaderMoves
         /\ ReceiveRequestStateTransfer(0) => LeaderMoves
         /\ NullCommitTimeout(0) => LeaderMoves
         /\ CloseBatchTimeout(0) => LeaderMoves
         /\ StateTransferTimeout(0) => LeaderMoves
<1> DEFINE s == rep[0]
<1>1. /\ s \in ReplicaState /\ Leader(s) /\ AmLeader(s) /\ s.lastOp = Len(s.log)
      /\ Len(s.log) \in Nat /\ Len(s.log) <= MaxOp /\ MaxOp \in Nat
  BY FirstViewRecords, FieldTypes, BoundAssumption DEF Leader, InStep, FirstViewInv
<1>2. \A type : \A m \in Inbox(0, type) :
        m \in msgs /\ m \in Message /\ m.type = type /\ 0 \in m.to
  BY DEF Inbox, TypeOK
<1>3. ReceiveRequest(0) => LeaderMoves
  <2>1. ASSUME ReceiveRequest(0) PROVE LeaderMoves
    <3>1. PICK m \in Inbox(0, "request") : Step(0, HandleRequest(s, m))
      BY <2>1 DEF ReceiveRequest
    <3> DEFINE t == HandleRequest(s, m)
    <3>2. m \in RequestMsgs
      BY <1>2, MessageKinds
    <3>3. /\ LeaderStep(s, t) /\ Len(t.log) <= Len(s.log) + 1
          /\ t.prepareOKs = s.prepareOKs /\ t.lastCommitted = s.lastCommitted
      BY <1>1, <3>2, LeaderHandleRequest
    <3>4. Step(0, t)
      BY <3>1
    <3> HIDE DEF t
    <3>5. Len(t.log) <= MaxOp
      <4>1. Len(t.log) \in Nat /\ Len(s.log) < MaxOp
        BY <1>1, <2>1, <3>3, FieldTypes DEF ReceiveRequest, LeaderStep
      <4> QED BY <1>1, <3>3, <4>1
    <3> QED BY <3>3, <3>4, <3>5 DEF LeaderMoves, FirstViewInv
  <2> QED BY <2>1
<1>4. ~ReceivePrepare(0) /\ ~ReceiveCommit(0) /\ ~ReceiveStateTransfer(0)
  <2>1. \A m \in Inbox(0, "prepare") : FALSE
    BY <1>2, FirstViewMessages DEF SoundPrepare
  <2>2. \A m \in Inbox(0, "commit") : FALSE
    BY <1>2, FirstViewMessages
  <2>3. \A m \in Inbox(0, "stateTransfer") : FALSE
    BY <1>2, FirstViewMessages DEF SoundTransfer
  <2> QED BY <2>1, <2>2, <2>3 DEF ReceivePrepare, ReceiveCommit, ReceiveStateTransfer
<1>5. ReceivePrepareOK(0) => LeaderMoves
  <2>1. ASSUME ReceivePrepareOK(0) PROVE LeaderMoves
    <3>1. PICK m \in Inbox(0, "prepareOK") : Step(0, HandlePrepareOK(s, m))
      BY <2>1 DEF ReceivePrepareOK
    <3> DEFINE t == HandlePrepareOK(s, m)
               oks == [s.prepareOKs EXCEPT ![m.op] = @ \cup {m.from}]
    <3>2. /\ m \in PrepareOKMsgs /\ m.view = 0 /\ m.from \in Backups
          /\ m.op \in 1 .. Len(rep[m.from].log) /\ m.op \in Nat
      BY <1>2, MessageKinds, FirstViewMessages DEF PrepareOKMsgs
    <3>3. m.op \in 1 .. MaxOp /\ m.from \in Holders(m.op)
      <4>1. Len(rep[m.from].log) <= Len(s.log) /\ Len(rep[m.from].log) \in Nat
        BY <3>2, FirstViewRecords, FieldTypes DEF Backup, Grows
      <4> QED BY <1>1, <3>2, <4>1 DEF Holders
    <3>4. /\ LeaderStep(s, t) /\ t.log = s.log
          /\ t.prepareOKs \in {s.prepareOKs, oks}
          /\ \/ t.lastCommitted = s.lastCommitted
             \/ t.lastCommitted \in 1 .. m.op /\ ~(Cardinality(oks[m.op]) < F)
      BY <1>1, <3>2, <3>3, LeaderHandlePrepareOK
    <3>5. Step(0, t)
      BY <3>1
    <3>6. \A op \in 1 .. MaxOp : oks[op] \subseteq Holders(op)
      <4>1. s.prepareOKs \in [1 .. MaxOp -> Ids]
        BY <1>1, FieldTypes
      <4> QED BY <3>3, <4>1 DEF FirstViewInv
    <3> HIDE DEF t, oks
    <3>7. t.lastCommitted > 0 => Cardinality(Holders(t.lastCommitted)) >= F
      <4>1. CASE t.lastCommitted = s.lastCommitted
        BY <4>1 DEF FirstViewInv
      <4>2. CASE t.lastCommitted \in 1 .. m.op /\ ~(Cardinality(oks[m.op]) < F)
        <5>1. Holders(m.op) \subseteq Holders(t.lastCommitted)
          <6>1. \A r \in Backups : Len(rep[r].log) \in Nat
            BY FirstViewRecords, FieldTypes
          <6> QED BY <3>3, <4>2, <6>1 DEF Holders
        <5>2. oks[m.op] \subseteq Holders(t.lastCommitted)
          BY <3>3, <3>6, <5>1
        <5>3. Cardinality(oks[m.op]) <= Cardinality(Holders(t.lastCommitted))
              /\ Cardinality(oks[m.op]) \in Nat
          BY <5>2, HoldersAreFinite, FS_Subset, FS_CardinalityType
        <5>4. Cardinality(Holders(t.lastCommitted)) \in Nat /\ F \in Nat
          BY HoldersAreFinite, SizeAssumption
        <5> QED BY <4>2, <5>3, <5>4
      <4> QED BY <3>4, <4>1, <4>2
    <3>8. \A op \in 1 .. MaxOp : t.prepareOKs[op] \subseteq Holders(op)
      BY <3>4, <3>6 DEF FirstViewInv
    <3> QED BY <1>1, <3>4, <3>5, <3>7, <3>8 DEF LeaderMoves
  <2> QED BY <2>1
<1>6. ReceiveRequestStateTransfer(0) => LeaderMoves
  <2>1. \A m \in Inbox(0, "requestStateTransfer") :
            LeaderStays(s, HandleRequestStateTransfer(s, m))
    <3> TAKE m \in Inbox(0, "requestStateTransfer")
    <3>1. m \in TransferRequests /\ m.view = 0 /\ m.from # 0
      BY <1>2, MessageKinds, FirstViewMessages
    <3> QED BY <1>1, <3>1, LeaderHandleRequestStateTransfer
  <2> QED BY <2>1, LeaderStaysMoves DEF ReceiveRequestStateTransfer
<1>7. NullCommitTimeout(0) => LeaderMoves
  <2>1. LeaderStays(s, SendCommit(s))
    BY <1>1, LeaderSendCommit
  <2> QED BY <2>1, LeaderStaysMoves DEF NullCommitTimeout
<1>8. CloseBatchTimeout(0) => LeaderMoves
  <2>1. LeaderStays(s, CloseBatch(s))
    BY <1>1, LeaderCloseBatch
  <2> QED BY <2>1, LeaderStaysMoves DEF CloseBatchTimeout
<1>9. StateTransferTimeout(0) => LeaderMoves
  <2> DEFINE t == [s EXCEPT !.lastRequest = [view |-> 0, op |-> 0]]
  <2>1. /\ t \in ReplicaState /\ t.id = s.id /\ t.view = s.view /\ t.status = s.status
        /\ t.log = s.log /\ t.lastOp = s.lastOp /\ t.lastCommitted = s.lastCommitted
        /\ t.executed = s.executed /\ t.clientTable = s.clientTable /\ t.out = s.out
        /\ t.prepareOKs = s.prepareOKs
    BY <1>1 DEF ReplicaState
  <2>2. StateTransferTimeout(0) => Step(0, t)
    BY DEF StateTransferTimeout
  <2> HIDE DEF t
  <2>3. LeaderStays(s, t)
    BY <1>1, <2>1, SameLeader DEF LeaderStays
  <2> QED BY <2>2, <2>3, LeaderStaysMoves
<1> QED BY <1>3, <1>4, <1>5, <1>6, <1>7, <1>8, <1>9

\* All logs and the network are empty at first.
LEMMA FirstViewInit ==
  ASSUME Init
  PROVE  FirstViewInv
<1>1. 0 \in ReplicaIds /\ MaxOp \in Nat
  BY SizeAssumption, BoundAssumption DEF ReplicaIds
<1> DEFINE table == [c \in Clients |-> [id |-> 0, replied |-> FALSE, op |-> 0]]
           status(r) == IF r \in Down THEN "crashed" ELSE "normal"
<1>2. \A r \in ReplicaIds : rep[r] = Fresh(r, status(r), 0) /\ status(r) \in {"normal", "crashed"}
  BY DEF Init
<1> HIDE DEF status
<1>9. ASSUME NEW r, NEW st, NEW s, s = Fresh(r, st, 0)
      PROVE  /\ s.id = r /\ s.view = 0 /\ s.status = st
             /\ s.log = << >> /\ s.lastOp = 0 /\ s.lastCommitted = 0
             /\ s.executed = << >> /\ s.addresses = {} /\ s.pendingPrepares = << >>
             /\ s.prepareOKs = NoQuorum /\ s.out = {}
             /\ s.clientTable = table
  BY <1>9 DEF Fresh
<1>10. \A c \in Clients : ~table[c].replied
  OBVIOUS
<1> HIDE DEF table
<1>3. \A r \in ReplicaIds :
        /\ rep[r].id = r /\ rep[r].view = 0 /\ rep[r].status \in {"normal", "crashed"}
        /\ rep[r].log = << >> /\ rep[r].lastOp = 0 /\ rep[r].lastCommitted = 0
        /\ rep[r].executed = << >> /\ rep[r].addresses = {} /\ rep[r].pendingPrepares = << >>
        /\ rep[r].prepareOKs = NoQuorum /\ rep[r].out = {}
        /\ rep[r].clientTable = table
  <2> TAKE r \in ReplicaIds
  <2>1. rep[r] = Fresh(r, status(r), 0) /\ status(r) \in {"normal", "crashed"}
    BY <1>2
  <2> DEFINE s == rep[r]
  <2>2. s = Fresh(r, status(r), 0)
    BY <2>1
  <2> HIDE DEF s
  <2>3. /\ s.id = r /\ s.view = 0 /\ s.status = status(r)
        /\ s.log = << >> /\ s.lastOp = 0 /\ s.lastCommitted = 0
        /\ s.executed = << >> /\ s.addresses = {} /\ s.pendingPrepares = << >>
        /\ s.prepareOKs = NoQuorum /\ s.out = {}
        /\ s.clientTable = table
    BY <2>2, <1>9
  <2> QED BY <2>1, <2>3 DEF s
<1>4. \A r \in ReplicaIds : InStep(rep[r])
  BY <1>3 DEF InStep
<1>5. \A r \in Backups : Backup(rep[r], rep[0].log)
  <2> TAKE r \in Backups
  <2>1. r \in ReplicaIds /\ r # 0
    BY DEF Backups
  <2>2. Grows(rep[r].log, rep[0].log)
    BY <1>1, <1>3, <2>1 DEF Grows
  <2>3. Len(rep[r].pendingPrepares) = 0
    BY <1>3, <2>1
  <2> QED BY <1>3, <1>4, <2>1, <2>2, <2>3 DEF Backup
<1>6. Leader(rep[0])
  <2>1. Len(rep[0].log) = 0
    BY <1>1, <1>3
  <2>2. \A c \in Clients : ~rep[0].clientTable[c].replied
    BY <1>1, <1>3, <1>10
  <2> QED BY <1>1, <1>3, <1>4, <2>1, <2>2 DEF Leader
<1>7. /\ Len(rep[0].log) <= MaxOp /\ rep[0].lastCommitted = 0 /\ msgs = {}
      /\ \A op \in 1 .. MaxOp : rep[0].prepareOKs[op] = {}
  BY <1>1, <1>3 DEF Init, NoQuorum
<1> QED BY <1>5, <1>6, <1>7 DEF FirstViewInv

\* A run is in the first view only as long as it has always been.
LEMMA FirstViewBefore ==
  ASSUME TypeOK, RecoversFromZero, Next, FirstView'
  PROVE  /\ FirstView
         /\ \A r \in ReplicaIds : ~Restart(r) /\ ~ViewChangeTimeout(r)
<1>0. \A r \in ReplicaIds : rep[r] \in ReplicaState /\ rep[r].id = r
                            /\ rep[r].view \in Nat /\ rep[r].nonce \in Nat
  BY FieldTypes DEF TypeOK
<1>1. ASSUME NEW r \in ReplicaIds, Restart(r) PROVE FALSE
  <2>1. PICK s \in ReplicaState : Step(r, s) /\ s.id = r /\ s.nonce = rep[r].nonce + 1
    BY <1>1, RestartIs
  <2>2. /\ rep' \in [ReplicaIds -> ReplicaState] /\ \A q \in ReplicaIds \ {r} : rep'[q] = rep[q]
        /\ rep'[r].id = r /\ rep'[r].out = {} /\ rep'[r].view = s.view
        /\ rep'[r].nonce = s.nonce /\ rep'[r].status = s.status
        /\ rep'[r].executed = s.executed
        /\ msgs' \subseteq Message /\ client' = client
    BY <2>1, StepIs
  <2>3. rep'[r].nonce = 0
    BY DEF FirstView
  <2> QED BY <1>0, <2>1, <2>2, <2>3
<1>2. ASSUME NEW r \in ReplicaIds, ViewChangeTimeout(r) PROVE FALSE
  <2> DEFINE s == rep[r]
             t == StartViewChange(s, s.view + 1)
  <2>1. s.view + 1 \in Nat /\ s.view < s.view + 1
    BY <1>0
  <2>2. Forward(s, t) /\ t.view = s.view + 1
    BY <1>0, <2>1, FieldTypes, StartViewChangeForward
  <2>3. Step(r, t)
    BY <1>2 DEF ViewChangeTimeout
  <2> HIDE DEF t
  <2>4. t \in ReplicaState /\ t.id = r
    BY <1>0, <2>2 DEF Forward
  <2>5. /\ rep' \in [ReplicaIds -> ReplicaState] /\ \A q \in ReplicaIds \ {r} : rep'[q] = rep[q]
        /\ rep'[r].id = r /\ rep'[r].out = {} /\ rep'[r].view = t.view
        /\ rep'[r].nonce = t.nonce /\ rep'[r].status = t.status
        /\ rep'[r].executed = t.executed
        /\ msgs' \subseteq Message /\ client' = client
    BY <2>3, <2>4, StepIs
  <2>6. rep'[r].view = 0
    BY DEF FirstView
  <2> QED BY <1>0, <2>2, <2>5, <2>6
<1>3. ASSUME NEW r \in ReplicaIds, Advances(r) PROVE FirstView
  <2>1. PICK s : Forward(rep[r], s) /\ Step(r, s)
    BY <1>3 DEF Advances
  <2>2. s \in ReplicaState /\ s.id = r /\ s.view >= rep[r].view /\ s.nonce = rep[r].nonce
    BY <1>0, <2>1 DEF Forward
  <2>3. rep'[r].view = s.view /\ rep'[r].nonce = s.nonce
        /\ \A q \in ReplicaIds \ {r} : rep'[q] = rep[q]
    BY <2>1, <2>2, StepIs
  <2>4. rep'[r].view = 0 /\ rep'[r].nonce = 0
    BY DEF FirstView
  <2>5. rep[r].view = 0 /\ rep[r].nonce = 0
    BY <1>0, <2>2, <2>3, <2>4
  <2> QED BY <2>3, <2>5 DEF FirstView
<1>4. ASSUME NEW c \in Clients, Invoke(c) \/ HandleReply(c) PROVE FirstView
  BY <1>4 DEF Invoke, HandleReply, FirstView
<1> QED BY <1>1, <1>2, <1>3, <1>4, StepKinds

\* The replicas' actions that the first view has.
Acts(r) ==
    \/ ReceiveRequest(r) \/ ReceivePrepare(r) \/ ReceivePrepareOK(r) \/ ReceiveCommit(r)
    \/ ReceiveRequestStateTransfer(r) \/ ReceiveStateTransfer(r)
    \/ NullCommitTimeout(r) \/ CloseBatchTimeout(r) \/ StateTransferTimeout(r)

\* A step of the first view is one of them, or a client's.
LEMMA FirstViewActs ==
  ASSUME TypeOK, RecoversFromZero, FirstViewInv, Next, FirstView'
  PROVE  \/ \E r \in Backups : Acts(r)
         \/ Acts(0)
         \/ \E c \in Clients : Invoke(c) \/ HandleReply(c)
<1>1. \A r \in ReplicaIds : ~Restart(r) /\ ~ViewChangeTimeout(r)
  BY FirstViewBefore
<1>2. \A r \in ReplicaIds : /\ ~ReceiveStartViewChange(r) /\ ~ReceiveDoViewChange(r)
                            /\ ~ReceiveStartView(r) /\ ~ReceiveRecovery(r)
                            /\ ~ReceiveRecoveryResponse(r)
  <2> TAKE r \in ReplicaIds
  <2>1. \A type : \A m \in Inbox(r, type) : m \in msgs /\ m.type = type
    BY DEF Inbox
  <2>2. \A type : Inbox(r, type) # {} =>
           type \in {"request", "reply", "prepare", "commit", "stateTransfer", "prepareOK",
                     "requestStateTransfer"}
    BY <2>1, FirstViewMessages
  <2>3. /\ Inbox(r, "startViewChange") = {} /\ Inbox(r, "doViewChange") = {}
        /\ Inbox(r, "startView") = {} /\ Inbox(r, "recovery") = {}
        /\ Inbox(r, "recoveryResponse") = {}
    BY <2>2
  <2> QED BY <2>3 DEF ReceiveStartViewChange, ReceiveDoViewChange, ReceiveStartView,
                      ReceiveRecovery, ReceiveRecoveryResponse
<1>3. \A r \in ReplicaIds : r = 0 \/ r \in Backups
  BY DEF Backups
<1>4. \A r \in ReplicaIds : Acts(r) => Acts(0) \/ \E q \in Backups : Acts(q)
  BY <1>3
<1> QED BY <1>1, <1>2, <1>4 DEF Next, Acts

\* Every step of the first view is a move, or a client's.
LEMMA FirstViewSteps ==
  ASSUME TypeOK, RecoversFromZero, FirstViewInv, Next, FirstView'
  PROVE  \/ \E r \in Backups : BackupMoves(r)
         \/ LeaderMoves
         \/ \E c \in Clients : Invoke(c) \/ HandleReply(c)
<1>1. \A r \in Backups : Acts(r) => BackupMoves(r)
  BY BackupHandlersMove DEF Acts
<1>2. Acts(0) => LeaderMoves
  BY LeaderHandlersMove DEF Acts
<1> QED BY <1>1, <1>2, FirstViewActs

\* What a record says of the first view does not depend on what it has yet to send.
LEMMA SentRecords ==
  ASSUME NEW t \in ReplicaState, NEW u, u = [t EXCEPT !.out = {}]
  PROVE  /\ u \in ReplicaState /\ u.id = t.id /\ u.log = t.log /\ u.out = {}
         /\ u.lastCommitted = t.lastCommitted /\ u.prepareOKs = t.prepareOKs
         /\ \A log : Backup(t, log) => Backup(u, log)
         /\ Leader(t) => Leader(u)
<1>1. /\ u \in ReplicaState /\ u.id = t.id /\ u.view = t.view /\ u.status = t.status
      /\ u.log = t.log /\ u.lastOp = t.lastOp /\ u.lastCommitted = t.lastCommitted
      /\ u.executed = t.executed /\ u.addresses = t.addresses
      /\ u.pendingPrepares = t.pendingPrepares /\ u.clientTable = t.clientTable
      /\ u.prepareOKs = t.prepareOKs /\ u.out = {}
  BY DEF ReplicaState
<1>2. InStep(t) => InStep(u)
  BY <1>1 DEF InStep
<1>3. \A log : Backup(t, log) => Backup(u, log)
  BY <1>1, <1>2 DEF Backup
<1>4. Leader(t) => LeaderStep(t, u)
  BY <1>1, SameLeader
<1> QED BY <1>1, <1>3, <1>4 DEF LeaderStep

\* A step of a backup: what was sent about it and counted of it stays true.
LEMMA BackupMovesKeeps ==
  ASSUME TypeOK, FirstViewInv, NEW r \in Backups, BackupMoves(r)
  PROVE  FirstViewInv'
<1> DEFINE s == rep[r]
           log == rep[0].log
<1>1. /\ r \in ReplicaIds /\ r # 0 /\ 0 \in ReplicaIds /\ s \in ReplicaState /\ s.id = r
      /\ log \in Seq(Entry)
  BY FirstViewRecords DEF TypeOK
<1>2. PICK t : BackupStep(s, t, log) /\ Step(r, t)
  BY DEF BackupMoves
<1>3. t \in ReplicaState /\ t.id = r /\ Backup(t, log) /\ Len(s.log) <= Len(t.log)
  BY <1>1, <1>2 DEF BackupStep
<1>4. /\ rep' \in [ReplicaIds -> ReplicaState] /\ \A q \in ReplicaIds \ {r} : rep'[q] = rep[q]
      /\ rep'[r] = [t EXCEPT !.out = {}]
      /\ msgs' = msgs \cup {m \in t.out : m.type \notin Lost}
      /\ msgs' \subseteq Message /\ client' = client
  BY <1>1, <1>2, <1>3, StepIs
<1> DEFINE u == rep'[r]
<1>5. u \in ReplicaState /\ u.id = r /\ u.log = t.log /\ Backup(u, log)
  BY <1>3, <1>4, SentRecords
<1>6. rep'[0] = rep[0]
  BY <1>1, <1>4
<1>7. \A q \in Backups : Backup(rep[q], log)' 
  <2> TAKE q \in Backups
  <2>1. q \in ReplicaIds
    BY DEF Backups
  <2>2. CASE q = r
    BY <1>5, <1>6, <2>2
  <2>3. CASE q # r
    BY <1>4, <1>6, <2>1, <2>3 DEF FirstViewInv
  <2> QED BY <2>2, <2>3
<1> HIDE DEF log, u
<1>8. \A m \in Message : \A a \in {s, t} : BackupMessage(m, a, log) => BackupMessage(m, u, log)
  <2>1. Grows(log, log)
    BY <1>1 DEF Grows
  <2>2. Len(t.log) <= Len(t.log)
    BY <1>3, FieldTypes
  <2> QED BY <1>1, <1>3, <1>5, <2>1, <2>2, BackupMessageGrows
<1>9. ASSUME NEW m \in msgs'
      PROVE  \/ m.type = "request"
             \/ LeaderMessage(m, rep'[0])
             \/ \E q \in Backups : BackupMessage(m, rep'[q], rep'[0].log)
  <2>1. m \in Message /\ rep'[0].log = log /\ u = rep'[r]
    BY <1>4, <1>6 DEF log, u
  <2>2. CASE m \in t.out
    <3>1. BackupMessage(m, t, log)
      BY <1>3, <2>2 DEF Backup
    <3> QED BY <1>8, <2>1, <3>1
  <2>3. CASE m \in msgs
    <3>1. CASE m.type = "request" \/ LeaderMessage(m, rep[0])
      BY <1>6, <3>1
    <3>2. ASSUME NEW q \in Backups, BackupMessage(m, rep[q], log)
          PROVE  BackupMessage(m, rep'[q], log)
      <4>1. CASE q = r
        BY <1>8, <2>1, <3>2, <4>1
      <4>2. CASE q # r
        BY <1>4, <3>2, <4>2 DEF Backups
      <4> QED BY <4>1, <4>2
    <3> QED BY <2>1, <2>3, <3>1, <3>2 DEF FirstViewInv, log
  <2> QED BY <1>4, <2>2, <2>3
<1>10. \A op \in Nat : Holders(op) \subseteq Holders(op)'
  <2>1. \A q \in Backups : /\ Len(rep[q].log) \in Nat /\ Len(rep'[q].log) \in Nat
                           /\ Len(rep[q].log) <= Len(rep'[q].log)
    <3> TAKE q \in Backups
    <3>1. q \in ReplicaIds /\ rep[q] \in ReplicaState /\ rep'[q] \in ReplicaState
      BY <1>4 DEF Backups, TypeOK
    <3>2. Len(rep[q].log) \in Nat /\ Len(rep'[q].log) \in Nat
      BY <3>1, FieldTypes
    <3>3. q = r => Len(rep[q].log) <= Len(rep'[q].log)
      BY <1>3, <1>5 DEF u
    <3>4. q # r => rep'[q] = rep[q]
      BY <1>4, <3>1
    <3> QED BY <3>2, <3>3, <3>4
  <2> QED BY <2>1 DEF Holders
<1>11. \A op \in 1 .. MaxOp : rep'[0].prepareOKs[op] \subseteq Holders(op)'
  <2>1. MaxOp \in Nat
    BY BoundAssumption
  <2> QED BY <1>6, <1>10, <2>1 DEF FirstViewInv
<1>12. rep'[0].lastCommitted > 0 => Cardinality(Holders(rep[0].lastCommitted)') >= F
  <2> DEFINE op == rep[0].lastCommitted
             old == Holders(op)
             new == {q \in Backups : Len(rep'[q].log) >= op}
  <2>1. op \in Nat /\ F \in Nat /\ IsFiniteSet(ReplicaIds)
    <3>1. 0 \in Int /\ N - 1 \in Int
      BY SizeAssumption
    <3> QED BY <1>1, <3>1, FS_Interval, SizeAssumption, FirstViewRecords, FieldTypes DEF ReplicaIds
  <2>2. Holders(rep[0].lastCommitted)' = new /\ old \subseteq new /\ new \subseteq ReplicaIds
    BY <1>6, <1>10, <2>1 DEF Holders, Backups
  <2>3. op > 0 => Cardinality(old) >= F
    BY DEF FirstViewInv
  <2> HIDE DEF op, old, new
  <2>4. op > 0 => Cardinality(new) >= F
    BY <2>1, <2>2, <2>3, MoreIsEnough
  <2>5. rep'[0].lastCommitted = op
    BY <1>6 DEF op
  <2> QED BY <2>2, <2>4, <2>5
<1>13. Leader(rep'[0]) /\ Len(rep'[0].log) <= MaxOp
  BY <1>6 DEF FirstViewInv
<1> QED BY <1>7, <1>9, <1>11, <1>12, <1>13 DEF FirstViewInv, log

\* A step of the leader: its longer log still covers what is in the network and in the
\* backups.
LEMMA LeaderMovesKeeps ==
  ASSUME TypeOK, FirstViewInv, LeaderMoves
  PROVE  FirstViewInv'
<1> DEFINE s == rep[0]
<1>1. 0 \in ReplicaIds /\ s \in ReplicaState /\ s.id = 0 /\ s.lastCommitted <= Len(s.log)
  BY FirstViewRecords DEF TypeOK, Leader, InStep
<1>2. PICK t : /\ LeaderStep(s, t) /\ Step(0, t) /\ Len(t.log) <= MaxOp
               /\ \A op \in 1 .. MaxOp : t.prepareOKs[op] \subseteq Holders(op)
               /\ t.lastCommitted > 0 => Cardinality(Holders(t.lastCommitted)) >= F
  BY DEF LeaderMoves
<1>3. /\ t \in ReplicaState /\ t.id = 0 /\ Leader(t) /\ Grows(s.log, t.log)
      /\ s.lastCommitted <= t.lastCommitted
  BY <1>2 DEF LeaderStep, Leader
<1>4. /\ rep' \in [ReplicaIds -> ReplicaState]
      /\ \A q \in ReplicaIds \ {0} : rep'[q] = rep[q]
      /\ rep'[0] = [t EXCEPT !.out = {}]
      /\ msgs' = msgs \cup {m \in t.out : m.type \notin Lost}
      /\ msgs' \subseteq Message /\ client' = client
  BY <1>1, <1>2, <1>3, StepIs
<1> DEFINE u == rep'[0]
<1>5. /\ u \in ReplicaState /\ u.id = 0 /\ u.log = t.log /\ Leader(u)
      /\ u.lastCommitted = t.lastCommitted /\ u.prepareOKs = t.prepareOKs
  BY <1>3, <1>4, SentRecords
<1>6. \A q \in Backups : rep'[q] = rep[q] /\ rep[q] \in ReplicaState
  BY <1>4 DEF Backups, TypeOK
<1>7. s.log \in Seq(Entry) /\ u.log \in Seq(Entry) /\ Grows(s.log, u.log)
  BY <1>1, <1>3, <1>5, FieldTypes
<1>8. \A q \in Backups : Backup(rep'[q], u.log)
  BY <1>6, <1>7, BackupGrows DEF FirstViewInv
<1> HIDE DEF u, s
<1>9. ASSUME NEW m \in msgs'
      PROVE  \/ m.type = "request"
             \/ LeaderMessage(m, u)
             \/ \E q \in Backups : BackupMessage(m, rep'[q], u.log)
  <2>1. m \in Message
    BY <1>4
  <2>2. CASE m \in t.out
    <3>1. LeaderMessage(m, t)
      BY <1>3, <2>2 DEF Leader
    <3>2. Grows(t.log, u.log) /\ t.lastCommitted <= u.lastCommitted
          /\ t.lastCommitted <= Len(t.log)
      BY <1>3, <1>5, <1>7, FieldTypes DEF Leader, InStep, Grows
    <3> QED BY <1>3, <1>5, <2>1, <3>1, <3>2, LeaderMessageGrows
  <2>3. CASE m \in msgs
    <3>1. CASE m.type = "request"
      BY <3>1
    <3>2. CASE LeaderMessage(m, s)
      BY <1>1, <1>3, <1>5, <1>7, <2>1, <3>2, LeaderMessageGrows
    <3>3. ASSUME NEW q \in Backups, BackupMessage(m, rep[q], s.log)
          PROVE  BackupMessage(m, rep'[q], u.log)
      <4>1. Len(rep[q].log) <= Len(rep'[q].log) /\ rep'[q].id = rep[q].id
            /\ rep'[q] \in ReplicaState /\ rep[q] \in ReplicaState
        BY <1>6, FieldTypes
      <4> QED BY <1>7, <2>1, <3>3, <4>1, BackupMessageGrows
    <3> QED BY <2>3, <3>1, <3>2, <3>3 DEF FirstViewInv, s
  <2> QED BY <1>4, <2>2, <2>3
<1>10. \A op : Holders(op)' = Holders(op)
  BY <1>6 DEF Holders
<1>11. \A op \in 1 .. MaxOp : u.prepareOKs[op] \subseteq Holders(op)'
  BY <1>2, <1>5, <1>10
<1>12. u.lastCommitted > 0 => Cardinality({q \in Backups : Len(rep'[q].log) >= u.lastCommitted}) >= F
  <2> DEFINE op == t.lastCommitted
  <2>1. {q \in Backups : Len(rep'[q].log) >= op} = Holders(op)
    BY <1>6 DEF Holders
  <2>2. u.lastCommitted = op /\ (op > 0 => Cardinality(Holders(op)) >= F)
    BY <1>2, <1>5
  <2> HIDE DEF op
  <2> QED BY <2>1, <2>2
<1>13. Leader(u) /\ Len(u.log) <= MaxOp
  BY <1>2, <1>5
<1> QED BY <1>8, <1>9, <1>11, <1>12, <1>13 DEF FirstViewInv, u, Holders

\* A step of a client.
LEMMA ClientKeeps ==
  ASSUME TypeOK, FirstViewInv, NEW c \in Clients, Invoke(c) \/ HandleReply(c)
  PROVE  FirstViewInv'
<1>1. rep' = rep /\ \A m \in msgs' : m \in msgs \/ m.type = "request"
  BY DEF Invoke, HandleReply
<1>2. \A op : Holders(op)' = Holders(op)
  BY <1>1 DEF Holders
<1>3. \A m \in msgs' : \/ m.type = "request"
                       \/ LeaderMessage(m, rep[0])
                       \/ \E r \in Backups : BackupMessage(m, rep[r], rep[0].log)
  BY <1>1 DEF FirstViewInv
<1> QED BY <1>1, <1>3 DEF FirstViewInv, Holders

\* As long as the run is in the first view, FirstViewInv holds.
IInv == TypeOK /\ RecoversFromZero /\ (FirstView => FirstViewInv)

\* IInv is inductive.
LEMMA FirstViewNext ==
  ASSUME IInv, [Next]_vars
  PROVE  IInv'
<1>1. TypeOK' /\ RecoversFromZero'
  BY TypesNext DEF IInv
<1>2. ASSUME FirstView', Next PROVE FirstViewInv'
  <2>1. TypeOK /\ RecoversFromZero /\ FirstViewInv
    BY <1>2, FirstViewBefore DEF IInv
  <2>2. \/ \E r \in Backups : BackupMoves(r)
        \/ LeaderMoves
        \/ \E c \in Clients : Invoke(c) \/ HandleReply(c)
    BY <1>2, <2>1, FirstViewSteps
  <2> QED BY <2>1, <2>2, BackupMovesKeeps, LeaderMovesKeeps, ClientKeeps
<1>3. ASSUME FirstView', UNCHANGED vars PROVE FirstViewInv'
  <2>1. FirstView /\ rep' = rep /\ msgs' = msgs
    BY <1>3 DEF FirstView, vars
  <2> QED BY <2>1 DEF IInv, FirstViewInv, Holders
<1> QED BY <1>1, <1>2, <1>3 DEF IInv

-----------------------------------------------------------------------------
\* What holds as long as the run is in the first view.

\* What every replica has executed is what the leader's log starts with.
LEMMA ExecutedIs ==
  ASSUME TypeOK, FirstViewInv, NEW r \in ReplicaIds
  PROVE  /\ rep[r].lastCommitted \in Nat /\ rep[r].lastCommitted <= Len(rep[0].log)
         /\ \A i \in 1 .. rep[r].lastCommitted : rep[r].executed[i] = rep[0].log[i].req
<1>1. CASE r = 0
  BY <1>1, FirstViewRecords, FieldTypes DEF Leader, InStep
<1>2. CASE r # 0
  <2> DEFINE x == rep[r].log
             y == rep[0].log
             n == rep[r].lastCommitted
  <2>1. /\ rep[r] \in ReplicaState /\ rep[0] \in ReplicaState
        /\ InStep(rep[r]) /\ Grows(rep[r].log, rep[0].log)
    BY <1>2, FirstViewRecords DEF Backups, Backup
  <2>2. /\ x \in Seq(Entry) /\ y \in Seq(Entry) /\ Grows(x, y) /\ n \in Nat /\ n <= Len(x)
        /\ Len(x) \in Nat /\ Len(y) \in Nat
        /\ \A i \in 1 .. n : rep[r].executed[i] = x[i].req
    BY <2>1, FieldTypes DEF InStep
  <2> HIDE DEF x, y, n
  <2>3. n <= Len(y)
    BY <2>2 DEF Grows
  <2>4. \A i \in 1 .. n : rep[r].executed[i] = y[i].req
    BY <2>2 DEF Grows
  <2> QED BY <2>2, <2>3, <2>4 DEF x, y, n
<1> QED BY <1>1, <1>2

\* Executions of any two replicas are pieces of the leader's log.
LEMMA FirstViewAgreement ==
  ASSUME TypeOK, FirstViewInv
  PROVE  Agreement
<1> SUFFICES ASSUME NEW q \in ReplicaIds, NEW r \in ReplicaIds,
                    NEW op \in 1 .. Min({rep[q].lastCommitted, rep[r].lastCommitted})
             PROVE  rep[q].executed[op] = rep[r].executed[op]
  BY DEF Agreement
<1> DEFINE a == rep[q].lastCommitted
           b == rep[r].lastCommitted
<1>1. /\ a \in Nat /\ \A i \in 1 .. a : rep[q].executed[i] = rep[0].log[i].req
      /\ b \in Nat /\ \A i \in 1 .. b : rep[r].executed[i] = rep[0].log[i].req
  BY ExecutedIs
<1>2. op \in 1 .. Min({a, b})
  OBVIOUS
<1> HIDE DEF a, b
<1>3. op \in 1 .. a /\ op \in 1 .. b
  <2>1. {a, b} \in SUBSET Nat /\ {a, b} # {}
    BY <1>1
  <2>2. Min({a, b}) \in Nat /\ Min({a, b}) <= a /\ Min({a, b}) <= b
    BY <2>1, MinOfSet
  <2> QED BY <1>1, <1>2, <2>2
<1> QED BY <1>1, <1>3

\* The leader's log has no request twice.
LEMMA FirstViewAtMostOnce ==
  ASSUME TypeOK, FirstViewInv
  PROVE  AtMostOnce
<1> SUFFICES ASSUME NEW r \in ReplicaIds, NEW i \in 1 .. rep[r].lastCommitted,
                    NEW j \in 1 .. rep[r].lastCommitted,
                    rep[r].executed[i] = rep[r].executed[j]
             PROVE  i = j
  BY DEF AtMostOnce
<1>1. i \in 1 .. Len(rep[0].log) /\ j \in 1 .. Len(rep[0].log)
  BY ExecutedIs, FirstViewRecords, FieldTypes
<1>2. rep[0].log[i].req = rep[0].log[j].req
  BY ExecutedIs
<1> QED BY <1>1, <1>2, FirstViewRecords DEF Leader

\* A reply is about an operation the leader has executed.
LEMMA RepliesAreExecuted ==
  ASSUME TypeOK, FirstViewInv, NEW m \in msgs, m.type = "reply", m.op > 0
  PROVE  /\ m.op \in 1 .. rep[0].lastCommitted /\ rep[0].lastCommitted \in Nat
         /\ m.op \in 1 .. Len(rep[0].log) /\ rep[0].log[m.op].req = m.req
<1>1. m.op \in Nat
  BY MessageKinds DEF TypeOK, ReplyMsgs
<1>2. SoundReply(m, rep[0])
  BY FirstViewMessages
<1>3. rep[0].lastCommitted \in Nat /\ Len(rep[0].log) \in Nat
      /\ rep[0].lastCommitted <= Len(rep[0].log)
  BY FirstViewRecords, FieldTypes DEF Leader, InStep
<1> QED BY <1>1, <1>2, <1>3 DEF SoundReply

\* A leader of view 0 is replica 0, which has what it answered.
LEMMA FirstViewLeaderKeeps ==
  ASSUME TypeOK, FirstViewInv
  PROVE  LeaderKeepsReplies
<1>1. \A r \in ReplicaIds : AmLeader(rep[r]) => r = 0
  BY FirstViewRecords DEF Backups
<1>2. \A m \in {x \in msgs : x.type = "reply" /\ x.op > 0} :
        Found(rep[0].log, m.op) /\ rep[0].log[m.op].req = m.req
  BY RepliesAreExecuted DEF Found
<1> QED BY <1>1, <1>2 DEF LeaderKeepsReplies

\* The holders of what the leader has executed, and the leader itself.
LEMMA FirstViewReplicated ==
  ASSUME TypeOK, FirstViewInv
  PROVE  ReplyIsReplicated
<1> SUFFICES ASSUME NEW m \in msgs, m.type = "reply", m.op > 0
             PROVE  Cardinality({r \in ReplicaIds :
                       \/ Found(rep[r].log, m.op) /\ rep[r].log[m.op].req = m.req
                       \/ rep[r].nonce > 0 /\ rep[r].status # "normal"}) > F
  BY DEF ReplyIsReplicated
<1> DEFINE op == m.op
           n == rep[0].lastCommitted
           log == rep[0].log
           T == {r \in ReplicaIds :
                    \/ Found(rep[r].log, m.op) /\ rep[r].log[m.op].req = m.req
                    \/ rep[r].nonce > 0 /\ rep[r].status # "normal"}
<1>1. op \in 1 .. n /\ n \in Nat /\ op \in 1 .. Len(log) /\ log[op].req = m.req
  BY RepliesAreExecuted
<1>2. 0 \in ReplicaIds /\ log \in Seq(Entry)
  BY FirstViewRecords
<1>3. \A r \in Holders(n) : r \in ReplicaIds /\ r # 0
                            /\ Found(rep[r].log, op) /\ rep[r].log[op].req = m.req
  <2> TAKE r \in Holders(n)
  <2> DEFINE x == rep[r].log
  <2>1. r \in Backups /\ Len(x) >= n
    BY DEF Holders
  <2>2. r \in ReplicaIds /\ r # 0 /\ x \in Seq(Entry) /\ Grows(x, log)
    BY <2>1, FirstViewRecords, FieldTypes DEF Backup
  <2> HIDE DEF x, op, n, log
  <2>3. op \in 1 .. Len(x)
    BY <1>1, <2>1, <2>2
  <2>4. x[op] = log[op]
    BY <2>2, <2>3 DEF Grows
  <2> QED BY <1>1, <2>2, <2>3, <2>4 DEF Found, x, op, log
<1>4. Found(rep[0].log, op) /\ rep[0].log[op].req = m.req
  BY <1>1 DEF Found
<1>5. Holders(n) \cup {0} \subseteq T
  BY <1>2, <1>3, <1>4
<1>6. 0 \notin Holders(n) /\ Cardinality(Holders(n)) >= F
  BY <1>1, <1>3 DEF FirstViewInv
<1> HIDE DEF op, n, log, T
<1>7. /\ Cardinality(Holders(n) \cup {0}) = Cardinality(Holders(n)) + 1
      /\ Cardinality(Holders(n)) \in Nat
  BY <1>6, HoldersAreFinite, FS_AddElement
<1>8. IsFiniteSet(ReplicaIds) /\ F \in Nat
  <2>1. 0 \in Int /\ N - 1 \in Int
    BY SizeAssumption
  <2> QED BY <2>1, FS_Interval, SizeAssumption DEF ReplicaIds
<1>9. Cardinality(Holders(n) \cup {0}) >= F + 1
  BY <1>6, <1>7, <1>8
<1>10. Cardinality(T) >= F + 1 /\ Cardinality(T) \in Nat
  <2>1. T \in SUBSET ReplicaIds
    BY DEF T
  <2> QED BY <1>5, <1>8, <1>9, <2>1, MoreIsEnough, FS_Subset, FS_CardinalityType
<1>11. Cardinality(T) > F
  BY <1>8, <1>10
<1> QED BY <1>11 DEF T

\* A backup's log is a piece of the leader's.
LEMMA FirstViewPrepareOK ==
  ASSUME TypeOK, FirstViewInv
  PROVE  PrepareOKIsKept
<1> SUFFICES ASSUME NEW m \in msgs, m.type = "prepareOK"
             PROVE  LET a == rep[m.from]
                        b == rep[GetLeaderIndex(m.view)]
                    IN  /\ Len(a.log) >= m.op /\ Len(b.log) >= m.op
                        /\ SubSeq(a.log, 1, m.op) = SubSeq(b.log, 1, m.op)
  BY DEF PrepareOKIsKept
<1> DEFINE x == rep[m.from].log
           y == rep[0].log
           op == m.op
<1>1. m.view = 0 /\ m.from \in Backups /\ op \in 1 .. Len(x)
  BY FirstViewMessages
<1>2. GetLeaderIndex(m.view) = 0
  BY <1>1, SizeAssumption DEF GetLeaderIndex
<1>3. x \in Seq(Entry) /\ y \in Seq(Entry) /\ Grows(x, y)
  BY <1>1, FirstViewRecords, FieldTypes DEF Backup
<1> HIDE DEF x, y, op
<1>4. Len(x) >= op /\ Len(y) >= op /\ op \in Nat
  BY <1>1, <1>3 DEF Grows
<1>5. SubSeq(x, 1, op) = SubSeq(y, 1, op)
  <2>1. \A i \in 1 .. op : x[i] = y[i]
    BY <1>1, <1>3 DEF Grows
  <2> QED BY <1>3, <1>4, <2>1
<1> QED BY <1>2, <1>4, <1>5 DEF x, y, op

\* Together: the inductive invariant holds in every reachable state.
LEMMA FirstViewAlways == Spec => []IInv
<1>1. Init => IInv
  BY TypesInit, FirstViewInit DEF IInv
<1>2. IInv /\ [Next]_vars => IInv'
  BY FirstViewNext
<1> QED BY <1>1, <1>2, PTL DEF Spec

\* Agreement: until a replica leaves view 0 or restarts, no two replicas execute
\* different requests under one operation number, whatever is lost, repeated or
\* reordered, and through every state transfer.  The condition is what the code
\* needs: HandleStateTransfer (vr/replica.cc:880) enters a newer view with its own
\* later entries, and after a view change Agreement fails (run vr_transfer_fork).
THEOREM AgreementInFirstView == Spec => [](FirstView => Agreement)
<1>1. IInv => (FirstView => Agreement)
  BY FirstViewAgreement DEF IInv
<1> QED BY <1>1, FirstViewAlways, PTL

\* AtMostOnce: until then, the leader's client table keeps a retransmitted request
\* from being given a second operation number, so no replica executes it twice.
THEOREM AtMostOnceInFirstView == Spec => [](FirstView => AtMostOnce)
<1>1. IInv => (FirstView => AtMostOnce)
  BY FirstViewAtMostOnce DEF IInv
<1> QED BY <1>1, FirstViewAlways, PTL

\* ReplyIsReplicated: until then, F + 1 replicas have the request of every reply in
\* their log: the PREPAREOKs that HandlePrepareOK counts are those of different
\* backups, and none is sent before the operation is in the sender's log.
THEOREM RepliesReplicatedInFirstView == Spec => [](FirstView => ReplyIsReplicated)
<1>1. IInv => (FirstView => ReplyIsReplicated)
  BY FirstViewReplicated DEF IInv
<1> QED BY <1>1, FirstViewAlways, PTL

\* LeaderKeepsReplies: until then, the leader's log has the request of every reply
\* under the operation number of the reply, the replies it repeats from its client
\* table included.
THEOREM LeaderKeepsRepliesInFirstView == Spec => [](FirstView => LeaderKeepsReplies)
<1>1. IInv => (FirstView => LeaderKeepsReplies)
  BY FirstViewLeaderKeeps DEF IInv
<1> QED BY <1>1, FirstViewAlways, PTL

\* PrepareOKIsKept: until then, a backup that has acknowledged an operation, by
\* HandlePrepare, for a repeated PREPARE or after a state transfer, has the
\* leader's log up to it.
THEOREM PrepareOKsKeptInFirstView == Spec => [](FirstView => PrepareOKIsKept)
<1>1. IInv => (FirstView => PrepareOKIsKept)
  BY FirstViewPrepareOK DEF IInv
<1> QED BY <1>1, FirstViewAlways, PTL

-----------------------------------------------------------------------------
\* No ASSERT fails in the first view.

\* Among the first n operations of the log is the one client c gave the number id.
Known(c, id, log, n) ==
    \/ id = 0
    \/ \E i \in 1 .. n : i <= Len(log) /\ log[i].req = [client |-> c, id |-> id]

\* A client's numbers rise along the log.
Rising(log) ==
    \A i, j \in 1 .. Len(log) :
        i < j /\ log[i].req.client = log[j].req.client => log[i].req.id < log[j].req.id

\* A state transfer reaches the operation it says is committed, and starts at an
\* operation that the replicas it goes to do not miss the one before of.
Covers(m) == m.op < m.dump.first + Len(m.dump.entries)
Wanted(m) == \A r \in m.to : m.dump.first <= rep[r].lastCommitted + 1

\* What the handlers of the receivers assert of a message that replica s sends.
FineMessage(m, s) ==
    /\ m.type = "prepare" => m.batchStart <= m.op
    /\ m.type = "requestStateTransfer" => m.op <= s.lastCommitted
    /\ m.type = "stateTransfer" => Covers(m) /\ Wanted(m)

\* A backup that is up, and whose client table is not ahead of the operation n.
Fine(s, log, n) ==
    /\ s.status = "normal" /\ s.fault = "none"
    /\ \A c \in Clients : Known(c, s.clientTable[c].id, log, n)
    /\ \A i \in 1 .. Len(s.pendingPrepares) :
          s.pendingPrepares[i].batchStart <= s.pendingPrepares[i].op
    /\ \A m \in s.out : FineMessage(m, s)

\* A backup has gone from s to t, and is as good as before.
FineStep(s, t, log, n) ==
    BackupStep(s, t, log) /\ Fine(t, log, n) /\ s.lastCommitted <= t.lastCommitted

\* What is known is known later,
LEMMA KnownLater ==
  ASSUME NEW c, NEW id, NEW log, NEW n \in Nat, NEW k \in Nat, n <= k, Known(c, id, log, n)
  PROVE  Known(c, id, log, k)
BY DEF Known

\* is not newer than the client's next request in the log,
LEMMA KnownIsOlder ==
  ASSUME NEW log \in Seq(Entry), Rising(log), NEW n \in Nat, NEW op \in 1 .. Len(log), n <= op,
         NEW id \in Nat, Known(log[op].req.client, id, log, n)
  PROVE  id <= log[op].req.id
<1> DEFINE req == log[op].req
<1>1. req.id \in Nat
  BY EntryTypes DEF Found
<1>2. ASSUME NEW i \in 1 .. n, i <= Len(log), log[i].req = [client |-> req.client, id |-> id]
      PROVE  id <= req.id
  <2>1. log[i].req.client = req.client /\ log[i].req.id = id
    BY <1>2
  <2>2. CASE i = op
    BY <1>1, <2>1, <2>2
  <2>3. CASE i < op
    <3>1. log[i].req.id < req.id
      BY <1>2, <2>1, <2>3 DEF Rising
    <3> QED BY <1>1, <2>1, <3>1
  <2> QED BY <1>2, <2>2, <2>3
<1> HIDE DEF req
<1>3. Known(req.client, id, log, n)
  BY DEF req
<1>4. id <= req.id
  BY <1>1, <1>2, <1>3 DEF Known
<1> QED BY <1>4 DEF req

\* and an operation knows itself.
LEMMA KnownItself ==
  ASSUME NEW log \in Seq(Entry), NEW op \in 1 .. Len(log)
  PROVE  Known(log[op].req.client, log[op].req.id, log, op)
<1>1. log[op].req = [client |-> log[op].req.client, id |-> log[op].req.id]
  BY EntryTypes DEF Found, Request
<1> QED BY <1>1 DEF Known

\* Fine at an operation, and at every later one.
LEMMA FineLater ==
  ASSUME NEW s, NEW log, NEW n \in Nat, NEW k \in Nat, n <= k, Fine(s, log, n)
  PROVE  Fine(s, log, k)
BY KnownLater DEF Fine

\* FineStep is reflexive and transitive.
LEMMA FineItself ==
  ASSUME NEW s \in ReplicaState, NEW log, Backup(s, log), NEW n, Fine(s, log, n)
  PROVE  FineStep(s, s, log, n)
BY BackupStepItself, FieldTypes DEF FineStep

\* One operation of a handler after the other.
LEMMA FineTransitive ==
  ASSUME NEW s \in ReplicaState, NEW t, NEW u, NEW log, NEW n, NEW k,
         FineStep(s, t, log, n), FineStep(t, u, log, k)
  PROVE  FineStep(s, u, log, k)
<1>1. s.lastCommitted \in Nat /\ t.lastCommitted \in Nat /\ u.lastCommitted \in Nat
  BY FieldTypes DEF FineStep, BackupStep
<1>2. BackupStep(s, u, log)
  BY BackupStepTransitive DEF FineStep
<1> QED BY <1>1, <1>2 DEF FineStep

\* A record that differs from s in none of the fields Fine is about, but for what it
\* sends and postpones.
LEMMA SameFine ==
  ASSUME NEW s \in ReplicaState, NEW t, NEW log, NEW n, Fine(s, log, n),
         BackupStep(s, t, log), t.status = s.status, t.fault = s.fault,
         t.clientTable = s.clientTable, t.lastCommitted = s.lastCommitted,
         \A i \in 1 .. Len(t.pendingPrepares) :
             t.pendingPrepares[i].batchStart <= t.pendingPrepares[i].op,
         \A m \in t.out : m \in s.out \/ FineMessage(m, s)
  PROVE  FineStep(s, t, log, n)
<1>1. \A m \in t.out : FineMessage(m, t)
  BY DEF Fine, FineMessage
<1>2. s.lastCommitted \in Nat
  BY FieldTypes
<1> QED BY <1>1, <1>2 DEF Fine, FineStep

\* A backup sends a message its receiver does not trip over.
LEMMA FineSend ==
  ASSUME NEW s \in ReplicaState, NEW log, Backup(s, log), NEW n, Fine(s, log, n),
         NEW m \in Message, BackupMessage(m, s, log), FineMessage(m, s)
  PROVE  FineStep(s, Send(s, m), log, n)
<1> DEFINE t == Send(s, m)
<1>1. BackupStep(s, t, log)
  BY BackupSend
<1>2. /\ t.status = s.status /\ t.fault = s.fault /\ t.clientTable = s.clientTable
      /\ t.lastCommitted = s.lastCommitted /\ t.pendingPrepares = s.pendingPrepares
      /\ t.out = s.out \cup {m}
  BY DEF Send, ReplicaState
<1> HIDE DEF t
<1>3. \A a \in t.out : a \in s.out \/ FineMessage(a, s)
  BY <1>2
<1>4. FineStep(s, t, log, n)
  BY <1>1, <1>2, <1>3, SameFine DEF Fine
<1> QED BY <1>4 DEF t

\* A PREPAREOK.
LEMMA FinePrepareOK ==
  ASSUME NEW s \in ReplicaState, NEW log, Backup(s, log), NEW n, Fine(s, log, n),
         NEW op \in Nat, op \in 1 .. Len(s.log)
  PROVE  FineStep(s, Send(s, PrepareOK(s, 0, op)), log, n)
<1>1. PrepareOK(s, 0, op) \in Message
  BY PrepareOKTypes DEF Message
<1>2. BackupMessage(PrepareOK(s, 0, op), s, log) /\ FineMessage(PrepareOK(s, 0, op), s)
  BY DEF PrepareOK, BackupMessage, FineMessage
<1> QED BY <1>1, <1>2, FineSend

\* The leader's next entry follows the backup's last one.
LEMMA FinePush ==
  ASSUME NEW s \in ReplicaState, NEW log, LeaderLog(log), Backup(s, log), NEW n,
         Fine(s, log, n), NEW e, s.lastOp + 1 <= Len(log), e = log[s.lastOp + 1]
  PROVE  FineStep(s, Push(s, e), log, n)
<1> DEFINE longer == Append(s.log, e)
           t == [s EXCEPT !.lastOp = @ + 1, !.log = Append(@, e)]
<1>1. Push(s, e) = t
  BY DEF Push, MayAppend, Backup, InStep
<1>2. BackupStep(s, t, log)
  BY <1>1, BackupPush
<1>3. /\ t.status = s.status /\ t.fault = s.fault /\ t.clientTable = s.clientTable
      /\ t.lastCommitted = s.lastCommitted /\ t.pendingPrepares = s.pendingPrepares
      /\ t.out = s.out
  BY DEF ReplicaState
<1> HIDE DEF t
<1>4. FineStep(s, t, log, n)
  BY <1>2, <1>3, SameFine DEF Fine
<1> QED BY <1>1, <1>4

\* The client table has no newer request than the one of an operation it has reached.
LEMMA FineTable ==
  ASSUME NEW s \in ReplicaState, NEW log, LeaderLog(log), Rising(log), Backup(s, log),
         NEW n \in Nat, Fine(s, log, n), NEW op \in 1 .. Len(log), n <= op
  PROVE  FineStep(s, UpdateClientTable(s, log[op].req), log, op)
<1> DEFINE req == log[op].req
           old == s.clientTable[req.client]
           row == [id |-> req.id, replied |-> FALSE, op |-> 0]
           table == [s.clientTable EXCEPT ![req.client] = row]
           t == [s EXCEPT !.clientTable = table]
           u == UpdateClientTable(s, req)
<1>1. log \in Seq(Entry) /\ Len(log) \in Nat /\ req \in Request /\ req.client \in Clients
      /\ req.id \in Nat
  BY EntryTypes DEF LeaderLog, Found
<1>2. old.id <= req.id /\ old.id \in Nat
  <2>1. old.id \in Nat /\ Known(req.client, old.id, log, n)
    BY <1>1, FieldTypes DEF Fine
  <2> HIDE DEF old
  <2> QED BY <1>1, <2>1, KnownIsOlder
<1>3. u \in {s, t}
  <2>1. [s EXCEPT !.clientTable[req.client] = row] = t
    <3> HIDE DEF req, row
    <3> QED BY DEF ReplicaState
  <2>2. ~(old.id > req.id)
    BY <1>1, <1>2
  <2>3. u \in {s, [s EXCEPT !.clientTable[req.client] = row]}
    BY <2>2 DEF UpdateClientTable
  <2> QED BY <2>1, <2>3
<1>4. BackupStep(s, u, log)
  BY <1>1, BackupUpdateClientTable
<1>5. Fine(s, log, op)
  BY FineLater
<1>6. /\ t.status = s.status /\ t.fault = s.fault /\ t.clientTable = table
      /\ t.lastCommitted = s.lastCommitted /\ t.pendingPrepares = s.pendingPrepares
      /\ t.out = s.out
  BY DEF ReplicaState
<1>7. \A c \in Clients : table[c].id \in {s.clientTable[c].id} \cup
                                         (IF c = req.client THEN {req.id} ELSE {})
  <2> HIDE DEF req
  <2> QED BY <1>1, FieldTypes
<1>8. Known(req.client, req.id, log, op)
  BY <1>1, KnownItself
<1> HIDE DEF t, u, table, req
<1>9. CASE u = s
  BY <1>5, <1>9, FineItself DEF u, req
<1>10. CASE u = t
  <2>1. \A c \in Clients : Known(c, t.clientTable[c].id, log, op)
    BY <1>5, <1>6, <1>7, <1>8 DEF Fine
  <2>2. \A m \in t.out : FineMessage(m, t)
    BY <1>6 DEF Fine, FineMessage
  <2>3. s.lastCommitted \in Nat
    BY FieldTypes
  <2>4. Fine(t, log, op)
    BY <1>6, <2>1, <2>2 DEF Fine
  <2>5. FineStep(s, u, log, op)
    BY <1>4, <1>6, <1>10, <2>3, <2>4 DEF FineStep
  <2> QED BY <2>5 DEF u, req
<1> QED BY <1>3, <1>9, <1>10

\* CommitUpTo does not crash on operations that the log has.
LEMMA CommitUpToIsSafe ==
  ASSUME NEW s \in ReplicaState, s.status = "normal", NEW upto \in Nat, upto <= Len(s.log)
  PROVE  LET t == CommitUpTo(s, upto) IN
         t.status = "normal" /\ t.fault = s.fault /\ t.lastBatchEnd = s.lastBatchEnd
<1> DEFINE n == IF upto < s.lastCommitted THEN 0 ELSE upto - s.lastCommitted
<1>0. /\ n \in Nat /\ s.lastCommitted \in Nat /\ Len(s.log) \in Nat
      /\ \A k \in 1 .. n : s.lastCommitted + k \in 1 .. Len(s.log)
  BY FieldTypes
<1>1. PICK t : /\ t[0] = s /\ CommitUpTo(s, upto) = t[n]
               /\ \A k \in 1 .. n :
                    t[k] = IF t[k - 1].status = "crashed" THEN t[k - 1]
                           ELSE ExecuteNext(t[k - 1], s.lastCommitted + k)
  BY CommitRounds
<1> HIDE DEF n
<1> DEFINE Good(u) == /\ u \in ReplicaState /\ u.log = s.log /\ u.status = "normal"
                      /\ u.fault = s.fault /\ u.lastBatchEnd = s.lastBatchEnd
           S == {k \in 0 .. n : Good(t[k])}
<1>2. 0 \in S
  BY <1>0, <1>1
<1>3. ASSUME NEW k \in 1 .. n, k - 1 \in S PROVE k \in S
  <2> DEFINE u == t[k - 1]
             op == s.lastCommitted + k
  <2>1. Good(u) /\ op \in 1 .. Len(s.log) /\ op \in Nat
    BY <1>0, <1>3
  <2>2. t[k] = ExecuteNext(u, op)
    BY <1>1, <2>1
  <2> HIDE DEF u, op
  <2>3. ExecuteNext(u, op) \in ReplicaState
    BY <2>1, ExecuteNextKeeps DEF Keeps
  <2>4. LET v == ExecuteNext(u, op) IN
        /\ v.log = u.log /\ v.status = u.status /\ v.fault = u.fault
        /\ v.lastBatchEnd = u.lastBatchEnd
    BY <2>1 DEF ExecuteNext, Found, ReplicaState
  <2> QED BY <1>0, <2>1, <2>2, <2>3, <2>4
<1> HIDE DEF S
<1>4. n \in S
  BY <1>0, <1>2, <1>3, RoundInduction DEF S
<1> QED BY <1>1, <1>4 DEF S

\* A backup executes what it has: the table knows the operations executed.
LEMMA FineCommitUpTo ==
  ASSUME NEW s \in ReplicaState, NEW log, LeaderLog(log), Backup(s, log), NEW n \in Nat,
         Fine(s, log, n), NEW upto \in Nat, upto <= Len(s.log), NEW k \in Nat, n <= k,
         CommitUpTo(s, upto).lastCommitted <= k
  PROVE  FineStep(s, CommitUpTo(s, upto), log, k)
<1> DEFINE t == CommitUpTo(s, upto)
<1>1. Commits(s, t)
  BY CommitUpToCommits DEF Backup
<1>2. BackupStep(s, t, log)
  BY BackupCommitUpTo
<1>3. t.status = "normal" /\ t.fault = "none"
  BY CommitUpToIsSafe DEF Fine
<1>4. t.lastCommitted <= k
  OBVIOUS
<1> HIDE DEF t
<1>5. /\ t \in ReplicaState /\ t.lastCommitted \in Nat /\ s.lastCommitted \in Nat
      /\ t.lastCommitted <= Len(t.log) /\ t.log = s.log /\ Len(s.log) \in Nat
      /\ s.lastCommitted <= t.lastCommitted /\ t.pendingPrepares = s.pendingPrepares
  BY <1>1, FieldTypes DEF Commits, InStep
<1>6. ASSUME NEW c \in Clients PROVE Known(c, t.clientTable[c].id, log, k)
  <2>1. CASE t.clientTable[c] = s.clientTable[c]
    <3>1. Known(c, t.clientTable[c].id, log, n)
      BY <2>1 DEF Fine
    <3> QED BY <3>1, KnownLater
  <2>2. CASE Answered(t, c)
    <3> DEFINE op == t.clientTable[c].op
    <3>1. op \in 1 .. t.lastCommitted
          /\ s.log[op].req = [client |-> c, id |-> t.clientTable[c].id]
      BY <1>5, <2>2 DEF Answered
    <3> HIDE DEF op
    <3>2. op \in 1 .. Len(s.log) /\ op \in 1 .. k
      BY <1>4, <1>5, <3>1
    <3>3. op <= Len(log) /\ log[op] = s.log[op]
      BY <3>2, FieldTypes, GrowsIs DEF Backup, LeaderLog
    <3> QED BY <3>1, <3>2, <3>3 DEF Known
  <2> QED BY <1>1, <2>1, <2>2 DEF Commits
<1>7. \A m \in t.out : FineMessage(m, t)
  <2>1. t.out \subseteq s.out
    BY <1>1 DEF Commits, Backup
  <2> TAKE m \in t.out
  <2>2. FineMessage(m, s) /\ m \in Message
    BY <2>1, FieldTypes DEF Fine
  <2>3. m.type = "requestStateTransfer" => m.op \in Nat
    BY <2>2, MessageKinds DEF TransferRequests
  <2> QED BY <1>5, <2>2, <2>3 DEF FineMessage
<1>8. Fine(t, log, k)
  BY <1>3, <1>5, <1>6, <1>7 DEF Fine
<1>9. FineStep(s, t, log, k)
  BY <1>2, <1>5, <1>8 DEF FineStep
<1> QED BY <1>9 DEF t

\* A PREPAREOK round: the request of the operation enters the client table.
LEMMA FineAckNext ==
  ASSUME NEW s \in ReplicaState, NEW log, LeaderLog(log), Rising(log), Backup(s, log),
         NEW op \in Nat, op <= s.lastOp, NEW n \in Nat, n <= op, Fine(s, log, n),
         op > s.lastCommitted
  PROVE  /\ FineStep(s, AckNext(s, op), log, op)
         /\ AckNext(s, op).lastCommitted = s.lastCommitted
<1> DEFINE req == s.log[op].req
           t == UpdateClientTable(s, req)
<1>1. /\ op \in 1 .. Len(s.log) /\ op \in 1 .. Len(log) /\ s.log[op] = log[op]
      /\ ~(op <= s.lastCommitted)
  <2>1. s.lastOp = Len(s.log) /\ s.lastCommitted \in Nat /\ Len(s.log) \in Nat
        /\ Len(log) \in Nat
    BY FieldTypes DEF Backup, InStep, LeaderLog
  <2>2. op \in 1 .. Len(s.log)
    BY <2>1
  <2>3. op <= Len(log) /\ log[op] = s.log[op]
    BY <2>2, FieldTypes, GrowsIs DEF Backup, LeaderLog
  <2> QED BY <2>1, <2>2, <2>3
<1>2. FineStep(s, t, log, op)
  BY <1>1, FineTable
<1>3. AckNext(s, op) = IF t.status = "crashed" THEN t ELSE Send(t, PrepareOK(t, t.view, op))
  BY <1>1 DEF AckNext, Then, Found
<1>t. t.lastCommitted = s.lastCommitted
  BY DEF UpdateClientTable, Crash, ReplicaState
<1> HIDE DEF t
<1>4. t \in ReplicaState /\ Backup(t, log) /\ t.view = 0 /\ op \in 1 .. Len(t.log)
      /\ t.status = "normal" /\ Fine(t, log, op)
  <2>1. Len(s.log) \in Nat /\ Len(t.log) \in Nat
    BY <1>2, FieldTypes DEF FineStep, BackupStep
  <2> QED BY <1>1, <1>2, <2>1 DEF FineStep, Fine, BackupStep, Backup, InStep
<1>5. FineStep(t, Send(t, PrepareOK(t, 0, op)), log, op)
  BY <1>4, FinePrepareOK
<1>6. Send(t, PrepareOK(t, 0, op)).lastCommitted = t.lastCommitted
  BY <1>4 DEF Send, ReplicaState
<1> QED BY <1>2, <1>3, <1>t, <1>4, <1>5, <1>6, FineTransitive

\* SendPrepareOKs, by induction on its rounds: the table may know what is executed and
\* the operations before the first acknowledged one.
LEMMA FineSendPrepareOKs ==
  ASSUME NEW s \in ReplicaState, NEW log, LeaderLog(log), Rising(log), Backup(s, log),
         NEW from \in Nat, from <= s.lastOp,
         \A k \in Nat : from <= k /\ s.lastCommitted <= k => Fine(s, log, k)
  PROVE  FineStep(s, SendPrepareOKs(s, from), log, s.lastOp)
<1> DEFINE n == IF s.lastOp < from THEN 0 ELSE s.lastOp - from + 1
           done == s.lastCommitted
<1>0. /\ n \in Nat /\ s.lastOp \in Nat /\ done \in Nat /\ done <= s.lastOp
      /\ n = s.lastOp - from + 1
  BY FieldTypes DEF Backup, InStep
<1>1. PICK t : /\ t[0] = s /\ SendPrepareOKs(s, from) = t[n]
               /\ \A k \in 1 .. n :
                    t[k] = IF t[k - 1].status = "crashed" THEN t[k - 1]
                           ELSE AckNext(t[k - 1], from + k - 1)
  BY AckRounds
<1>f. \A k \in Nat : from <= k /\ done <= k => Fine(s, log, k)
  OBVIOUS
<1>d. s.lastCommitted = done
  OBVIOUS
<1> HIDE DEF n, done
<1> DEFINE S == {j \in 0 .. n :
                   /\ t[j].lastOp = s.lastOp /\ t[j].lastCommitted = done
                   /\ \A k \in Nat : from <= k /\ done <= k /\ from + j - 1 <= k
                                     => FineStep(s, t[j], log, k)}
<1>2. 0 \in S
  <2>1. ASSUME NEW k \in Nat, from <= k, done <= k PROVE FineStep(s, s, log, k)
    BY <1>f, <2>1, FineItself
  <2> QED BY <1>0, <1>1, <1>d, <2>1
<1>3. ASSUME NEW j \in 1 .. n, j - 1 \in S PROVE j \in S
  <2> DEFINE u == t[j - 1]
             v == t[j]
             op == from + j - 1
  <2>1. /\ op \in Nat /\ from <= op /\ op <= s.lastOp /\ from + (j - 1) - 1 = op - 1
        /\ u.lastOp = s.lastOp /\ u.lastCommitted = done
    BY <1>0, <1>3
  <2>2. ASSUME NEW k \in Nat, from <= k, done <= k, op - 1 <= k PROVE FineStep(s, u, log, k)
    BY <1>3, <2>1, <2>2
  <2>3. v = IF u.status = "crashed" THEN u ELSE AckNext(u, op)
    BY <1>1
  <2>4. FineStep(s, u, log, s.lastOp)
    BY <1>0, <2>1, <2>2
  <2>j. \A k \in Nat : from + j - 1 <= k <=> op <= k
    OBVIOUS
  <2> HIDE DEF u, v, op
  <2>5. u \in ReplicaState /\ Backup(u, log) /\ u.status = "normal"
    BY <2>4 DEF FineStep, BackupStep, Fine
  <2>6. CASE op <= done
    <3>1. v = u
      BY <2>1, <2>3, <2>6 DEF AckNext
    <3>2. \A k \in Nat : from <= k /\ done <= k /\ op <= k => FineStep(s, v, log, k)
      BY <2>1, <2>2, <3>1
    <3> QED BY <1>0, <2>1, <2>j, <3>1, <3>2 DEF v
  <2>7. CASE ~(op <= done)
    <3>1. v = AckNext(u, op) /\ v.lastOp = u.lastOp
      BY <2>1, <2>3, <2>5, BackupAckNext
    <3>2. FineStep(s, u, log, op)
      BY <1>0, <2>1, <2>2, <2>7
    <3>3. FineStep(u, v, log, op) /\ v.lastCommitted = u.lastCommitted
      <4>1. Fine(u, log, op) /\ op <= u.lastOp /\ op > u.lastCommitted
        BY <1>0, <2>1, <2>7, <3>2 DEF FineStep
      <4> QED BY <2>1, <2>5, <3>1, <4>1, FineAckNext
    <3>4. FineStep(s, v, log, op)
      BY <3>2, <3>3, FineTransitive
    <3>5. ASSUME NEW k \in Nat, op <= k PROVE FineStep(s, v, log, k)
      BY <2>1, <3>4, <3>5, FineLater DEF FineStep
    <3> QED BY <1>0, <2>1, <2>j, <3>1, <3>3, <3>5 DEF v
  <2> QED BY <2>6, <2>7
<1> HIDE DEF S
<1>4. n \in S
  BY <1>0, <1>2, <1>3, RoundInduction DEF S
<1>5. FineStep(s, t[n], log, s.lastOp)
  BY <1>0, <1>4 DEF S
<1> QED BY <1>1, <1>5

\* A request for state names what its sender has executed.
LEMMA FineRequestStateTransfer ==
  ASSUME NEW s \in ReplicaState, NEW log, Backup(s, log), NEW n, Fine(s, log, n)
  PROVE  FineStep(s, RequestStateTransfer(s), log, n)
<1> DEFINE m == [type |-> "requestStateTransfer", to |-> Others(s), from |-> s.id,
                 view |-> s.view, op |-> s.lastCommitted]
           t == [s EXCEPT !.lastRequest = [view |-> s.view, op |-> s.lastCommitted]]
           u == RequestStateTransfer(s)
<1>1. u \in {s, Send(t, m)}
  BY DEF RequestStateTransfer
<1>2. BackupStep(s, u, log) /\ u.pendingPrepares = s.pendingPrepares
  BY BackupRequestStateTransfer
<1>3. LET v == Send(t, m) IN
      /\ v.status = s.status /\ v.fault = s.fault /\ v.clientTable = s.clientTable
      /\ v.lastCommitted = s.lastCommitted /\ v.out = s.out \cup {m}
  BY DEF Send, ReplicaState
<1>4. FineMessage(m, s)
  BY FieldTypes DEF FineMessage
<1> HIDE DEF u, m, t
<1>5. /\ u.status = s.status /\ u.fault = s.fault /\ u.clientTable = s.clientTable
      /\ u.lastCommitted = s.lastCommitted /\ u.out \subseteq s.out \cup {m}
  BY <1>1, <1>3
<1>6. FineStep(s, u, log, n)
  BY <1>2, <1>4, <1>5, SameFine DEF Fine
<1> QED BY <1>6 DEF u

\* A PREPARE that waits.
LEMMA FinePostpone ==
  ASSUME NEW s \in ReplicaState, NEW log, Backup(s, log), NEW n, Fine(s, log, n),
         NEW m \in PrepareMsgs, SoundPrepare(m, log), m.batchStart <= m.op
  PROVE  FineStep(s, Postpone(s, m), log, n)
<1> DEFINE t == RequestStateTransfer(s)
           longer == Append(t.pendingPrepares, m)
           u == [t EXCEPT !.pendingPrepares = longer]
<1>1. FineStep(s, t, log, n) /\ t \in ReplicaState /\ t.pendingPrepares = s.pendingPrepares
  BY FineRequestStateTransfer, BackupRequestStateTransfer DEF BackupStep
<1>2. Postpone(s, m) = u
  BY DEF Postpone
<1>3. BackupStep(s, u, log)
  BY <1>2, BackupPostpone
<1> HIDE DEF t
<1>4. \A i \in 1 .. Len(longer) :
          longer[i] = m \/ (i \in 1 .. Len(t.pendingPrepares) /\ longer[i] = t.pendingPrepares[i])
  BY <1>1, FieldTypes
<1>5. \A i \in 1 .. Len(longer) : longer[i].batchStart <= longer[i].op
  BY <1>1, <1>4 DEF FineStep, Fine
<1> HIDE DEF longer
<1>6. /\ u.status = t.status /\ u.fault = t.fault /\ u.clientTable = t.clientTable
      /\ u.lastCommitted = t.lastCommitted /\ u.pendingPrepares = longer /\ u.out = t.out
  BY <1>1 DEF ReplicaState
<1> HIDE DEF u
<1>7. Fine(u, log, n)
  BY <1>1, <1>5, <1>6 DEF FineStep, Fine, FineMessage
<1>8. FineStep(s, u, log, n)
  BY <1>1, <1>3, <1>6, <1>7 DEF FineStep
<1> QED BY <1>2, <1>8

\* The request of the next entry, and its row of the client table.
LEMMA FineAppendNext ==
  ASSUME NEW s \in ReplicaState, NEW log, LeaderLog(log), Rising(log), Backup(s, log),
         Fine(s, log, s.lastOp), NEW req,
         s.lastOp + 1 <= Len(log), req = log[s.lastOp + 1].req
  PROVE  FineStep(s, AppendNext(s, 0, req), log, s.lastOp + 1)
<1> DEFINE e == [view |-> 0, req |-> req]
           t == Push(s, e)
           op == s.lastOp + 1
<1>1. e = log[op]
  <2>1. log[op] \in Entry /\ log[op].view = 0
    BY FieldTypes DEF LeaderLog
  <2> QED BY <2>1 DEF Entry
<1>2. AppendNext(s, 0, req) = IF t.status = "crashed" THEN t ELSE UpdateClientTable(t, req)
  BY DEF AppendNext, Then
<1> HIDE DEF e
<1>3. FineStep(s, t, log, s.lastOp)
  BY <1>1, FinePush
<1> HIDE DEF t
<1>4. op \in 1 .. Len(log) /\ op \in Nat /\ s.lastOp \in Nat /\ s.lastOp <= op /\ req = log[op].req
  BY FieldTypes DEF LeaderLog
<1> HIDE DEF op
<1>5. t \in ReplicaState /\ Backup(t, log) /\ Fine(t, log, s.lastOp) /\ t.status = "normal"
  BY <1>3 DEF FineStep, BackupStep, Fine
<1>6. FineStep(t, UpdateClientTable(t, req), log, op)
  BY <1>4, <1>5, FineTable
<1>7. FineStep(s, AppendNext(s, 0, req), log, op)
  BY <1>2, <1>3, <1>5, <1>6, FineTransitive
<1> QED BY <1>7 DEF op

\* The rest of a batch, by induction on its requests.
LEMMA FineAppendBatch ==
  ASSUME NEW s \in ReplicaState, NEW log, LeaderLog(log), Rising(log), Backup(s, log),
         Fine(s, log, s.lastOp), NEW reqs \in Seq(Request),
         \A k \in 1 .. Len(reqs) :
            s.lastOp + k <= Len(log) /\ reqs[k] = log[s.lastOp + k].req
  PROVE  LET t == AppendBatch(s, 0, reqs) IN
         t.lastOp = s.lastOp + Len(reqs) /\ FineStep(s, t, log, t.lastOp)
<1> DEFINE n == Len(reqs)
<1>0. n \in Nat /\ s.lastOp \in Nat
  BY FieldTypes
<1>1. PICK t : /\ t[0] = s /\ AppendBatch(s, 0, reqs) = t[n]
               /\ \A k \in 1 .. n :
                    t[k] = IF t[k - 1].status = "crashed" THEN t[k - 1]
                           ELSE AppendNext(t[k - 1], 0, reqs[k])
  BY AppendRounds
<1>r. \A k \in 1 .. n : s.lastOp + k <= Len(log) /\ reqs[k] = log[s.lastOp + k].req
  OBVIOUS
<1> HIDE DEF n
<1> DEFINE S == {k \in 0 .. n : t[k].lastOp = s.lastOp + k /\ FineStep(s, t[k], log, t[k].lastOp)}
<1>2. 0 \in S
  BY <1>0, <1>1, FineItself
<1>3. ASSUME NEW k \in 1 .. n, k - 1 \in S PROVE k \in S
  <2> DEFINE u == t[k - 1]
             v == t[k]
             req == reqs[k]
  <2>1. u.lastOp + 1 = s.lastOp + k /\ FineStep(s, u, log, u.lastOp)
    BY <1>0, <1>3
  <2>2. /\ v = IF u.status = "crashed" THEN u ELSE AppendNext(u, 0, req)
        /\ u.lastOp + 1 <= Len(log) /\ req = log[u.lastOp + 1].req
    BY <1>1, <1>r, <2>1
  <2> HIDE DEF u, v, req
  <2>3. u \in ReplicaState /\ Backup(u, log) /\ Fine(u, log, u.lastOp) /\ u.status = "normal"
    BY <2>1 DEF FineStep, BackupStep, Fine
  <2>4. v = AppendNext(u, 0, req)
    BY <2>2, <2>3
  <2>5. FineStep(u, v, log, u.lastOp + 1)
    BY <2>2, <2>3, <2>4, FineAppendNext
  <2>6. v.lastOp = u.lastOp + 1
    BY <2>2, <2>3, <2>4, BackupAppendNext
  <2>7. FineStep(s, v, log, v.lastOp)
    BY <2>1, <2>5, <2>6, FineTransitive
  <2> QED BY <1>0, <2>1, <2>6, <2>7 DEF v
<1> HIDE DEF S
<1>4. n \in S
  BY <1>0, <1>2, <1>3, RoundInduction DEF S
<1> QED BY <1>1, <1>4 DEF S, n

\* What a backup is at its last operation.
Sound(s, log) == Backup(s, log) /\ Fine(s, log, s.lastOp)
SoundStep(s, t, log) == FineStep(s, t, log, t.lastOp)

\* A step that leaves the log.
LEMMA FineIsSound ==
  ASSUME NEW s \in ReplicaState, NEW t, NEW log, Backup(s, log),
         FineStep(s, t, log, s.lastOp)
  PROVE  SoundStep(s, t, log)
<1>1. s.lastOp \in Nat /\ t.lastOp \in Nat /\ s.lastOp <= t.lastOp
  BY FieldTypes DEF FineStep, BackupStep, Backup, InStep
<1>2. Fine(t, log, t.lastOp)
  BY <1>1, FineLater DEF FineStep
<1> QED BY <1>2 DEF FineStep, SoundStep

\* A sound backup stays sound by doing nothing,
LEMMA SoundItself ==
  ASSUME NEW s \in ReplicaState, NEW log, Sound(s, log)
  PROVE  SoundStep(s, s, log)
BY FineItself DEF Sound, SoundStep

\* and by two steps.
LEMMA SoundTransitive ==
  ASSUME NEW s \in ReplicaState, NEW t, NEW u, NEW log, SoundStep(s, t, log),
         SoundStep(t, u, log)
  PROVE  SoundStep(s, u, log)
BY FineTransitive DEF SoundStep

\* HandlePrepare of a backup: the shape of the batch is right, and each request is the
\* next of its client.
LEMMA SoundHandlePrepare ==
  ASSUME NEW s \in ReplicaState, NEW log, LeaderLog(log), Rising(log), Sound(s, log),
         NEW m \in PrepareMsgs, SoundPrepare(m, log), m.batchStart <= m.op
  PROVE  SoundStep(s, HandlePrepare(s, m), log)
<1> DEFINE reqs == SubSeq(m.reqs, s.lastOp - m.batchStart + 2, Len(m.reqs))
           t == AppendBatch(s, 0, reqs)
           Ack(u) == Send(u, PrepareOK(u, 0, m.op))
<1>1. /\ m.view = 0 /\ m.op \in Nat /\ m.batchStart \in Nat /\ m.reqs \in Seq(Request)
      /\ s.lastOp \in Nat /\ s.lastOp = Len(s.log) /\ m.op <= Len(log) /\ m.batchStart > 0
      /\ Len(m.reqs) = m.op - m.batchStart + 1 /\ s.view = 0
      /\ \A k \in 1 .. Len(m.reqs) : m.reqs[k] = log[m.batchStart + k - 1].req
      /\ Backup(s, log) /\ Fine(s, log, s.lastOp)
  BY FieldTypes DEF PrepareMsgs, SoundPrepare, Sound, Backup, InStep
<1>2. ~AmLeader(s)
  BY <1>1, FirstLeader DEF Backup
<1>3. ASSUME NEW u \in ReplicaState, Sound(u, log), m.op \in 1 .. u.lastOp
      PROVE  SoundStep(u, Ack(u), log)
  <2>1. m.op \in 1 .. Len(u.log)
    BY <1>3 DEF Sound, Backup, InStep
  <2>2. FineStep(u, Ack(u), log, u.lastOp)
    BY <1>1, <1>3, <2>1, FinePrepareOK DEF Sound
  <2> HIDE DEF Ack
  <2> QED BY <1>3, <2>2, FineIsSound DEF Sound
<1>4. \/ HandlePrepare(s, m) \in {s, Postpone(s, m)}
      \/ m.op \in 1 .. s.lastOp /\ HandlePrepare(s, m) = Ack(s)
      \/ /\ m.batchStart <= s.lastOp + 1 /\ m.op > s.lastOp
         /\ HandlePrepare(s, m) = IF t.status = "crashed" THEN t ELSE Ack(t)
  BY <1>1, <1>2 DEF HandlePrepare, Then
<1> HIDE DEF Ack
<1>5. CASE HandlePrepare(s, m) \in {s, Postpone(s, m)}
  <2>1. FineStep(s, Postpone(s, m), log, s.lastOp)
    BY <1>1, FinePostpone
  <2>2. SoundStep(s, Postpone(s, m), log)
    BY <1>1, <2>1, FineIsSound
  <2> QED BY <1>5, <2>2, SoundItself
<1>6. CASE m.op \in 1 .. s.lastOp /\ HandlePrepare(s, m) = Ack(s)
  BY <1>3, <1>6
<1>7. CASE /\ m.batchStart <= s.lastOp + 1 /\ m.op > s.lastOp
           /\ HandlePrepare(s, m) = IF t.status = "crashed" THEN t ELSE Ack(t)
  <2>1. /\ reqs \in Seq(Request) /\ Len(reqs) = m.op - s.lastOp
        /\ \A k \in 1 .. Len(reqs) :
             s.lastOp + k <= m.op /\ reqs[k] = log[s.lastOp + k].req
    <3> DEFINE all == m.reqs
               first == m.batchStart
               op == m.op
               last == s.lastOp
               rest == SubSeq(all, last - first + 2, Len(all))
    <3>1. /\ all \in Seq(Request) /\ first \in Nat \ {0} /\ op \in Nat /\ last \in Nat
          /\ Len(all) = op - first + 1 /\ first <= last + 1 /\ op > last
          /\ \A k \in 1 .. Len(all) : all[k] = log[first + k - 1].req
      BY <1>1, <1>7
    <3> HIDE DEF all, first, op, last
    <3>2. /\ rest \in Seq(Request) /\ Len(rest) = op - last
          /\ \A k \in 1 .. Len(rest) : last + k <= op /\ rest[k] = log[last + k].req
      BY <3>1, BatchSuffix
    <3>3. rest = reqs
      BY DEF all, first, last
    <3> HIDE DEF rest
    <3> QED BY <3>2, <3>3 DEF op, last
  <2> HIDE DEF reqs
  <2>2. \A k \in 1 .. Len(reqs) : s.lastOp + k <= Len(log)
    BY <1>1, <2>1, FieldTypes DEF LeaderLog
  <2>3. t.lastOp = s.lastOp + Len(reqs) /\ FineStep(s, t, log, t.lastOp)
    BY <1>1, <2>1, <2>2, FineAppendBatch
  <2> HIDE DEF t
  <2>4. t.lastOp = m.op /\ t \in ReplicaState /\ Sound(t, log) /\ t.status = "normal"
    BY <1>1, <2>1, <2>3 DEF FineStep, BackupStep, Sound, Fine
  <2>5. m.op \in 1 .. t.lastOp
    BY <1>1, <1>7, <2>4
  <2>6. SoundStep(t, Ack(t), log)
    BY <1>3, <2>4, <2>5
  <2>7. SoundStep(s, Ack(t), log)
    BY <2>3, <2>6, SoundTransitive DEF SoundStep
  <2> QED BY <1>7, <2>4, <2>7
<1> QED BY <1>4, <1>5, <1>6, <1>7

\* HandleCommit of a backup: it executes what it has, or asks for more.
LEMMA SoundHandleCommit ==
  ASSUME NEW s \in ReplicaState, NEW log, LeaderLog(log), Sound(s, log),
         NEW m \in CommitMsgs, m.view = 0
  PROVE  SoundStep(s, HandleCommit(s, m), log)
<1>1. /\ m.op \in Nat /\ s.view = 0 /\ s.lastOp \in Nat /\ s.lastOp = Len(s.log)
      /\ s.lastCommitted \in Nat /\ s.lastCommitted <= s.lastOp
      /\ Backup(s, log) /\ Fine(s, log, s.lastOp)
  BY FieldTypes DEF CommitMsgs, Sound, Backup, InStep
<1>2. ~AmLeader(s)
  BY <1>1, FirstLeader DEF Backup
<1> DEFINE t == CommitUpTo(s, m.op)
<1>3. \/ HandleCommit(s, m) \in {s, RequestStateTransfer(s)}
      \/ m.op <= s.lastOp /\ HandleCommit(s, m) = t
  BY <1>1, <1>2 DEF HandleCommit
<1>4. CASE HandleCommit(s, m) \in {s, RequestStateTransfer(s)}
  <2>1. FineStep(s, RequestStateTransfer(s), log, s.lastOp)
    BY <1>1, FineRequestStateTransfer
  <2>2. SoundStep(s, RequestStateTransfer(s), log)
    BY <1>1, <2>1, FineIsSound
  <2> QED BY <1>4, <2>2, SoundItself
<1>5. CASE m.op <= s.lastOp /\ HandleCommit(s, m) = t
  <2>1. t.lastCommitted \in {s.lastCommitted} \cup 1 .. m.op
    BY <1>1, CommitUpToCommits DEF Backup
  <2>2. t.lastCommitted <= s.lastOp
    BY <1>1, <1>5, <2>1
  <2>3. FineStep(s, t, log, s.lastOp)
    BY <1>1, <1>5, <2>2, FineCommitUpTo
  <2> HIDE DEF t
  <2> QED BY <1>1, <1>5, <2>3, FineIsSound
<1> QED BY <1>3, <1>4, <1>5

\* A dump of a log, from the operation after one that the receiver has.
LEMMA DumpCovers ==
  ASSUME NEW log \in Seq(Entry), NEW op \in Nat, NEW done \in Nat, done <= Len(log)
  PROVE  LET d == Dump(log, op + 1) IN d.first = op + 1 /\ done < d.first + Len(d.entries)
<1> DEFINE first == Max({op + 1, 1})
           d == Dump(log, op + 1)
<1>1. first = op + 1
  BY MaxOfTwo
<1> HIDE DEF first
<1>2. d.first = first /\ d.entries = SubSeq(log, first, Len(log))
  BY DEF Dump, first
<1> HIDE DEF d
<1>3. Len(log) \in Nat /\ first \in Nat \ {0}
  BY <1>1
<1>4. Len(d.entries) = IF first <= Len(log) THEN Len(log) - first + 1 ELSE 0
  BY <1>2, <1>3, SuffixIs
<1>5. d.first = op + 1 /\ done < d.first + Len(d.entries)
  <2> DEFINE e == Len(d.entries)
             n == Len(log)
  <2>1. e = (IF first <= n THEN n - first + 1 ELSE 0) /\ n \in Nat /\ done <= n
    BY <1>3, <1>4
  <2> HIDE DEF e, n
  <2>2. done < first + e
    BY <1>3, <2>1
  <2> QED BY <1>1, <1>2, <2>2 DEF e
<1> QED BY <1>5 DEF d

\* A backup answers with everything after what the other has executed.
LEMMA SoundHandleRequestStateTransfer ==
  ASSUME NEW s \in ReplicaState, NEW log, LeaderLog(log), Sound(s, log),
         NEW m \in TransferRequests, m.view = 0, m.from # 0,
         rep[m.from].lastCommitted \in Nat, m.op <= rep[m.from].lastCommitted
  PROVE  SoundStep(s, HandleRequestStateTransfer(s, m), log)
<1> DEFINE dump == Dump(s.log, m.op + 1)
           a == [type |-> "stateTransfer", to |-> {m.from}, view |-> s.view,
                 op |-> s.lastCommitted, dump |-> dump]
           t == HandleRequestStateTransfer(s, m)
<1>1. /\ m.op \in Nat /\ s.view = 0 /\ Backup(s, log) /\ Fine(s, log, s.lastOp)
      /\ s.lastCommitted \in Nat /\ s.lastCommitted <= Len(s.log) /\ s.status = "normal"
  BY FieldTypes DEF TransferRequests, Sound, Fine, Backup, InStep
<1>2. dump.first = m.op + 1 /\ s.lastCommitted < dump.first + Len(dump.entries)
  BY <1>1, FieldTypes, DumpCovers
<1>3. t = Send(s, a)
  BY <1>1 DEF HandleRequestStateTransfer
<1>4. BackupStep(s, t, log)
  BY <1>1, BackupHandleRequestStateTransfer
<1> HIDE DEF dump, t
<1>5. FineMessage(a, s)
  <2>1. m.op + 1 <= rep[m.from].lastCommitted + 1
    BY <1>1
  <2> QED BY <1>2, <2>1 DEF FineMessage, Covers, Wanted
<1> HIDE DEF a
<1>6. /\ t.status = s.status /\ t.fault = s.fault /\ t.clientTable = s.clientTable
      /\ t.lastCommitted = s.lastCommitted /\ t.pendingPrepares = s.pendingPrepares
      /\ t.out = s.out \cup {a} /\ t.lastOp = s.lastOp
  BY <1>3 DEF Send, ReplicaState
<1>7. FineStep(s, t, log, s.lastOp)
  BY <1>1, <1>4, <1>5, <1>6, SameFine DEF Fine
<1>8. SoundStep(s, t, log)
  BY <1>6, <1>7 DEF SoundStep
<1> QED BY <1>8 DEF t

\* A round of the transfer has gone from x to y: the backup now has the operation.
TransferStep(x, y, log, n, op) ==
    y.oldLastOp = x.oldLastOp /\ op <= y.s.lastOp /\ FineStep(x.s, y.s, log, n)

\* An entry of a transfer that is in the log already, or is the next one.
LEMMA FineTransferEntry ==
  ASSUME NEW x \in TransferState, NEW log, LeaderLog(log), Backup(x.s, log), NEW n,
         Fine(x.s, log, n), NEW op \in Nat \ {0}, op <= Len(log), op <= x.s.lastOp + 1,
         NEW entry, entry = log[op]
  PROVE  TransferStep(x, TransferEntry(x, op, entry), log, n, op)
<1> DEFINE s == x.s
           y == TransferEntry(x, op, entry)
<1>1. /\ s \in ReplicaState /\ s.lastOp \in Nat /\ s.lastOp = Len(s.log) /\ s.status = "normal"
      /\ s.lastCommitted \in Nat /\ s.lastCommitted <= s.lastOp
  BY FieldTypes DEF TransferState, Fine, Backup, InStep
<1>2. op <= s.lastOp => Found(s.log, op) /\ s.log[op] = entry
  <2>1. op <= s.lastOp => op \in 1 .. Len(s.log)
    BY <1>1
  <2>2. \A i \in 1 .. Len(s.log) : s.log[i] = log[i]
    BY DEF Backup, Grows
  <2> QED BY <2>1, <2>2 DEF Found
<1>3. CASE op <= s.lastOp
  <2>1. ~(op > s.lastOp)
    BY <1>1, <1>3
  <2>2. ~(s.log[op].view > entry.view)
    <3>1. entry \in Entry
      BY DEF LeaderLog
    <3> QED BY <1>2, <1>3, <3>1 DEF Entry
  <2>3. y = x
    BY <1>2, <1>3, <2>1, <2>2 DEF TransferEntry
  <2> HIDE DEF y
  <2> QED BY <1>1, <1>3, <2>3, FineItself DEF y, TransferStep
<1>4. CASE ~(op <= s.lastOp)
  <2>1. op = s.lastOp + 1 /\ op > s.lastOp /\ ~(op <= s.lastCommitted)
    BY <1>1, <1>4
  <2>2. y = [x EXCEPT !.s = Push(s, entry)]
    BY <1>1, <2>1 DEF TransferEntry
  <2>3. FineStep(s, Push(s, entry), log, n) /\ Push(s, entry).lastOp = op
    BY <1>1, <2>1, FinePush, BackupPush
  <2>4. y.s = Push(s, entry) /\ y.oldLastOp = x.oldLastOp
    BY <2>2 DEF TransferState
  <2> HIDE DEF y
  <2> QED BY <2>3, <2>4 DEF y, TransferStep
<1> QED BY <1>3, <1>4

\* The loop of HandleStateTransfer reaches the end of a transfer that was wanted.
LEMMA FineTransferEntries ==
  ASSUME NEW s \in ReplicaState, NEW log, LeaderLog(log), Sound(s, log),
         NEW dump \in DumpOf, SoundDump(dump, log), dump.first <= s.lastOp + 1
  PROVE  LET x == TransferEntries(s, dump) IN
         /\ x.oldLastOp = s.lastOp /\ dump.first + Len(dump.entries) <= x.s.lastOp + 1
         /\ FineStep(s, x.s, log, s.lastOp)
<1> DEFINE n == Len(dump.entries)
           first == dump.first
<1>1. PICK t : /\ t[0] = [s |-> s, oldLastOp |-> s.lastOp]
               /\ TransferEntries(s, dump) = t[n]
               /\ \A k \in 1 .. n :
                    t[k] = TransferEntry(t[k - 1], first + k - 1, dump.entries[k])
  BY TransferRounds
<1>2. /\ n \in Nat /\ first \in Nat \ {0} /\ first <= s.lastOp + 1 /\ s.lastOp \in Nat
      /\ \A k \in 1 .. n : first + k - 1 <= Len(log)
                           /\ dump.entries[k] = log[first + k - 1]
  BY FieldTypes DEF DumpOf, SoundDump
<1> HIDE DEF n, first
<1> DEFINE S == {k \in 0 .. n : /\ t[k] \in TransferState /\ t[k].oldLastOp = s.lastOp
                                /\ first + k <= t[k].s.lastOp + 1
                                /\ FineStep(s, t[k].s, log, s.lastOp)}
<1>3. 0 \in S
  <2>1. t[0] \in TransferState /\ t[0].s = s /\ t[0].oldLastOp = s.lastOp
    BY <1>1, FieldTypes DEF TransferState
  <2>2. FineStep(s, s, log, s.lastOp)
    BY FineItself DEF Sound
  <2> QED BY <1>2, <2>1, <2>2
<1>4. ASSUME NEW k \in 1 .. n, k - 1 \in S PROVE k \in S
  <2> DEFINE x == t[k - 1]
             y == t[k]
             op == first + k - 1
             entry == dump.entries[k]
  <2>1. /\ x \in TransferState /\ x.oldLastOp = s.lastOp /\ first + (k - 1) <= x.s.lastOp + 1
        /\ FineStep(s, x.s, log, s.lastOp)
    BY <1>4
  <2>2. op \in Nat \ {0} /\ op <= Len(log) /\ entry = log[op] /\ first + (k - 1) = op
        /\ first + k = op + 1
    BY <1>2
  <2>3. y = TransferEntry(x, op, entry)
    BY <1>1
  <2> HIDE DEF x, y, op, entry
  <2>4. Backup(x.s, log) /\ Fine(x.s, log, s.lastOp) /\ op <= x.s.lastOp + 1
    BY <2>1, <2>2 DEF FineStep, BackupStep
  <2>5. y \in TransferState
    BY <2>1, <2>2, <2>3, <2>4, BackupTransferEntry
  <2>6. y.oldLastOp = x.oldLastOp /\ op <= y.s.lastOp /\ FineStep(x.s, y.s, log, s.lastOp)
    <3>1. TransferStep(x, TransferEntry(x, op, entry), log, s.lastOp, op)
      BY <2>1, <2>2, <2>4, FineTransferEntry
    <3> QED BY <2>3, <3>1 DEF TransferStep
  <2>7. FineStep(s, y.s, log, s.lastOp)
    BY <2>1, <2>6, FineTransitive
  <2>8. first + k <= y.s.lastOp + 1
    BY <2>2, <2>5, <2>6, FieldTypes DEF TransferState
  <2> QED BY <1>2, <2>1, <2>5, <2>6, <2>7, <2>8 DEF y
<1> HIDE DEF S
<1>5. n \in S
  BY <1>2, <1>3, <1>4, RoundInduction DEF S
<1> QED BY <1>1, <1>5 DEF S, n, first

\* The pending PREPAREs.
LEMMA SoundHandlePending ==
  ASSUME NEW s \in ReplicaState, NEW log, LeaderLog(log), Rising(log), Sound(s, log)
  PROVE  SoundStep(s, HandlePending(s), log)
<1> DEFINE ps == s.pendingPrepares
           n == Len(ps)
<1>0. n \in Nat /\ \A k \in 1 .. n : /\ ps[k] \in PrepareMsgs /\ SoundPrepare(ps[k], log)
                                     /\ ps[k].batchStart <= ps[k].op
  BY FieldTypes DEF Sound, Fine, Backup
<1>1. PICK t : /\ t[0] = [s EXCEPT !.pendingPrepares = << >>] /\ HandlePending(s) = t[n]
               /\ \A k \in 1 .. n :
                    t[k] = IF t[k - 1].status = "crashed" THEN t[k - 1]
                           ELSE HandlePrepare(t[k - 1], ps[k])
  BY PendingRounds
<1> HIDE DEF ps, n
<1> DEFINE S == {k \in 0 .. n : SoundStep(s, t[k], log)}
<1>2. 0 \in S
  <2> DEFINE u == [s EXCEPT !.pendingPrepares = << >>]
  <2>1. /\ u \in ReplicaState /\ u.id = s.id /\ u.view = s.view /\ u.status = s.status
        /\ u.log = s.log /\ u.lastOp = s.lastOp /\ u.lastCommitted = s.lastCommitted
        /\ u.executed = s.executed /\ u.addresses = s.addresses
        /\ u.pendingPrepares = << >> /\ u.out = s.out
        /\ u.fault = s.fault /\ u.clientTable = s.clientTable
    <3>1. << >> \in Seq(PrepareMsgs)
      OBVIOUS
    <3> QED BY <3>1 DEF ReplicaState
  <2> HIDE DEF u
  <2>2. \A i \in 1 .. Len(u.pendingPrepares) : FALSE
    BY <2>1
  <2>3. BackupStep(s, u, log)
    BY <2>1, <2>2, SameBackup DEF Sound
  <2>4. FineStep(s, u, log, s.lastOp)
    BY <2>1, <2>2, <2>3, SameFine DEF Sound
  <2>5. SoundStep(s, u, log)
    BY <2>1, <2>4 DEF SoundStep
  <2> QED BY <1>0, <1>1, <2>5 DEF u
<1>3. ASSUME NEW k \in 1 .. n, k - 1 \in S PROVE k \in S
  <2> DEFINE u == t[k - 1]
             p == ps[k]
  <2>1. SoundStep(s, u, log) /\ t[k] = (IF u.status = "crashed" THEN u ELSE HandlePrepare(u, p))
        /\ p \in PrepareMsgs /\ SoundPrepare(p, log) /\ p.batchStart <= p.op
    BY <1>0, <1>1, <1>3
  <2> HIDE DEF u, p
  <2>2. u \in ReplicaState /\ Sound(u, log) /\ u.status = "normal"
    BY <2>1 DEF SoundStep, FineStep, BackupStep, Sound, Fine
  <2>3. SoundStep(u, HandlePrepare(u, p), log)
    BY <2>1, <2>2, SoundHandlePrepare
  <2>4. SoundStep(s, t[k], log)
    BY <2>1, <2>2, <2>3, SoundTransitive
  <2> QED BY <1>0, <2>4
<1> HIDE DEF S
<1>4. n \in S
  BY <1>0, <1>2, <1>3, RoundInduction DEF S
<1> QED BY <1>1, <1>4 DEF S

\* HandleStateTransfer of a backup: no gap, no conflict, nothing missing at the end.
LEMMA SoundHandleStateTransfer ==
  ASSUME NEW s \in ReplicaState, NEW log, LeaderLog(log), Rising(log), Sound(s, log),
         NEW m \in Transfers, SoundTransfer(m, log), Covers(m),
         m.dump.first <= s.lastCommitted + 1
  PROVE  SoundStep(s, HandleStateTransfer(s, m), log)
<1>1. /\ m.view = 0 /\ m.op \in Nat /\ m.dump \in DumpOf /\ SoundDump(m.dump, log)
      /\ s.view = 0 /\ ~(m.view < s.view) /\ s.lastOp \in Nat
      /\ m.dump.first <= s.lastOp + 1 /\ m.op < m.dump.first + Len(m.dump.entries)
  <2>1. m.view = 0 /\ s.view = 0 /\ m.dump \in DumpOf /\ SoundDump(m.dump, log) /\ m.op \in Nat
    BY DEF Transfers, SoundTransfer, Sound, Backup, InStep
  <2>2. s.lastCommitted \in Nat /\ s.lastOp \in Nat /\ s.lastCommitted <= s.lastOp
        /\ m.dump.first \in Nat
    BY <2>1, FieldTypes DEF Sound, Backup, InStep, DumpOf
  <2> QED BY <2>1, <2>2 DEF Covers
<1> DEFINE x == TransferEntries(s, m.dump)
           p == x.s
           q == Then(p, LAMBDA t : IF m.view > t.view THEN EnterView(t, m.view) ELSE t)
           u == Then(q, LAMBDA t : IF m.op > t.lastOp THEN Crash(t, "StateTransferShort") ELSE t)
           v == Then(u, LAMBDA t : CommitUpTo(t, m.op))
           w == Then(v, LAMBDA t : SendPrepareOKs(t, x.oldLastOp))
           z == Then(w, HandlePending)
<1>2. /\ x.oldLastOp = s.lastOp /\ m.dump.first + Len(m.dump.entries) <= p.lastOp + 1
      /\ FineStep(s, p, log, s.lastOp)
  BY <1>1, FineTransferEntries
<1>3. HandleStateTransfer(s, m) = z
  BY <1>1 DEF HandleStateTransfer, Then
<1> HIDE DEF x, p
<1>4. /\ p \in ReplicaState /\ Backup(p, log) /\ Fine(p, log, s.lastOp) /\ p.view = 0
      /\ p.status = "normal" /\ p.lastOp \in Nat /\ p.lastOp = Len(p.log)
      /\ p.lastCommitted \in Nat /\ p.lastCommitted <= p.lastOp /\ s.lastOp <= p.lastOp
  <2>1. p \in ReplicaState /\ Backup(p, log) /\ Fine(p, log, s.lastOp) /\ Len(s.log) <= Len(p.log)
        /\ s.lastOp = Len(s.log)
    BY <1>2 DEF FineStep, BackupStep, Sound, Backup, InStep
  <2> QED BY <2>1, FieldTypes DEF Fine, Backup, InStep
<1>5. m.op <= p.lastOp
  <2> DEFINE first == m.dump.first
             n == Len(m.dump.entries)
             op == m.op
             last == p.lastOp
  <2>1. first \in Nat /\ n \in Nat /\ op \in Nat /\ last \in Nat
        /\ op < first + n /\ first + n <= last + 1
    BY <1>1, <1>2, <1>4 DEF DumpOf
  <2> HIDE DEF first, n, op, last
  <2>2. op <= last
    BY <2>1
  <2> QED BY <2>2 DEF op, last
<1>a. q = IF p.status = "crashed" THEN p
           ELSE IF m.view > p.view THEN EnterView(p, m.view) ELSE p
  BY DEF Then
<1> HIDE DEF q
<1>q. q = p
  BY <1>1, <1>4, <1>a
<1>b. u = IF q.status = "crashed" THEN q
           ELSE IF m.op > q.lastOp THEN Crash(q, "StateTransferShort") ELSE q
  BY DEF Then
<1> HIDE DEF u
<1>u. u = p
  BY <1>1, <1>4, <1>5, <1>b, <1>q
<1>c. v = IF u.status = "crashed" THEN u ELSE CommitUpTo(u, m.op)
  BY DEF Then
<1> HIDE DEF v
<1>v. v = CommitUpTo(p, m.op)
  BY <1>4, <1>c, <1>u
<1>d. w = IF v.status = "crashed" THEN v ELSE SendPrepareOKs(v, x.oldLastOp)
  BY DEF Then
<1> HIDE DEF w
<1>e. z = IF w.status = "crashed" THEN w ELSE HandlePending(w)
  BY DEF Then
<1> HIDE DEF z
<1>6. /\ \A k \in Nat : s.lastOp <= k /\ v.lastCommitted <= k => FineStep(p, v, log, k)
      /\ v.lastOp = p.lastOp /\ v.lastCommitted <= p.lastOp
  <2>1. \A k \in Nat : s.lastOp <= k /\ v.lastCommitted <= k => FineStep(p, v, log, k)
    BY <1>1, <1>4, <1>5, <1>v, FineCommitUpTo
  <2>2. v.lastOp = p.lastOp /\ v.lastCommitted \in {p.lastCommitted} \cup 1 .. m.op
    BY <1>1, <1>4, <1>v, CommitUpToCommits DEF Backup, Commits
  <2> QED BY <1>1, <1>4, <1>5, <2>1, <2>2
<1>7. FineStep(p, v, log, p.lastOp)
  BY <1>4, <1>6
<1>8. v \in ReplicaState /\ Backup(v, log) /\ v.status = "normal"
  BY <1>7 DEF FineStep, BackupStep, Fine
<1>9. FineStep(v, w, log, v.lastOp)
  <2>1. w = SendPrepareOKs(v, s.lastOp)
    BY <1>2, <1>8, <1>d
  <2>2. \A k \in Nat : s.lastOp <= k /\ v.lastCommitted <= k => Fine(v, log, k)
    BY <1>6 DEF FineStep
  <2> QED BY <1>1, <1>4, <1>6, <1>8, <2>1, <2>2, FineSendPrepareOKs
<1>10. SoundStep(v, w, log)
  BY <1>8, <1>9, FineIsSound
<1>11. w \in ReplicaState /\ Sound(w, log) /\ w.status = "normal"
  BY <1>10 DEF SoundStep, FineStep, BackupStep, Sound, Fine
<1>12. SoundStep(w, z, log)
  BY <1>11, <1>e, SoundHandlePending
<1>13. FineStep(s, v, log, p.lastOp)
  BY <1>2, <1>7, FineTransitive
<1>14. SoundStep(s, v, log)
  BY <1>6, <1>13 DEF SoundStep
<1>15. SoundStep(s, w, log)
  BY <1>10, <1>14, SoundTransitive
<1>16. SoundStep(s, z, log)
  BY <1>12, <1>15, SoundTransitive
<1> QED BY <1>3, <1>16

\* What the leader is when no ASSERT has failed.
Ready(s) ==
    /\ s.status = "normal" /\ s.fault = "none"
    /\ s.lastBatchEnd <= s.lastOp /\ Rising(s.log)
    /\ \A m \in s.out : FineMessage(m, s)

\* The leader has gone from s to t, and no ASSERT has failed.
ReadyStep(s, t) == LeaderStep(s, t) /\ Ready(t)

\* What the receivers assert of a message stays true when its sender executes more.
LEMMA FineMessageLater ==
  ASSUME NEW s \in ReplicaState, NEW t \in ReplicaState, s.lastCommitted <= t.lastCommitted,
         NEW m \in Message, FineMessage(m, s)
  PROVE  FineMessage(m, t)
<1>1. s.lastCommitted \in Nat /\ t.lastCommitted \in Nat
  BY FieldTypes
<1>2. m.type = "requestStateTransfer" => m.op \in Nat
  BY MessageKinds DEF TransferRequests
<1> QED BY <1>1, <1>2 DEF FineMessage

\* ReadyStep is reflexive and transitive.
LEMMA ReadyItself ==
  ASSUME NEW s \in ReplicaState, Leader(s), Ready(s)
  PROVE  ReadyStep(s, s)
BY LeaderStepItself DEF ReadyStep

\* One operation of a handler after the other.
LEMMA ReadyTransitive ==
  ASSUME NEW s \in ReplicaState, NEW t, NEW u, LeaderStep(s, t), ReadyStep(t, u)
  PROVE  ReadyStep(s, u)
BY LeaderStepTransitive DEF ReadyStep

\* A record that differs from s in nothing that Ready is about, but for what it sends and
\* for a batch that is closed.
LEMMA SameReady ==
  ASSUME NEW s \in ReplicaState, NEW t, LeaderStep(s, t), Ready(s),
         t.status = s.status, t.fault = s.fault, t.log = s.log, t.lastOp = s.lastOp,
         t.lastBatchEnd \in {s.lastBatchEnd, s.lastOp},
         \A m \in t.out : m \in s.out \/ FineMessage(m, t)
  PROVE  ReadyStep(s, t)
<1>1. \A m \in t.out : FineMessage(m, t)
  <2> TAKE m \in t.out
  <2>1. CASE m \in s.out
    <3>1. m \in Message /\ FineMessage(m, s)
      BY <2>1, FieldTypes DEF Ready
    <3> QED BY <3>1, FineMessageLater DEF LeaderStep
  <2> QED BY <2>1
<1>2. t.lastBatchEnd <= t.lastOp
  BY FieldTypes DEF Ready
<1> QED BY <1>1, <1>2 DEF Ready, ReadyStep

\* The leader sends a message no receiver trips over.
LEMMA ReadySend ==
  ASSUME NEW s \in ReplicaState, Leader(s), Ready(s), NEW m \in Message,
         LeaderMessage(m, s), FineMessage(m, s)
  PROVE  ReadyStep(s, Send(s, m))
<1> DEFINE t == Send(s, m)
<1>1. LeaderStep(s, t)
  BY LeaderSend DEF LeaderStays
<1>2. /\ t.status = s.status /\ t.fault = s.fault /\ t.log = s.log /\ t.lastOp = s.lastOp
      /\ t.lastBatchEnd = s.lastBatchEnd /\ t.lastCommitted = s.lastCommitted
      /\ t.out = s.out \cup {m}
  BY DEF Send, ReplicaState
<1> HIDE DEF t
<1>3. \A a \in t.out : a \in s.out \/ FineMessage(a, t)
  BY <1>2 DEF FineMessage
<1>4. ReadyStep(s, t)
  BY <1>1, <1>2, <1>3, SameReady
<1> QED BY <1>4 DEF t

\* A COMMIT.
LEMMA ReadySendCommit ==
  ASSUME NEW s \in ReplicaState, Leader(s), Ready(s)
  PROVE  /\ ReadyStep(s, SendCommit(s)) /\ SendCommit(s).lastOp = s.lastOp
         /\ SendCommit(s).lastBatchEnd = s.lastBatchEnd
<1> DEFINE m == [type |-> "commit", to |-> Others(s), view |-> s.view, op |-> s.lastCommitted]
<1>1. m \in Message
  BY FieldTypes, OthersAreReplicas DEF Message, CommitMsgs
<1>2. LeaderMessage(m, s) /\ FineMessage(m, s)
  BY DEF LeaderMessage, FineMessage, Leader, InStep, Others
<1>3. SendCommit(s) = Send(s, m)
  BY DEF SendCommit
<1> HIDE DEF m
<1>4. Send(s, m).lastOp = s.lastOp /\ Send(s, m).lastBatchEnd = s.lastBatchEnd
  BY DEF Send, ReplicaState
<1> QED BY <1>1, <1>2, <1>3, <1>4, ReadySend

\* CloseBatch is only called with something to send, and all of it of view 0.
LEMMA ReadyCloseBatch ==
  ASSUME NEW s \in ReplicaState, Leader(s), Ready(s), s.lastBatchEnd < s.lastOp
  PROVE  ReadyStep(s, CloseBatch(s))
<1> DEFINE reqs == [k \in 1 .. s.lastOp - s.lastBatchEnd |-> s.log[s.lastBatchEnd + k].req]
           m == [type |-> "prepare", to |-> Others(s), view |-> s.view,
                 op |-> s.lastOp, batchStart |-> s.lastBatchEnd + 1, reqs |-> reqs]
           t == [s EXCEPT !.lastBatchEnd = s.lastOp, !.batchComplete = FALSE]
           u == CloseBatch(s)
<1>1. /\ s.view = 0 /\ AmLeader(s) /\ s.lastOp = Len(s.log) /\ s.lastOp \in Nat
      /\ s.lastBatchEnd \in Nat
      /\ \A op \in 1 .. Len(s.log) : s.log[op].view = 0
  BY FirstLeader, FieldTypes DEF Leader, InStep
<1>2. \A op \in s.lastBatchEnd + 1 .. s.lastOp : Found(s.log, op) /\ s.log[op].view = s.view
  BY <1>1 DEF Found
<1>3. u = Send(t, m)
  BY <1>1, <1>2 DEF CloseBatch
<1>4. LeaderStep(s, u)
  BY LeaderCloseBatch DEF LeaderStays
<1>5. m.type = "prepare" /\ m.batchStart <= m.op
  BY <1>1
<1> HIDE DEF m, u
<1>6. /\ u.status = s.status /\ u.fault = s.fault /\ u.log = s.log /\ u.lastOp = s.lastOp
      /\ u.lastBatchEnd = s.lastOp /\ u.out = s.out \cup {m}
  BY <1>3 DEF Send, ReplicaState
<1>7. FineMessage(m, u)
  BY <1>5 DEF FineMessage
<1>8. ReadyStep(s, u)
  BY <1>4, <1>6, <1>7, SameReady
<1> QED BY <1>8 DEF u

\* A request newer than all of its client's in the log.
LEMMA ReadyPush ==
  ASSUME NEW s \in ReplicaState, Leader(s), Ready(s), NEW req \in Request,
         \A i \in 1 .. Len(s.log) : s.log[i].req.client = req.client => s.log[i].req.id < req.id,
         req.id <= s.clientTable[req.client].id
  PROVE  LET t == Push(s, [view |-> 0, req |-> req]) IN
         ReadyStep(s, t) /\ t.lastBatchEnd < t.lastOp
<1> DEFINE e == [view |-> 0, req |-> req]
           longer == Append(s.log, e)
           t == [s EXCEPT !.lastOp = @ + 1, !.log = Append(@, e)]
<1>1. /\ s.lastOp = Len(s.log) /\ s.lastOp \in Nat /\ s.lastBatchEnd \in Nat
      /\ s.lastBatchEnd <= s.lastOp /\ s.log \in Seq(Entry)
  BY FieldTypes DEF Leader, InStep, Ready
<1>2. Push(s, e) = t
  BY <1>1 DEF Push, MayAppend
<1>3. \A i \in 1 .. Len(s.log) : s.log[i].req # req
  <2> TAKE i \in 1 .. Len(s.log)
  <2>1. s.log[i].req.id \in Nat
    BY <1>1, EntryTypes DEF Found
  <2> QED BY <2>1
<1>4. LeaderStep(s, t)
  BY <1>2, <1>3, LeaderPush
<1>5. /\ t.status = s.status /\ t.fault = s.fault /\ t.log = longer /\ t.lastOp = s.lastOp + 1
      /\ t.lastBatchEnd = s.lastBatchEnd /\ t.out = s.out
  BY DEF ReplicaState
<1>6. e \in Entry /\ e.req = req
  BY DEF Entry
<1> HIDE DEF t, e
<1>7. /\ Len(longer) = Len(s.log) + 1 /\ longer[Len(s.log) + 1] = e
      /\ \A i \in 1 .. Len(s.log) : longer[i] = s.log[i]
  BY <1>1, <1>6
<1> HIDE DEF longer
<1>8. ASSUME NEW i \in 1 .. Len(longer), NEW j \in 1 .. Len(longer), i < j,
             longer[i].req.client = longer[j].req.client
      PROVE  longer[i].req.id < longer[j].req.id
  <2>1. i \in 1 .. Len(s.log) /\ longer[i] = s.log[i]
    BY <1>1, <1>7, <1>8
  <2>2. CASE j \in 1 .. Len(s.log)
    BY <1>7, <1>8, <2>1, <2>2 DEF Ready, Rising
  <2>3. CASE j = Len(s.log) + 1
    BY <1>6, <1>7, <1>8, <2>1, <2>3
  <2> QED BY <1>1, <1>7, <2>2, <2>3
<1>9. Rising(t.log)
  BY <1>5, <1>8 DEF Rising
<1>10. \A m \in t.out : FineMessage(m, t)
  BY <1>4, <1>5, FieldTypes, FineMessageLater DEF Ready, LeaderStep
<1>11. t.lastBatchEnd < t.lastOp
  BY <1>1, <1>5
<1>12. ReadyStep(s, t) /\ t.lastBatchEnd < t.lastOp
  BY <1>1, <1>4, <1>5, <1>9, <1>10, <1>11 DEF Ready, ReadyStep
<1> QED BY <1>2, <1>12 DEF e

\* A new request of a client.
LEMMA ReadyAcceptRequest ==
  ASSUME NEW s \in ReplicaState, Leader(s), Ready(s), NEW req \in Request,
         \A i \in 1 .. Len(s.log) : s.log[i].req.client = req.client => s.log[i].req.id < req.id,
         req.id = s.clientTable[req.client].id
  PROVE  ReadyStep(s, AcceptRequest(s, req))
<1> DEFINE row == [id |-> req.id, replied |-> TRUE, op |-> 0]
           table == [s.clientTable EXCEPT ![req.client] = row]
           t == [s EXCEPT !.clientTable = table]
           u == Push(s, [view |-> s.view, req |-> req])
           x == AcceptRequest(s, req)
<1>0. s.view = 0 /\ req.client \in Clients /\ req.id \in Nat
  BY DEF Leader, InStep, Request
<1>1. \A i \in 1 .. Len(s.log) : s.log[i].req # req
  <2> TAKE i \in 1 .. Len(s.log)
  <2>1. s.log[i].req.id \in Nat
    BY FieldTypes, EntryTypes DEF Found
  <2> QED BY <2>1
<1>2. LeaderStep(s, x)
  BY <1>1, LeaderAcceptRequest
<1>3. CASE req.client \in LeaderOnly
  <2> DEFINE a == Reply(req, 0)
             v == Send(t, a)
  <2>1. [s EXCEPT !.clientTable[req.client] = row] = t
    BY DEF ReplicaState
  <2>2. x = v
    BY <1>3, <2>1 DEF AcceptRequest
  <2>3. a.type = "reply"
    BY DEF Reply
  <2> HIDE DEF a, table
  <2>4. /\ v.status = s.status /\ v.fault = s.fault /\ v.log = s.log /\ v.lastOp = s.lastOp
        /\ v.lastBatchEnd = s.lastBatchEnd /\ v.out = s.out \cup {a}
    BY DEF Send, ReplicaState
  <2>5. FineMessage(a, v)
    BY <2>3 DEF FineMessage
  <2> HIDE DEF v, x
  <2>6. ReadyStep(s, x)
    BY <1>2, <2>2, <2>4, <2>5, SameReady
  <2> QED BY <2>6 DEF x
<1>4. CASE req.client \notin LeaderOnly
  <2>1. ReadyStep(s, u) /\ u.lastBatchEnd < u.lastOp
    BY <1>0, ReadyPush
  <2>2. x \in {u, CloseBatch(u)}
    BY <1>4 DEF AcceptRequest, Then
  <2> HIDE DEF u
  <2>3. ReadyStep(u, CloseBatch(u))
    BY <2>1, ReadyCloseBatch DEF ReadyStep, LeaderStep
  <2>4. ReadyStep(s, CloseBatch(u))
    BY <2>1, <2>3, ReadyTransitive DEF ReadyStep
  <2> QED BY <2>1, <2>2, <2>4
<1> QED BY <1>3, <1>4

\* HandleRequest: the number that UpdateClientTable is given is newer than the known one.
LEMMA ReadyHandleRequest ==
  ASSUME NEW s \in ReplicaState, Leader(s), Ready(s), NEW m \in RequestMsgs
  PROVE  ReadyStep(s, HandleRequest(s, m))
<1> DEFINE c == m.req.client
           known == s.clientTable[c]
           t == [s EXCEPT !.addresses = @ \cup {c}]
           row == [id |-> m.req.id, replied |-> FALSE, op |-> 0]
           u == [t EXCEPT !.clientTable[c] = row]
           a == Reply(m.req, known.op)
           x == HandleRequest(s, m)
<1>1. /\ m.req \in Request /\ c \in Clients /\ m.req.id \in Nat
      /\ known \in [id : Nat, replied : BOOLEAN, op : Nat]
  BY FieldTypes DEF RequestMsgs, Request
<1>2. /\ t \in ReplicaState /\ t.id = s.id /\ t.view = s.view /\ t.status = s.status
      /\ t.log = s.log /\ t.lastOp = s.lastOp /\ t.lastCommitted = s.lastCommitted
      /\ t.executed = s.executed /\ t.clientTable = s.clientTable /\ t.out = s.out
      /\ t.prepareOKs = s.prepareOKs /\ t.fault = s.fault /\ t.lastBatchEnd = s.lastBatchEnd
  BY <1>1 DEF ReplicaState
<1>3. LeaderStep(s, x)
  BY LeaderHandleRequest
<1>4. \/ x \in {s, t, Send(t, a)}
      \/ ~(m.req.id < known.id) /\ m.req.id # known.id
         /\ x = Then(UpdateClientTable(t, m.req), LAMBDA y : AcceptRequest(y, m.req))
  BY DEF HandleRequest
<1>5. a.type = "reply"
  BY DEF Reply
<1> HIDE DEF t, x, a
<1>6. CASE x \in {s, t, Send(t, a)}
  <2>1. /\ x.status = s.status /\ x.fault = s.fault /\ x.log = s.log /\ x.lastOp = s.lastOp
        /\ x.lastBatchEnd = s.lastBatchEnd /\ x.out \subseteq s.out \cup {a}
    BY <1>2, <1>6 DEF Send, ReplicaState
  <2>2. FineMessage(a, x)
    BY <1>5 DEF FineMessage
  <2> QED BY <1>3, <2>1, <2>2, SameReady DEF x
<1>7. CASE /\ ~(m.req.id < known.id) /\ m.req.id # known.id
           /\ x = Then(UpdateClientTable(t, m.req), LAMBDA y : AcceptRequest(y, m.req))
  <2>1. known.id < m.req.id /\ known.id \in Nat
    BY <1>1, <1>7
  <2>2. UpdateClientTable(t, m.req) = u
    BY <1>1, <1>2, <2>1 DEF UpdateClientTable
  <2>3. row \in [id : Nat, replied : BOOLEAN, op : Nat] /\ row.op = 0 /\ row.id = m.req.id
    BY <1>1
  <2>4. LeaderStays(t, u) /\ u.clientTable[c] = row
    <3>1. t.clientTable[c].id <= row.id
      BY <1>2, <2>1, <2>3
    <3>2. Leader(t)
      BY <1>2, SameLeader DEF LeaderStep
    <3> HIDE DEF row, c
    <3> QED BY <1>1, <1>2, <2>3, <3>1, <3>2, LeaderTable
  <2>5. /\ u.status = s.status /\ u.fault = s.fault /\ u.log = s.log /\ u.lastOp = s.lastOp
        /\ u.lastBatchEnd = s.lastBatchEnd /\ u.out = s.out
    <3> HIDE DEF row, c
    <3> QED BY <1>2 DEF ReplicaState
  <2> HIDE DEF u
  <2>6. LeaderStep(s, u) /\ u \in ReplicaState /\ Leader(u)
    <3>1. LeaderStep(s, t)
      BY <1>2, SameLeader
    <3> QED BY <2>4, <3>1, LeaderStepTransitive DEF LeaderStays, LeaderStep
  <2>7. ReadyStep(s, u)
    BY <2>5, <2>6, SameReady
  <2>8. x = AcceptRequest(u, m.req)
    BY <1>7, <2>2, <2>7 DEF Then, ReadyStep, Ready
  <2>9. ASSUME NEW i \in 1 .. Len(u.log), u.log[i].req.client = c
        PROVE  u.log[i].req.id < m.req.id
    <3>1. u.log[i].req.id <= known.id
      BY <2>5, <2>9 DEF Leader
    <3>2. u.log[i].req.id \in Nat
      BY <2>6, FieldTypes, EntryTypes DEF Found
    <3> QED BY <1>1, <2>1, <3>1, <3>2
  <2>10. ReadyStep(u, AcceptRequest(u, m.req))
    BY <1>1, <2>3, <2>4, <2>6, <2>7, <2>9, ReadyAcceptRequest DEF ReadyStep
  <2>11. ReadyStep(s, x)
    BY <2>6, <2>8, <2>10, ReadyTransitive
  <2> QED BY <2>11 DEF x
<1> QED BY <1>4, <1>6, <1>7 DEF x

\* CommitUpTo of the leader.
LEMMA ReadyCommitUpTo ==
  ASSUME NEW s \in ReplicaState, Leader(s), Ready(s), NEW upto \in Nat, upto <= Len(s.log)
  PROVE  ReadyStep(s, CommitUpTo(s, upto))
<1> DEFINE t == CommitUpTo(s, upto)
<1>1. Commits(s, t)
  BY CommitUpToCommits DEF Leader
<1>2. LeaderStep(s, t)
  BY LeaderCommitUpTo
<1>3. t.status = "normal" /\ t.fault = "none" /\ t.lastBatchEnd = s.lastBatchEnd
  BY CommitUpToIsSafe DEF Ready
<1> HIDE DEF t
<1>4. t.log = s.log /\ t.lastOp = s.lastOp
      /\ \A m \in t.out : m \in s.out \/ FineMessage(m, t)
  BY <1>1 DEF Commits, FineMessage
<1>5. ReadyStep(s, t)
  BY <1>2, <1>3, <1>4, SameReady DEF Ready
<1> QED BY <1>5 DEF t

\* The next batch is closed only when there is one.
LEMMA ReadyAfterQuorum ==
  ASSUME NEW s \in ReplicaState, Leader(s), Ready(s), NEW op \in Nat
  PROVE  ReadyStep(s, AfterQuorum(s, op))
<1> DEFINE t == SendCommit(s)
           u == [t EXCEPT !.batchComplete = TRUE]
<1>1. ReadyStep(s, t) /\ t \in ReplicaState /\ Leader(t)
  BY ReadySendCommit DEF ReadyStep, LeaderStep
<1>2. AfterQuorum(s, op) \in {t, u} \/ (u.lastOp > u.lastBatchEnd /\ AfterQuorum(s, op) = CloseBatch(u))
  BY DEF AfterQuorum
<1> HIDE DEF t
<1>3. /\ u \in ReplicaState /\ u.id = t.id /\ u.view = t.view /\ u.status = t.status
      /\ u.log = t.log /\ u.lastOp = t.lastOp /\ u.lastCommitted = t.lastCommitted
      /\ u.executed = t.executed /\ u.clientTable = t.clientTable /\ u.out = t.out
      /\ u.fault = t.fault /\ u.lastBatchEnd = t.lastBatchEnd
  BY <1>1 DEF ReplicaState
<1> HIDE DEF u
<1>4. LeaderStep(t, u)
  BY <1>1, <1>3, SameLeader
<1>5. ReadyStep(t, u) /\ Leader(u) /\ Ready(u)
  BY <1>1, <1>3, <1>4, SameReady DEF ReadyStep, LeaderStep
<1>6. ReadyStep(s, u)
  BY <1>1, <1>5, ReadyTransitive DEF ReadyStep
<1>7. CASE u.lastOp > u.lastBatchEnd /\ AfterQuorum(s, op) = CloseBatch(u)
  <2>1. u.lastBatchEnd < u.lastOp
    BY <1>3, <1>7, FieldTypes
  <2>2. ReadyStep(u, CloseBatch(u))
    BY <1>3, <1>5, <2>1, ReadyCloseBatch
  <2> QED BY <1>6, <1>7, <2>2, ReadyTransitive DEF ReadyStep
<1> QED BY <1>1, <1>2, <1>6, <1>7

\* HandlePrepareOK of the leader: it executes only what it has logged.
LEMMA ReadyHandlePrepareOK ==
  ASSUME NEW s \in ReplicaState, Leader(s), Ready(s), NEW m \in PrepareOKMsgs, m.view = 0,
         m.op \in 1 .. MaxOp, m.op <= Len(s.log)
  PROVE  ReadyStep(s, HandlePrepareOK(s, m))
<1> DEFINE oks == [s.prepareOKs EXCEPT ![m.op] = @ \cup {m.from}]
           t == [s EXCEPT !.prepareOKs = oks]
           u == CommitUpTo(t, m.op)
           x == HandlePrepareOK(s, m)
<1>1. m.op \in Nat /\ m.from \in ReplicaIds /\ s.view = 0 /\ AmLeader(s)
  BY FirstLeader DEF PrepareOKMsgs, Leader, InStep
<1>2. oks \in [1 .. MaxOp -> Ids] /\ [s EXCEPT !.prepareOKs[m.op] = @ \cup {m.from}] = t
  <2>1. oks \in [1 .. MaxOp -> Ids]
    BY <1>1, FieldTypes DEF Ids
  <2> QED BY <2>1 DEF ReplicaState
<1>3. /\ t \in ReplicaState /\ t.id = s.id /\ t.view = s.view /\ t.status = s.status
      /\ t.log = s.log /\ t.lastOp = s.lastOp /\ t.lastCommitted = s.lastCommitted
      /\ t.executed = s.executed /\ t.clientTable = s.clientTable /\ t.out = s.out
      /\ t.fault = s.fault /\ t.lastBatchEnd = s.lastBatchEnd
  <2> HIDE DEF oks
  <2> QED BY <1>2 DEF ReplicaState
<1>4. x \in {s, t, u, AfterQuorum(u, m.op)}
  BY <1>1, <1>2, <1>3 DEF HandlePrepareOK, Then
<1> HIDE DEF t, x, oks
<1>5. LeaderStep(s, t)
  BY <1>3, SameLeader
<1>6. ReadyStep(s, t) /\ Leader(t) /\ Ready(t)
  BY <1>3, <1>5, SameReady DEF ReadyStep, LeaderStep
<1>7. ReadyStep(t, u)
  BY <1>1, <1>3, <1>6, ReadyCommitUpTo
<1> HIDE DEF u
<1>8. ReadyStep(u, AfterQuorum(u, m.op))
  BY <1>1, <1>7, ReadyAfterQuorum DEF ReadyStep, LeaderStep
<1>9. ReadyStep(s, u)
  BY <1>5, <1>7, ReadyTransitive
<1>10. ReadyStep(s, AfterQuorum(u, m.op))
  BY <1>8, <1>9, ReadyTransitive DEF ReadyStep
<1>11. ReadyStep(s, x)
  BY <1>4, <1>6, <1>9, <1>10, ReadyItself
<1> QED BY <1>11 DEF x

\* The leader answers with everything after what the other has executed.
LEMMA ReadyHandleRequestStateTransfer ==
  ASSUME NEW s \in ReplicaState, Leader(s), Ready(s),
         NEW m \in TransferRequests, m.view = 0, m.from # 0,
         rep[m.from].lastCommitted \in Nat, m.op <= rep[m.from].lastCommitted
  PROVE  ReadyStep(s, HandleRequestStateTransfer(s, m))
<1> DEFINE dump == Dump(s.log, m.op + 1)
           a == [type |-> "stateTransfer", to |-> {m.from}, view |-> s.view,
                 op |-> s.lastCommitted, dump |-> dump]
           t == HandleRequestStateTransfer(s, m)
<1>1. /\ m.op \in Nat /\ s.view = 0 /\ s.lastCommitted \in Nat /\ s.lastCommitted <= Len(s.log)
      /\ s.status = "normal"
  BY FieldTypes DEF TransferRequests, Leader, InStep, Ready
<1>2. dump.first = m.op + 1 /\ s.lastCommitted < dump.first + Len(dump.entries)
  BY <1>1, FieldTypes, DumpCovers
<1>3. t = Send(s, a)
  BY <1>1 DEF HandleRequestStateTransfer
<1>4. LeaderStep(s, t)
  BY LeaderHandleRequestStateTransfer DEF LeaderStays
<1> HIDE DEF dump, t
<1>5. FineMessage(a, t)
  <2>1. m.op + 1 <= rep[m.from].lastCommitted + 1
    BY <1>1
  <2> QED BY <1>2, <2>1 DEF FineMessage, Covers, Wanted
<1> HIDE DEF a
<1>6. /\ t.status = s.status /\ t.fault = s.fault /\ t.log = s.log /\ t.lastOp = s.lastOp
      /\ t.lastBatchEnd = s.lastBatchEnd /\ t.out = s.out \cup {a}
  BY <1>3 DEF Send, ReplicaState
<1>7. ReadyStep(s, t)
  BY <1>4, <1>5, <1>6, SameReady
<1> QED BY <1>7 DEF t

\* What the receivers assert of a message in the network.
Harmless(m) == FineMessage(m, rep[m.from])

\* What has to be known, besides FirstViewInv, for no ASSERT to fail.
FaultInv ==
    /\ \A r \in ReplicaIds : rep[r].fault = "none"
    /\ \A r \in Backups : \A c \in Clients :
          Known(c, rep[r].clientTable[c].id, rep[0].log, rep[r].lastOp)
    /\ \A r \in Backups : \A i \in 1 .. Len(rep[r].pendingPrepares) :
          rep[r].pendingPrepares[i].batchStart <= rep[r].pendingPrepares[i].op
    /\ rep[0].lastBatchEnd <= rep[0].lastOp /\ Rising(rep[0].log)
    /\ \A m \in msgs : Harmless(m)

\* A backup that runs has moved, or the leader has, and no ASSERT has failed.
BackupRuns(r) == \E t : SoundStep(rep[r], t, rep[0].log) /\ Step(r, t)
LeaderRuns == \E t : ReadyStep(rep[0], t) /\ Step(0, t)

\* The records of the replicas that run.
LEMMA FaultRecords ==
  ASSUME TypeOK, FirstViewInv, FaultInv
  PROVE  /\ \A r \in Backups : Running(r) => Sound(rep[r], rep[0].log)
         /\ Running(0) => Ready(rep[0])
<1>1. \A r \in Backups : r \in ReplicaIds /\ rep[r].out = {} /\ Backup(rep[r], rep[0].log)
  BY FirstViewRecords DEF TypeOK
<1>2. \A r \in Backups : Running(r) => rep[r].status = "normal"
  BY <1>1 DEF Backup, InStep, Running
<1>3. \A r \in Backups : Running(r) => Sound(rep[r], rep[0].log)
  BY <1>1, <1>2 DEF FaultInv, Sound, Fine
<1>4. rep[0].out = {} /\ (Running(0) => rep[0].status = "normal")
  BY FirstViewRecords DEF Leader, InStep, Running, TypeOK
<1>5. rep[0].fault = "none"
  BY FirstViewRecords DEF FaultInv
<1> QED BY <1>3, <1>4, <1>5 DEF FaultInv, Ready

\* Every handler and timer of a backup is such a step.
LEMMA BackupHandlersRun ==
  ASSUME TypeOK, FirstViewInv, FaultInv, NEW r \in Backups
  PROVE  /\ ReceiveRequest(r) => BackupRuns(r)
         /\ ReceivePrepare(r) => BackupRuns(r)
         /\ ReceivePrepareOK(r) => BackupRuns(r)
         /\ ReceiveCommit(r) => BackupRuns(r)
         /\ ReceiveRequestStateTransfer(r) => BackupRuns(r)
         /\ ReceiveStateTransfer(r) => BackupRuns(r)
         /\ StateTransferTimeout(r) => BackupRuns(r)
<1> DEFINE s == rep[r]
           log == rep[0].log
<1>1. /\ s \in ReplicaState /\ ~AmLeader(s) /\ LeaderLog(log) /\ Rising(log) /\ s.view = 0
      /\ r \in ReplicaIds
      /\ Running(r) => Sound(s, log)
  BY FirstViewRecords, FaultRecords DEF Backup, InStep, FaultInv
<1>2. \A type : \A m \in Inbox(r, type) :
        m \in msgs /\ m \in Message /\ m.type = type /\ r \in m.to /\ Running(r) /\ Harmless(m)
  BY DEF Inbox, TypeOK, FaultInv
<1>3. Running(r) => SoundStep(s, s, log)
  BY <1>1, SoundItself
<1>4. ReceiveRequest(r) => BackupRuns(r)
  <2>1. \A m : HandleRequest(s, m) = s
    BY <1>1 DEF HandleRequest
  <2> QED BY <1>2, <1>3, <2>1 DEF ReceiveRequest, BackupRuns
<1>5. ReceivePrepare(r) => BackupRuns(r)
  <2>1. \A m \in Inbox(r, "prepare") : SoundStep(s, HandlePrepare(s, m), log)
    <3> TAKE m \in Inbox(r, "prepare")
    <3>1. m \in PrepareMsgs /\ SoundPrepare(m, log) /\ m.batchStart <= m.op
      BY <1>2, MessageKinds, FirstViewMessages DEF Harmless, FineMessage
    <3> QED BY <1>1, <1>2, <3>1, SoundHandlePrepare
  <2> QED BY <2>1 DEF ReceivePrepare, BackupRuns
<1>6. ReceivePrepareOK(r) => BackupRuns(r)
  <2>1. \A m \in Inbox(r, "prepareOK") : HandlePrepareOK(s, m) = s
    <3> TAKE m \in Inbox(r, "prepareOK")
    <3>1. m.view = 0
      BY <1>2, FirstViewMessages
    <3> QED BY <1>1, <3>1 DEF HandlePrepareOK
  <2> QED BY <1>2, <1>3, <2>1 DEF ReceivePrepareOK, BackupRuns
<1>7. ReceiveCommit(r) => BackupRuns(r)
  <2>1. \A m \in Inbox(r, "commit") : SoundStep(s, HandleCommit(s, m), log)
    <3> TAKE m \in Inbox(r, "commit")
    <3>1. m \in CommitMsgs /\ m.view = 0
      BY <1>2, MessageKinds, FirstViewMessages
    <3> QED BY <1>1, <1>2, <3>1, SoundHandleCommit
  <2> QED BY <2>1 DEF ReceiveCommit, BackupRuns
<1>8. ReceiveRequestStateTransfer(r) => BackupRuns(r)
  <2>1. \A m \in Inbox(r, "requestStateTransfer") :
            SoundStep(s, HandleRequestStateTransfer(s, m), log)
    <3> TAKE m \in Inbox(r, "requestStateTransfer")
    <3>1. m \in TransferRequests /\ m.view = 0 /\ m.from # 0 /\ m.from \in ReplicaIds
          /\ m.op <= rep[m.from].lastCommitted
      BY <1>2, MessageKinds, FirstViewMessages DEF Harmless, FineMessage, TransferRequests
    <3>2. rep[m.from].lastCommitted \in Nat
      BY <3>1, FieldTypes DEF TypeOK
    <3> QED BY <1>1, <1>2, <3>1, <3>2, SoundHandleRequestStateTransfer
  <2> QED BY <2>1 DEF ReceiveRequestStateTransfer, BackupRuns
<1>9. ReceiveStateTransfer(r) => BackupRuns(r)
  <2>1. \A m \in Inbox(r, "stateTransfer") : SoundStep(s, HandleStateTransfer(s, m), log)
    <3> TAKE m \in Inbox(r, "stateTransfer")
    <3>1. m \in Transfers /\ SoundTransfer(m, log) /\ Covers(m)
          /\ m.dump.first <= s.lastCommitted + 1
      BY <1>2, MessageKinds, FirstViewMessages DEF Harmless, FineMessage, Wanted
    <3> QED BY <1>1, <1>2, <3>1, SoundHandleStateTransfer
  <2> QED BY <2>1 DEF ReceiveStateTransfer, BackupRuns
<1>10. StateTransferTimeout(r) => BackupRuns(r)
  <2> DEFINE t == [s EXCEPT !.lastRequest = [view |-> 0, op |-> 0]]
  <2>1. /\ t \in ReplicaState /\ t.id = s.id /\ t.view = s.view /\ t.status = s.status
        /\ t.log = s.log /\ t.lastOp = s.lastOp /\ t.lastCommitted = s.lastCommitted
        /\ t.executed = s.executed /\ t.addresses = s.addresses
        /\ t.pendingPrepares = s.pendingPrepares /\ t.out = s.out
        /\ t.fault = s.fault /\ t.clientTable = s.clientTable
    BY <1>1 DEF ReplicaState
  <2>2. StateTransferTimeout(r) => Running(r) /\ Step(r, t)
    BY DEF StateTransferTimeout
  <2> HIDE DEF t
  <2>3. ASSUME Running(r) PROVE SoundStep(s, t, log)
    <3>1. Backup(s, log) /\ Fine(s, log, s.lastOp)
      BY <1>1, <2>3 DEF Sound
    <3>2. \A i \in 1 .. Len(t.pendingPrepares) : SoundPrepare(t.pendingPrepares[i], log)
      BY <2>1, <3>1 DEF Backup
    <3>3. BackupStep(s, t, log)
      BY <1>1, <2>1, <3>1, <3>2, SameBackup
    <3>4. FineStep(s, t, log, s.lastOp)
      BY <1>1, <2>1, <3>1, <3>3, SameFine DEF Fine
    <3> QED BY <1>1, <3>1, <3>4, FineIsSound
  <2> QED BY <2>2, <2>3 DEF BackupRuns
<1> QED BY <1>4, <1>5, <1>6, <1>7, <1>8, <1>9, <1>10

\* Every handler and timer of the leader is one.
LEMMA LeaderHandlersRun ==
  ASSUME TypeOK, FirstViewInv, FaultInv
  PROVE  /\ ReceiveRequest(0) => LeaderRuns
         /\ ReceivePrepareOK(0) => LeaderRuns
         /\ ReceiveRequestStateTransfer(0) => LeaderRuns
         /\ NullCommitTimeout(0) => LeaderRuns
         /\ CloseBatchTimeout(0) => LeaderRuns
         /\ StateTransferTimeout(0) => LeaderRuns
<1> DEFINE s == rep[0]
<1>1. /\ s \in ReplicaState /\ Leader(s) /\ Len(s.log) \in Nat /\ Len(s.log) <= MaxOp
      /\ MaxOp \in Nat /\ s.lastOp \in Nat /\ s.lastBatchEnd \in Nat
      /\ Running(0) => Ready(s)
  BY FirstViewRecords, FaultRecords, FieldTypes, BoundAssumption DEF FirstViewInv
<1>2. \A type : \A m \in Inbox(0, type) :
        m \in msgs /\ m \in Message /\ m.type = type /\ Running(0) /\ Harmless(m)
  BY DEF Inbox, TypeOK, FaultInv
<1>3. ReceiveRequest(0) => LeaderRuns
  <2>1. \A m \in Inbox(0, "request") : ReadyStep(s, HandleRequest(s, m))
    <3> TAKE m \in Inbox(0, "request")
    <3>1. m \in RequestMsgs
      BY <1>2, MessageKinds
    <3> QED BY <1>1, <1>2, <3>1, ReadyHandleRequest
  <2> QED BY <2>1 DEF ReceiveRequest, LeaderRuns
<1>4. ReceivePrepareOK(0) => LeaderRuns
  <2>1. \A m \in Inbox(0, "prepareOK") : ReadyStep(s, HandlePrepareOK(s, m))
    <3> TAKE m \in Inbox(0, "prepareOK")
    <3>1. /\ m \in PrepareOKMsgs /\ m.view = 0 /\ m.from \in Backups
          /\ m.op \in 1 .. Len(rep[m.from].log) /\ m.op \in Nat
      BY <1>2, MessageKinds, FirstViewMessages DEF PrepareOKMsgs
    <3>2. Len(rep[m.from].log) <= Len(s.log) /\ Len(rep[m.from].log) \in Nat
      BY <3>1, FirstViewRecords, FieldTypes DEF Backup, Grows
    <3>3. m.op <= Len(s.log) /\ m.op \in 1 .. MaxOp
      BY <1>1, <3>1, <3>2
    <3> QED BY <1>1, <1>2, <3>1, <3>3, ReadyHandlePrepareOK
  <2> QED BY <2>1 DEF ReceivePrepareOK, LeaderRuns
<1>5. ReceiveRequestStateTransfer(0) => LeaderRuns
  <2>1. \A m \in Inbox(0, "requestStateTransfer") :
            ReadyStep(s, HandleRequestStateTransfer(s, m))
    <3> TAKE m \in Inbox(0, "requestStateTransfer")
    <3>1. m \in TransferRequests /\ m.view = 0 /\ m.from # 0 /\ m.from \in ReplicaIds
          /\ m.op <= rep[m.from].lastCommitted
      BY <1>2, MessageKinds, FirstViewMessages DEF Harmless, FineMessage, TransferRequests
    <3>2. rep[m.from].lastCommitted \in Nat
      BY <3>1, FieldTypes DEF TypeOK
    <3> QED BY <1>1, <1>2, <3>1, <3>2, ReadyHandleRequestStateTransfer
  <2> QED BY <2>1 DEF ReceiveRequestStateTransfer, LeaderRuns
<1>6. s.status = "normal" => Ready(s)
  BY <1>1 DEF Running
<1>7. NullCommitTimeout(0) => LeaderRuns
  BY <1>1, <1>6, ReadySendCommit DEF NullCommitTimeout, LeaderRuns
<1>8. CloseBatchTimeout(0) => LeaderRuns
  <2>1. CloseBatchTimeout(0) => s.status = "normal" /\ s.lastOp > s.lastBatchEnd
                                /\ Step(0, CloseBatch(s))
    BY DEF CloseBatchTimeout
  <2>2. ASSUME s.status = "normal", s.lastOp > s.lastBatchEnd
        PROVE  ReadyStep(s, CloseBatch(s))
    <3>1. s.lastBatchEnd < s.lastOp
      BY <1>1, <2>2
    <3> QED BY <1>1, <1>6, <2>2, <3>1, ReadyCloseBatch
  <2> QED BY <2>1, <2>2 DEF LeaderRuns
<1>9. StateTransferTimeout(0) => LeaderRuns
  <2> DEFINE t == [s EXCEPT !.lastRequest = [view |-> 0, op |-> 0]]
  <2>1. /\ t \in ReplicaState /\ t.id = s.id /\ t.view = s.view /\ t.status = s.status
        /\ t.log = s.log /\ t.lastOp = s.lastOp /\ t.lastCommitted = s.lastCommitted
        /\ t.executed = s.executed /\ t.clientTable = s.clientTable /\ t.out = s.out
        /\ t.fault = s.fault /\ t.lastBatchEnd = s.lastBatchEnd
    BY <1>1 DEF ReplicaState
  <2>2. StateTransferTimeout(0) => Running(0) /\ Step(0, t)
    BY DEF StateTransferTimeout
  <2> HIDE DEF t
  <2>3. LeaderStep(s, t)
    BY <1>1, <2>1, SameLeader
  <2>4. Running(0) => ReadyStep(s, t)
    BY <1>1, <2>1, <2>3, SameReady
  <2> QED BY <2>2, <2>4 DEF LeaderRuns
<1> QED BY <1>3, <1>4, <1>5, <1>7, <1>8, <1>9

\* A message stays harmless when nobody takes back what it has executed.
LEMMA HarmlessLater ==
  ASSUME TypeOK, rep' \in [ReplicaIds -> ReplicaState],
         \A q \in ReplicaIds : rep[q].lastCommitted <= rep'[q].lastCommitted,
         NEW m \in Message, NEW s, FineMessage(m, s),
         m.type = "requestStateTransfer" => s.lastCommitted <= rep'[m.from].lastCommitted
                                            /\ s.lastCommitted \in Nat
  PROVE  Harmless(m)'
<1>1. \A q \in ReplicaIds : rep[q].lastCommitted \in Nat /\ rep'[q].lastCommitted \in Nat
  BY FieldTypes DEF TypeOK
<1>2. ASSUME m.type = "requestStateTransfer" PROVE m.op <= rep'[m.from].lastCommitted
  <2>1. m.op \in Nat /\ m.from \in ReplicaIds /\ m.op <= s.lastCommitted
    BY <1>2, MessageKinds DEF TransferRequests, FineMessage
  <2> QED BY <1>1, <1>2, <2>1
<1>3. ASSUME m.type = "stateTransfer"
      PROVE  Covers(m) /\ \A q \in m.to : m.dump.first <= rep'[q].lastCommitted + 1
  <2>1. m.to \subseteq ReplicaIds /\ m.dump.first \in Nat
    BY <1>3, MessageKinds DEF Transfers, DumpOf, Ids
  <2>2. Covers(m) /\ \A q \in m.to : m.dump.first <= rep[q].lastCommitted + 1
    BY <1>3 DEF FineMessage, Wanted
  <2> QED BY <1>1, <2>1, <2>2
<1>4. m.type = "prepare" => m.batchStart <= m.op
  BY DEF FineMessage
<1> QED BY <1>2, <1>3, <1>4 DEF Harmless, FineMessage, Covers, Wanted

\* Of all messages that were in the network before.
LEMMA HarmlessStays ==
  ASSUME TypeOK, FaultInv, rep' \in [ReplicaIds -> ReplicaState],
         \A q \in ReplicaIds : rep[q].lastCommitted <= rep'[q].lastCommitted, NEW m \in msgs
  PROVE  Harmless(m)'
<1>1. m \in Message /\ FineMessage(m, rep[m.from])
  BY DEF TypeOK, FaultInv, Harmless
<1>2. m.type = "requestStateTransfer" => m.from \in ReplicaIds
  BY <1>1, MessageKinds DEF TransferRequests
<1>3. m.type = "requestStateTransfer" =>
        rep[m.from].lastCommitted <= rep'[m.from].lastCommitted
        /\ rep[m.from].lastCommitted \in Nat
  BY <1>2, FieldTypes DEF TypeOK
<1> QED BY <1>1, <1>3, HarmlessLater

\* A step of a backup that runs.
LEMMA BackupRunsKeeps ==
  ASSUME TypeOK, FirstViewInv, FaultInv, NEW r \in Backups, BackupRuns(r)
  PROVE  FaultInv'
<1> DEFINE s == rep[r]
           log == rep[0].log
<1>1. r \in ReplicaIds /\ r # 0 /\ 0 \in ReplicaIds /\ s \in ReplicaState /\ s.id = r
  BY FirstViewRecords DEF TypeOK
<1>2. PICK t : SoundStep(s, t, log) /\ Step(r, t)
  BY DEF BackupRuns
<1>3. /\ t \in ReplicaState /\ t.id = r /\ Backup(t, log) /\ Fine(t, log, t.lastOp)
      /\ s.lastCommitted <= t.lastCommitted
  BY <1>1, <1>2 DEF SoundStep, FineStep, BackupStep
<1>4. /\ rep' \in [ReplicaIds -> ReplicaState] /\ \A q \in ReplicaIds \ {r} : rep'[q] = rep[q]
      /\ rep'[r] = [t EXCEPT !.out = {}]
      /\ msgs' = msgs \cup {m \in t.out : m.type \notin Lost}
      /\ msgs' \subseteq Message
  BY <1>1, <1>2, <1>3, StepIs
<1> DEFINE u == rep'[r]
<1>5. /\ u.fault = t.fault /\ u.clientTable = t.clientTable /\ u.lastOp = t.lastOp
      /\ u.pendingPrepares = t.pendingPrepares /\ u.lastCommitted = t.lastCommitted
  BY <1>3, <1>4 DEF ReplicaState
<1>6. rep'[0] = rep[0] /\ \A q \in Backups : q \in ReplicaIds
  BY <1>1, <1>4 DEF Backups
<1> HIDE DEF u
<1>7. \A q \in ReplicaIds : rep'[q].fault = "none"
  BY <1>3, <1>4, <1>5 DEF FaultInv, Fine, u
<1>8. \A q \in Backups : \A c \in Clients :
        Known(c, rep'[q].clientTable[c].id, log, rep'[q].lastOp)
  BY <1>3, <1>4, <1>5, <1>6 DEF FaultInv, Fine, u
<1>9. \A q \in Backups : \A i \in 1 .. Len(rep'[q].pendingPrepares) :
        rep'[q].pendingPrepares[i].batchStart <= rep'[q].pendingPrepares[i].op
  BY <1>3, <1>4, <1>5, <1>6 DEF FaultInv, Fine, u
<1>10. \A q \in ReplicaIds : rep[q].lastCommitted <= rep'[q].lastCommitted
  <2>1. \A q \in ReplicaIds : rep[q].lastCommitted \in Nat
    BY FieldTypes DEF TypeOK
  <2>2. rep[r].lastCommitted <= rep'[r].lastCommitted
    BY <1>3, <1>5 DEF u
  <2>3. \A q \in ReplicaIds \ {r} : rep[q].lastCommitted <= rep'[q].lastCommitted
    BY <1>4, <2>1
  <2> QED BY <2>2, <2>3
<1>11. ASSUME NEW m \in msgs' PROVE Harmless(m)'
  <2>1. CASE m \in msgs
    BY <1>4, <1>10, <2>1, HarmlessStays
  <2>2. CASE m \in t.out
    <3>1. FineMessage(m, t) /\ BackupMessage(m, t, log) /\ m \in Message
      BY <1>3, <1>4, <2>2 DEF Fine, Backup
    <3>2. m.type = "requestStateTransfer" => m.from = r
      BY <1>3, <3>1 DEF BackupMessage
    <3>3. t.lastCommitted \in Nat /\ t.lastCommitted <= rep'[r].lastCommitted
      BY <1>3, <1>5, FieldTypes DEF u
    <3> QED BY <1>4, <1>10, <3>1, <3>2, <3>3, HarmlessLater
  <2> QED BY <1>4, <2>1, <2>2
<1> QED BY <1>6, <1>7, <1>8, <1>9, <1>11 DEF FaultInv

\* A step of the leader that runs: its log still has what the backups know.
LEMMA LeaderRunsKeeps ==
  ASSUME TypeOK, FirstViewInv, FaultInv, LeaderRuns
  PROVE  FaultInv'
<1> DEFINE s == rep[0]
<1>1. 0 \in ReplicaIds /\ s \in ReplicaState /\ s.id = 0
  BY FirstViewRecords DEF TypeOK
<1>2. PICK t : ReadyStep(s, t) /\ Step(0, t)
  BY DEF LeaderRuns
<1>3. /\ t \in ReplicaState /\ t.id = 0 /\ Leader(t) /\ Ready(t) /\ Grows(s.log, t.log)
      /\ s.lastCommitted <= t.lastCommitted
  BY <1>2 DEF ReadyStep, LeaderStep, Leader
<1>4. /\ rep' \in [ReplicaIds -> ReplicaState] /\ \A q \in ReplicaIds \ {0} : rep'[q] = rep[q]
      /\ rep'[0] = [t EXCEPT !.out = {}]
      /\ msgs' = msgs \cup {m \in t.out : m.type \notin Lost}
      /\ msgs' \subseteq Message
  BY <1>1, <1>2, <1>3, StepIs
<1> DEFINE u == rep'[0]
<1>5. /\ u.fault = t.fault /\ u.log = t.log /\ u.lastOp = t.lastOp
      /\ u.lastBatchEnd = t.lastBatchEnd /\ u.lastCommitted = t.lastCommitted
  BY <1>3, <1>4 DEF ReplicaState
<1>6. \A q \in Backups : q \in ReplicaIds /\ rep'[q] = rep[q]
  BY <1>4 DEF Backups
<1> HIDE DEF u, s
<1>7. \A q \in ReplicaIds : rep'[q].fault = "none"
  BY <1>3, <1>4, <1>5 DEF FaultInv, Ready, u
<1>8. ASSUME NEW c, NEW id, NEW n, Known(c, id, s.log, n) PROVE Known(c, id, u.log, n)
  <2>1. Len(s.log) \in Nat /\ Len(u.log) \in Nat /\ Len(s.log) <= Len(u.log)
        /\ \A i \in 1 .. Len(s.log) : u.log[i] = s.log[i]
    BY <1>1, <1>3, <1>5, FieldTypes DEF Grows
  <2>2. \A i \in 1 .. n : i <= Len(s.log) => i \in 1 .. Len(s.log) /\ i <= Len(u.log)
    BY <2>1
  <2> QED BY <1>8, <2>1, <2>2 DEF Known
<1>9. \A q \in Backups : \A c \in Clients :
        Known(c, rep'[q].clientTable[c].id, u.log, rep'[q].lastOp)
  BY <1>6, <1>8 DEF FaultInv, s
<1>10. \A q \in Backups : \A i \in 1 .. Len(rep'[q].pendingPrepares) :
        rep'[q].pendingPrepares[i].batchStart <= rep'[q].pendingPrepares[i].op
  BY <1>6 DEF FaultInv
<1>11. \A q \in ReplicaIds : rep[q].lastCommitted <= rep'[q].lastCommitted
  <2>1. \A q \in ReplicaIds : rep[q].lastCommitted \in Nat
    BY FieldTypes DEF TypeOK
  <2>2. rep[0].lastCommitted <= rep'[0].lastCommitted
    BY <1>3, <1>5 DEF u, s
  <2>3. \A q \in ReplicaIds \ {0} : rep[q].lastCommitted <= rep'[q].lastCommitted
    BY <1>4, <2>1
  <2> QED BY <2>2, <2>3
<1>12. ASSUME NEW m \in msgs' PROVE Harmless(m)'
  <2>1. CASE m \in msgs
    BY <1>4, <1>11, <2>1, HarmlessStays
  <2>2. CASE m \in t.out
    <3>1. FineMessage(m, t) /\ LeaderMessage(m, t) /\ m \in Message
      BY <1>3, <1>4, <2>2 DEF Ready, Leader
    <3>2. m.type # "requestStateTransfer"
      BY <3>1 DEF LeaderMessage
    <3> QED BY <1>4, <1>11, <3>1, <3>2, HarmlessLater
  <2> QED BY <1>4, <2>1, <2>2
<1>13. rep'[0].lastBatchEnd <= rep'[0].lastOp /\ Rising(rep'[0].log)
  BY <1>3, <1>5 DEF Ready, u
<1> QED BY <1>7, <1>9, <1>10, <1>12, <1>13 DEF FaultInv, u

\* As long as the run is in the first view, no ASSERT has failed and none is going to.
FaultIInv == IInv /\ (FirstView => FaultInv)

\* The client tables and logs are empty at first.
LEMMA FaultInit ==
  ASSUME Init
  PROVE  FaultInv
<1> DEFINE table == [c \in Clients |-> [id |-> 0, replied |-> FALSE, op |-> 0]]
           status(r) == IF r \in Down THEN "crashed" ELSE "normal"
<1>1. \A c \in Clients : table[c].id = 0
  OBVIOUS
<1> HIDE DEF table
<1>2. ASSUME NEW r, NEW st, NEW s, s = Fresh(r, st, 0)
      PROVE  /\ s.fault = "none" /\ s.log = << >> /\ s.lastOp = 0 /\ s.lastBatchEnd = 0
             /\ s.pendingPrepares = << >> /\ s.clientTable = table
  BY <1>2 DEF Fresh, table
<1>3. \A r \in ReplicaIds : rep[r] = Fresh(r, status(r), 0)
  BY DEF Init
<1> HIDE DEF status
<1>4. \A r \in ReplicaIds :
        /\ rep[r].fault = "none" /\ rep[r].log = << >> /\ rep[r].lastOp = 0
        /\ rep[r].lastBatchEnd = 0 /\ rep[r].pendingPrepares = << >>
        /\ rep[r].clientTable = table
  BY <1>2, <1>3
<1>5. 0 \in ReplicaIds /\ \A r \in Backups : r \in ReplicaIds
  BY SizeAssumption DEF ReplicaIds, Backups
<1>6. msgs = {}
  BY DEF Init
<1>7. \A r \in Backups : Len(rep[r].pendingPrepares) = 0
  BY <1>4, <1>5
<1>8. Rising(rep[0].log)
  BY <1>4, <1>5 DEF Rising
<1>9. \A r \in Backups : \A c \in Clients :
        Known(c, rep[r].clientTable[c].id, rep[0].log, rep[r].lastOp)
  BY <1>1, <1>4, <1>5 DEF Known
<1> QED BY <1>4, <1>5, <1>6, <1>7, <1>8, <1>9 DEF FaultInv

\* FaultIInv is inductive.
LEMMA FaultNext ==
  ASSUME FaultIInv, [Next]_vars
  PROVE  FaultIInv'
<1>1. IInv'
  BY FirstViewNext DEF FaultIInv
<1>2. ASSUME FirstView', Next PROVE FaultInv'
  <2>1. TypeOK /\ RecoversFromZero /\ FirstViewInv /\ FaultInv
    BY <1>2, FirstViewBefore DEF FaultIInv, IInv
  <2>2. \/ \E r \in Backups : Acts(r)
        \/ Acts(0)
        \/ \E c \in Clients : Invoke(c) \/ HandleReply(c)
    BY <1>2, <2>1, FirstViewActs
  <2>3. ASSUME NEW r \in Backups, Acts(r) PROVE FaultInv'
    BY <2>1, <2>3, BackupHandlersMove, BackupHandlersRun, BackupRunsKeeps DEF Acts
  <2>4. ASSUME Acts(0) PROVE FaultInv'
    BY <2>1, <2>4, LeaderHandlersMove, LeaderHandlersRun, LeaderRunsKeeps DEF Acts
  <2>5. ASSUME NEW c \in Clients, Invoke(c) \/ HandleReply(c) PROVE FaultInv'
    <3>1. rep' = rep /\ \A m \in msgs' : m \in msgs \/ m.type = "request"
      BY <2>5 DEF Invoke, HandleReply
    <3>2. \A m \in msgs' : FineMessage(m, rep[m.from])
      BY <2>1, <3>1 DEF FaultInv, Harmless, FineMessage
    <3> QED BY <2>1, <3>1, <3>2 DEF FaultInv, Harmless, FineMessage, Wanted
  <2> QED BY <2>2, <2>3, <2>4, <2>5
<1>3. ASSUME FirstView', UNCHANGED vars PROVE FaultInv'
  <2>1. FirstView /\ rep' = rep /\ msgs' = msgs
    BY <1>3 DEF FirstView, vars
  <2> QED BY <2>1 DEF FaultIInv, FaultInv, Harmless, FineMessage, Wanted
<1> QED BY <1>1, <1>2, <1>3 DEF FaultIInv

\* NoFault: until a replica leaves view 0 or restarts, no ASSERT, RPanic or null
\* dereference of the replica is reached, whatever is lost, repeated or reordered:
\* UpdateClientTable is never given an older request than the one it knows,
\* CloseBatch never has an empty batch, a PREPARE always has the shape it claims, and a
\* state transfer has neither gap nor conflict and reaches what it says is committed.
THEOREM NoFaultInFirstView == Spec => [](FirstView => NoFault)
<1>1. Init => FaultIInv
  BY TypesInit, FirstViewInit, FaultInit DEF FaultIInv, IInv
<1>2. FaultIInv /\ [Next]_vars => FaultIInv'
  BY FaultNext
<1>3. FaultIInv => (FirstView => NoFault)
  BY DEF FaultIInv, FaultInv, NoFault
<1> QED BY <1>1, <1>2, <1>3, PTL DEF Spec
=============================================================================
