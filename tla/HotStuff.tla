------------------------------ MODULE HotStuff ------------------------------
(***************************************************************************)
(* The HotStuff replica and client of replication/hotstuff: chained         *)
(* HotStuff under a fixed primary (the implementation has no leader         *)
(* change).  The primary cuts its log into blocks; the op number of a       *)
(* block's first entry, a NOOP, stands for its hash.  A block carries a QC, *)
(* the votes of 2f backups for an earlier block; with every newer QC a      *)
(* replica moves its locked QC and executes up to it.                       *)
(*                                                                          *)
(* Replicas are correct or stopped: a replica stops where the code aborts.  *)
(* The network loses, duplicates and reorders messages; SpinRunner (module  *)
(* SpinRunners) reorders the handlers of one replica as well.  A message    *)
(* once sent stays in msgs and is handled at any time, any number of times. *)
(* All replicas have run the first task that their constructors submit.     *)
(*                                                                          *)
(* A duplicated request with a stored reply is answered with a              *)
(* proto::Message, which the client parses as a proto::ReplyMessage: its    *)
(* field 2 becomes the result and client_request is 0, a number no request  *)
(* has.  The client drops it, so neither the answer nor the stored reply is *)
(* part of the model.                                                       *)
(***************************************************************************)
EXTENDS Integers, Sequences, FiniteSets

CONSTANTS
  Replicas,   \* the replicas of the group
  Primary,    \* GetPrimary(), replica 0
  Clients,    \* the clients
  NoClient,   \* the client of a NOOP entry
  f,          \* configuration.f
  Crashed,    \* the replicas that are down from the start
  BatchSize,  \* batch_size, the constructor's argument
  MaxReq,     \* bound: requests one client invokes
  MaxLog      \* bound: entries of the primary's log

ASSUME ReplicasAssumption == IsFiniteSet(Replicas) /\ Primary \in Replicas
ASSUME ClientsAssumption  == NoClient \notin Clients
ASSUME FaultAssumption    == /\ f \in Nat /\ Cardinality(Replicas) = 3 * f + 1
                             /\ Crashed \subseteq Replicas
ASSUME BatchAssumption    == BatchSize \in Nat \ {0}
ASSUME BoundAssumption    == MaxReq \in Nat /\ MaxLog \in Nat

Backups == Replicas \ {Primary}
Noop    == [client |-> NoClient, num |-> 0]
NoQC    == -1

VARIABLES
  log,           \* log[r]: requests and Noops; op numbers start at 1
  generic_qc,    \* generic_qc[r]: op number of the newest QC, NoQC if none
  locked_qc,     \* locked_qc[r]: op number of the QC before that
  block_buffer,  \* block_buffer[r]: op number -> entries of a block that came early
  client_table,  \* client_table[r][c]: client_request, 0 when c has no entry
  executed,      \* executed[r]: the op numbers that r has executed
  high_qc,       \* the primary's votes <<op number, backup>>, without those for
                 \* blocks up to its QC, which it never reads again
  pending_op,    \* op number of pending_generic's block, which ends the primary's log
  stopped,       \* the replicas that are down
  pending,       \* pending[c]: the request number c waits for, 0 if none
  last_req,      \* last_req[c]: HotStuffClient::request_number
  received,      \* received[c]: replicas that replied to the pending request
  msgs           \* every message ever sent

qcVars      == <<generic_qc, locked_qc, executed>>
backupVars  == <<block_buffer>>
primaryVars == <<high_qc, pending_op>>
clientVars  == <<pending, last_req, received>>
vars == <<log, qcVars, backupVars, client_table, primaryVars, stopped, clientVars, msgs>>

VoteMsg(r, op)     == [type |-> "vote", op |-> op, from |-> r]
ReplyMsg(r, req)   == [type |-> "reply", client |-> req.client, num |-> req.num, from |-> r]
RequestMsg(c, n)   == [type |-> "request", client |-> c, num |-> n]
GenericMsg(op, entries, justify) ==
  [type |-> "generic", op |-> op, entries |-> entries, justify |-> justify]

Init ==
  /\ log = [r \in Replicas |-> IF r = Primary THEN <<Noop>> ELSE <<>>]
  /\ generic_qc = [r \in Replicas |-> NoQC]
  /\ locked_qc = [r \in Replicas |-> NoQC]
  /\ block_buffer = [r \in Replicas |-> <<>>]
  /\ client_table = [r \in Replicas |-> [c \in Clients |-> 0]]
  /\ executed = [r \in Replicas |-> {}]
  /\ high_qc = {}
  /\ pending_op = 1
  /\ stopped = Crashed
  /\ pending = [c \in Clients |-> 0]
  /\ last_req = [c \in Clients |-> 0]
  /\ received = [c \in Clients |-> {}]
  /\ msgs = {VoteMsg(r, 0) : r \in Backups \ Crashed}

\* NOT_REACHABLE or NOT_IMPLEMENTED: the process is gone, with what its handler
\* wanted to send.
Stop(r) ==
  /\ stopped' = stopped \cup {r}
  /\ UNCHANGED <<log, qcVars, backupVars, client_table, primaryVars, clientVars, msgs>>

-----------------------------------------------------------------------------
(***************************************************************************)
(* The client.                                                              *)
(***************************************************************************)

\* Invoke broadcasts a new request; the resends of its timer add nothing.
Invoke(c) ==
  /\ pending[c] = 0 /\ last_req[c] < MaxReq
  /\ last_req' = [last_req EXCEPT ![c] = @ + 1]
  /\ pending' = [pending EXCEPT ![c] = last_req[c] + 1]
  /\ msgs' = msgs \cup {RequestMsg(c, last_req[c] + 1)}
  /\ UNCHANGED <<log, qcVars, backupVars, client_table, primaryVars, stopped, received>>

RepliesNeededOff == f
RepliesNeeded == f + 1

\* ReceiveMessage: f+1 replicas complete the request.
ReceiveReply(c, m) ==
  /\ m.type = "reply" /\ m.client = c
  /\ pending[c] # 0 /\ m.num = pending[c]
  /\ LET got == received[c] \cup {m.from}
     IN  \/ /\ Cardinality(got) < RepliesNeeded
            /\ received' = [received EXCEPT ![c] = got]
            /\ UNCHANGED pending
         \/ /\ Cardinality(got) >= RepliesNeeded
            /\ received' = [received EXCEPT ![c] = {}]
            /\ pending' = [pending EXCEPT ![c] = 0]
  /\ UNCHANGED <<log, qcVars, backupVars, client_table, primaryVars, stopped, last_req, msgs>>

-----------------------------------------------------------------------------
(***************************************************************************)
(* The primary.                                                             *)
(***************************************************************************)

\* CloseBatch, on the primary's log lg: without a QC nothing; else send the
\* pending block and open the next one with a NOOP.
CloseBatch(lg) ==
  /\ generic_qc[Primary] # NoQC
  /\ Len(lg) < MaxLog
  /\ msgs' = msgs \cup {GenericMsg(pending_op, SubSeq(lg, pending_op, Len(lg)),
                                   generic_qc[Primary])}
  /\ log' = [log EXCEPT ![Primary] = Append(lg, Noop)]
  /\ pending_op' = Len(lg) + 1

\* close_batch_timeout runs all the time.
CloseBatchTimeout ==
  /\ Primary \notin stopped
  /\ CloseBatch(log[Primary])
  /\ UNCHANGED <<qcVars, backupVars, client_table, high_qc, stopped, clientVars>>

NewRequestAny(r, m) == TRUE

\* HandleRequest drops what is not newer than the client's entry.
NewRequest(r, m) == client_table[r][m.client] < m.num

\* HandleRequest: every replica remembers the request, the primary logs it and
\* closes a batch that is full.
HandleRequest(r, m) ==
  /\ m.type = "request" /\ r \notin stopped
  /\ NewRequest(r, m)
  /\ client_table' = [client_table EXCEPT ![r][m.client] = m.num]
  /\ LET lg == Append(log[r], [client |-> m.client, num |-> m.num])
         full == Len(lg) - pending_op >= BatchSize
     IN  \/ /\ r # Primary
            /\ UNCHANGED <<log, pending_op, msgs>>
         \/ /\ r = Primary
            /\ Len(lg) < MaxLog
            /\ IF full /\ generic_qc[r] # NoQC
                 THEN CloseBatch(lg)
                 ELSE /\ log' = [log EXCEPT ![r] = lg]
                      /\ UNCHANGED <<pending_op, msgs>>
  /\ UNCHANGED <<qcVars, backupVars, high_qc, stopped, clientVars>>

-----------------------------------------------------------------------------
(***************************************************************************)
(* EnterNextView, with the new QC q and the log lg.                         *)
(***************************************************************************)

ToExecuteOnLock(r) == IF generic_qc[r] <= 0 THEN {} ELSE generic_qc[r] .. Len(log[r])

\* The op numbers from the commit QC (the old locked one) to the new locked QC
\* (the old generic one).
ToExecute(r) == IF locked_qc[r] <= 0 THEN {} ELSE locked_qc[r] .. generic_qc[r] - 1

\* Execution would need an entry the log does not have.
NeedsTransfer(r, lg) == \E op \in ToExecute(r) : op > Len(lg)

\* The replies: a client without an entry gets none.
Replies(r, lg) ==
  {ReplyMsg(r, lg[op]) : op \in {o \in ToExecute(r) :
     lg[o] # Noop /\ client_table[r][lg[o].client] # 0}}

EnterNextView(r, lg, q) ==
  /\ locked_qc' = [locked_qc EXCEPT ![r] = generic_qc[r]]
  /\ generic_qc' = [generic_qc EXCEPT ![r] = q]
  /\ executed' = [executed EXCEPT ![r] = @ \cup {op \in ToExecute(r) : lg[op] # Noop}]

-----------------------------------------------------------------------------
VotesOff(op, s) == {v \in high_qc \cup {<<op, s>>, <<op, Primary>>} : v[1] = op}

\* The votes for op once one from s is stored.
Votes(op, s) == {v \in high_qc \cup {<<op, s>>} : v[1] = op}

\* Votes for a block above the primary's QC only.
NewVote(m) == generic_qc[Primary] < m.op

\* HandleVote, at the primary: 2f votes of backups make a QC.
HandleVote(m) ==
  /\ m.type = "vote" /\ Primary \notin stopped
  /\ NewVote(m)
  /\ IF Cardinality(Votes(m.op, m.from)) < 2 * f
       THEN /\ high_qc' = high_qc \cup {<<m.op, m.from>>}
            /\ UNCHANGED <<log, qcVars, backupVars, client_table, pending_op, stopped,
                           clientVars, msgs>>
       ELSE IF NeedsTransfer(Primary, log[Primary])
       THEN Stop(Primary)
       ELSE /\ high_qc' = {v \in high_qc : v[1] > m.op}
            /\ EnterNextView(Primary, log[Primary], m.op)
            /\ msgs' = msgs \cup Replies(Primary, log[Primary])
            /\ UNCHANGED <<log, backupVars, client_table, pending_op, stopped, clientVars>>

-----------------------------------------------------------------------------
(***************************************************************************)
(* The backups.                                                             *)
(***************************************************************************)

\* The blocks of the buffer b that HandleGeneric moves to a log of length n, as
\* the sequence of their op numbers: each begins where the one before ends.
Drained(b, n) ==
  LET end(ds, i) == IF i = 0 THEN n ELSE ds[i] + Len(b[ds[i]]) - 1
  IN  {ds \in UNION {[1 .. k -> DOMAIN b] : k \in 0 .. Cardinality(DOMAIN b)} :
         /\ \A i \in 1 .. Len(ds) : ds[i] = end(ds, i - 1) + 1
         /\ end(ds, Len(ds)) + 1 \notin DOMAIN b}

\* The log after the blocks of ds are appended to it.
AppendBlocks(lg, b, ds) ==
  LET last == IF ds = <<>> THEN Len(lg) ELSE ds[Len(ds)] + Len(b[ds[Len(ds)]]) - 1
      block(op) == CHOOSE d \in {ds[i] : i \in DOMAIN ds} :
                     d <= op /\ op < d + Len(b[d])
  IN  [op \in 1 .. last |-> IF op <= Len(lg) THEN lg[op]
                            ELSE b[block(op)][(op - block(op)) + 1]]

\* The block's QC is newer than the replica's.
Newer(r, m) == generic_qc[r] < m.justify

\* The end of HandleGeneric, with the log lg and the buffer b: send the vote,
\* and enter the next view if the block's QC is newer.
FinishGeneric(r, m, lg, b) ==
  IF Newer(r, m) /\ NeedsTransfer(r, lg)
    THEN Stop(r)
    ELSE /\ log' = [log EXCEPT ![r] = lg]
         /\ block_buffer' = [block_buffer EXCEPT ![r] = b]
         /\ IF Newer(r, m)
              THEN /\ EnterNextView(r, lg, m.justify)
                   /\ msgs' = (msgs \cup {VoteMsg(r, m.op)}) \cup Replies(r, lg)
              ELSE /\ msgs' = msgs \cup {VoteMsg(r, m.op)}
                   /\ UNCHANGED qcVars
         /\ UNCHANGED <<client_table, primaryVars, stopped, clientVars>>

GapOff(r, m) == m.op > Len(log[r]) + 2

\* The block does not follow the log.
Gap(r, m) == m.op > Len(log[r]) + 1

\* HandleGeneric: a block that the log has already aborts the process; one
\* that does not follow the log is buffered; one that does is appended, with
\* the buffered blocks that follow it.
HandleGeneric(r, m) ==
  LET b == block_buffer[r]
      lg == log[r] \o m.entries
  IN  /\ m.type = "generic" /\ r # Primary /\ r \notin stopped
      /\ \/ /\ m.op <= Len(log[r])
            /\ Stop(r)
         \/ /\ m.op > Len(log[r]) /\ Gap(r, m)
            /\ FinishGeneric(r, m, log[r],
                 [op \in DOMAIN b \cup {m.op} |-> IF op = m.op THEN m.entries ELSE b[op]])
         \/ /\ m.op > Len(log[r]) /\ ~Gap(r, m)
            /\ IF \E op \in DOMAIN b : op <= Len(lg)
                 THEN Stop(r)
                 ELSE \E ds \in Drained(b, Len(lg)) :
                        FinishGeneric(r, m, AppendBlocks(lg, b, ds),
                          [op \in DOMAIN b \ {ds[i] : i \in DOMAIN ds} |-> b[op]])

\* resend_vote_timeout votes for the newest QC's block, which the backup need
\* not have.
ResendVote(r) ==
  /\ r # Primary /\ r \notin stopped
  /\ msgs' = msgs \cup {VoteMsg(r, IF generic_qc[r] = NoQC THEN 0 ELSE generic_qc[r])}
  /\ UNCHANGED <<log, qcVars, backupVars, client_table, primaryVars, stopped, clientVars>>

-----------------------------------------------------------------------------
Next ==
  \/ \E c \in Clients : Invoke(c) \/ \E m \in msgs : ReceiveReply(c, m)
  \/ CloseBatchTimeout
  \/ \E m \in msgs : HandleVote(m)
  \/ \E r \in Replicas, m \in msgs : HandleRequest(r, m) \/ HandleGeneric(r, m)
  \/ \E r \in Replicas : ResendVote(r)

Spec == Init /\ [][Next]_vars

-----------------------------------------------------------------------------
\* Two logs have the same entry, executed or not, at every op number both
\* reach, and a buffered block holds what they have there: blocks that overtake
\* each other never shift a backup's log.
Agreement ==
  \A r, s \in Replicas :
    /\ \A op \in DOMAIN log[r] \cap DOMAIN log[s] : log[r][op] = log[s][op]
    /\ \A op \in DOMAIN block_buffer[r] : \A i \in DOMAIN block_buffer[r][op] :
         (op + i) - 1 \in DOMAIN log[s] => log[s][(op + i) - 1] = block_buffer[r][op][i]

\* A replica executes, without a gap and never again, what lies between the
\* first QC it entered and its locked one, although its QCs skip blocks.
ExecutesInOrder ==
  \A r \in Replicas : executed[r] = {} \/
    \E first \in executed[r] :
      executed[r] = {op \in first .. locked_qc[r] - 1 : log[r][op] # Noop}

\* The block of any replica's QC is held by 2f backups, in the log or in the
\* buffer: resent votes of backups that do not hold it never make a QC.
QCIsHeld ==
  \A r \in Replicas : generic_qc[r] > 0 =>
    Cardinality({s \in Backups : \/ generic_qc[r] <= Len(log[s])
                                 \/ generic_qc[r] \in DOMAIN block_buffer[s]}) >= 2 * f

\* No request is executed twice, because none is in a log twice: the client
\* table recognises a retransmission before and after the execution.
AtMostOnce ==
  \A r \in Replicas : \A i, j \in DOMAIN log[r] :
    i # j /\ log[r][i] = log[r][j] => log[r][i] = Noop

\* A request whose continuation the client has called was executed by at
\* least f+1 replicas.
CompletedIsExecuted ==
  \A c \in Clients : \A n \in 1 .. last_req[c] : n # pending[c] =>
    Cardinality({r \in Replicas : \E op \in executed[r] :
                   log[r][op] = [client |-> c, num |-> n]}) >= f + 1

\* HotStuff replicates one log, the primary's, in which NOOPs separate the blocks;
\* a replica executes from the first block that it entered a view with.
ExecutedLog == [r \in Replicas |-> [op \in executed[r] |-> log[r][op]]]

Replicated == INSTANCE ReplicatedLog WITH
  Fillers <- {Noop}, FromStart <- FALSE, ordered <- log[Primary],
  executed <- ExecutedLog, invoked <- last_req, waiting <- pending

\* All replicas execute what they execute in one order, none leaves out a request
\* between two that it executes, and a client's request completes only when f+1 of
\* them have executed it.
ReplicatesLog == Replicated!Spec
=============================================================================
