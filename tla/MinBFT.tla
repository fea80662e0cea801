------------------------------- MODULE MinBFT --------------------------------
(***************************************************************************)
(* The MinBFT replica and client of replication/minbft.  Every PREPARE and *)
(* COMMIT takes the next value of its sender's counter, the UI, and        *)
(* receivers handle the messages of one sender in the order of their UIs.  *)
(* There is no view change: view_number stays 0, its leader is Primary.    *)
(*                                                                         *)
(* The network loses, duplicates and reorders messages: sent[r] holds what *)
(* r broadcast, by UI, and requests are known from last_req.  The runner   *)
(* is a SpinRunner: solos of one replica exclude each other, and run in    *)
(* any order.  A solo that drains ui_queue takes one step per message,     *)
(* during which nothing else runs (what it sends may be received later).   *)
(***************************************************************************)
EXTENDS Naturals, Sequences, FiniteSets

CONSTANTS
  Replicas,   \* the 2f+1 replicas
  Primary,    \* GetLeaderIndex(0)
  Clients,
  f,          \* configuration.f
  BatchSize,  \* batch_size, the constructor's argument
  MaxReq,     \* bound: requests one client invokes
  MaxClose,   \* bound: CloseBatch callbacks of the timer waiting in the runner
  MaxQueued,  \* bound: UI messages that wait in queues at once
  Reordered,  \* bound: pairs <<r, s>> where r may receive what s sent out of order
  Hear        \* bound: the replicas that clients' requests reach

Request == [client : Clients, num : Nat \ {0}]

VARIABLES
  log,           \* log[r]: the requests of r's log
  batches,       \* batches[r]: low_op and high_op, as records [ui, low, high]
  commit_quorum, \* commit_quorum[r]: pairs <<UI of the PREPARE, replica>>
  committed,     \* committed[r]: opnums whose entry is LOG_STATE_COMMITTED
  commit_number, \* commit_number[r]: r executed the opnums up to this one
  client_table,  \* client_table[r][c]: num = 0 when c has no entry at r
  epilogue_list, \* epilogue_list[r]: the replies that ConcludeEpilogue will send
  next_ui,       \* next_ui[r][s]: the UI of s that r handles next
  ui_queue,      \* ui_queue[r][s]: the UIs whose messages wait
  request_batch, \* the requests the primary has logged but not sent
  close_queued,  \* CloseBatch calls of close_batch_timeout waiting in the runner
  draining,      \* <<r, s>> while r's solo drains the messages of s, else << >>
  stopped,       \* the replicas whose process aborted
  sent,          \* sent[r][ui]: what r broadcast with that UI
  last_req,      \* last_req[c]: MinBFTClient::request_number
  pending,       \* pending[c]: there is a pending_request
  received,      \* received[c]: the replicas that replied to it
  replies        \* the replies sent

logVars     == <<log, batches, commit_quorum, committed, commit_number, client_table>>
uiVars      == <<next_ui, ui_queue>>
primaryVars == <<request_batch, close_queued>>
clientVars  == <<last_req, pending, received>>
vars == <<logVars, uiVars, primaryVars, epilogue_list, draining, stopped, sent, clientVars, replies>>

Init ==
  /\ log = [r \in Replicas |-> << >>]
  /\ batches = [r \in Replicas |-> {}]
  /\ commit_quorum = [r \in Replicas |-> {}]
  /\ committed = [r \in Replicas |-> {}]
  /\ commit_number = [r \in Replicas |-> 0]
  /\ client_table = [r \in Replicas |-> [c \in Clients |-> [num |-> 0, ready |-> FALSE, reply |-> 0]]]
  /\ epilogue_list = [r \in Replicas |-> {}]
  /\ next_ui = [r \in Replicas |-> [s \in Replicas |-> 1]]
  /\ ui_queue = [r \in Replicas |-> [s \in Replicas |-> {}]]
  /\ request_batch = << >> /\ close_queued = 0
  /\ draining = << >>
  /\ stopped = {}
  /\ sent = [r \in Replicas |-> << >>]
  /\ last_req = [c \in Clients |-> 0]
  /\ pending = [c \in Clients |-> FALSE]
  /\ received = [c \in Clients |-> {}]
  /\ replies = {}

-----------------------------------------------------------------------------
(***************************************************************************)
(* The client.                                                             *)
(***************************************************************************)

\* Invoke broadcasts a request; the resend timer broadcasts the same again.
Invoke(c) ==
  /\ ~pending[c] /\ last_req[c] < MaxReq
  /\ last_req' = [last_req EXCEPT ![c] = @ + 1]
  /\ pending' = [pending EXCEPT ![c] = TRUE]
  /\ received' = [received EXCEPT ![c] = {}]
  /\ UNCHANGED <<logVars, uiVars, primaryVars, epilogue_list, draining, stopped, sent, replies>>

Reply(r, req) == [from |-> r, client |-> req.client, num |-> req.num]

\* f+1 replicas that replied complete a request; their results are not compared.
ReceiveReply(c, m) ==
  /\ pending[c] /\ m.client = c /\ m.num = last_req[c]
  /\ LET got == received[c] \cup {m.from}
     IN  /\ received' = [received EXCEPT ![c] = got]
         /\ pending' = [pending EXCEPT ![c] = Cardinality(got) < f + 1]
  /\ UNCHANGED <<logVars, uiVars, primaryVars, epilogue_list, draining, stopped, sent, last_req, replies>>

-----------------------------------------------------------------------------
(***************************************************************************)
(* The replica.                                                            *)
(***************************************************************************)

\* The opnums AddCommit executes when the entries done are COMMITTED.
Executable(r, lg, done) ==
  {i \in commit_number[r] + 1 .. Len(lg) : commit_number[r] + 1 .. i \subseteq done}

\* Execution of the opnums ops of log lg: a client with an entry is answered, and
\* the entry, which may be that of a later request, holds the last reply.
Execute(r, lg, table, ops) ==
  LET of(c) == {i \in ops : lg[i].client = c}
      last(c) == CHOOSE i \in of(c) : \A j \in of(c) : j <= i
  IN  /\ commit_number' = [commit_number EXCEPT ![r] = @ + Cardinality(ops)]
      /\ client_table' = [client_table EXCEPT ![r] = [c \in Clients |->
           IF of(c) = {} \/ table[c].num = 0
             THEN table[c]
             ELSE [num |-> table[c].num, ready |-> TRUE, reply |-> lg[last(c)].num]]]
      /\ epilogue_list' = [epilogue_list EXCEPT ![r] =
           @ \cup {Reply(r, lg[i]) : i \in {j \in ops : table[lg[j].client].num # 0}}]

\* The replicas whose COMMITs for the PREPARE with the given UI r has counted.
CommittersOfAny(r, ui) == {s \in Replicas : \E u \in 0 .. ui : <<u, s>> \in commit_quorum[r]}
Committers(r, ui) == {s \in Replicas : <<ui, s>> \in commit_quorum[r]}

\* AddCommit: a quorum with the COMMIT of s executes; known are r's batches.
AddCommit(r, ui, s, lg, table, known) ==
  /\ commit_quorum' = [commit_quorum EXCEPT ![r] = @ \cup {<<ui, s>>}]
  /\ IF Cardinality(Committers(r, ui) \cup {s}) < f + 1
       THEN /\ client_table' = [client_table EXCEPT ![r] = table]
            /\ UNCHANGED <<committed, commit_number, epilogue_list>>
       ELSE \E b \in known :
              LET done == committed[r] \cup (b.low .. b.high)
              IN  /\ b.ui = ui
                  /\ committed' = [committed EXCEPT ![r] = done]
                  /\ Execute(r, lg, table, Executable(r, lg, done))

\* MinBFTAdapter with assign_ui gives a message the UI after those of the messages
\* before, which the replica has broadcast by then.
Broadcast(before, m) == Append(before, m)

\* SendCommit broadcasts and counts the replica's own COMMIT.
Commit(ui) == [type |-> "commit", ui |-> ui]

SendCommit(r, ui, before, lg, table, known) ==
  /\ sent' = [sent EXCEPT ![r] = Broadcast(before, Commit(ui))]
  /\ AddCommit(r, ui, r, lg, table, known)

Batch(ui, low, high) == [ui |-> ui, low |-> low, high |-> high]

\* CloseBatch, when the log is lg and the batch reqs, which may be empty: one UI for
\* the PREPARE, the next one for the COMMIT.
CloseBatch(lg, reqs, table) ==
  LET ui == Len(sent[Primary]) + 1
      known == batches[Primary] \cup {Batch(ui, (Len(lg) + 1) - Len(reqs), Len(lg))}
      before == Broadcast(sent[Primary], [type |-> "prepare", reqs |-> reqs])
  IN  /\ request_batch' = << >>
      /\ batches' = [batches EXCEPT ![Primary] = known]
      /\ SendCommit(Primary, ui, before, lg, table, known)

Idle(r) == draining = << >> /\ r \notin stopped

\* HandleRequest past the client table, at the primary.
LogRequest(req, table) ==
  LET lg == Append(log[Primary], req)
      reqs == Append(request_batch, req)
  IN  /\ log' = [log EXCEPT ![Primary] = lg]
      /\ IF Len(reqs) >= BatchSize
           THEN CloseBatch(lg, reqs, table)
           ELSE /\ request_batch' = reqs
                /\ client_table' = [client_table EXCEPT ![Primary] = table]
                /\ UNCHANGED <<batches, commit_quorum, committed, commit_number, epilogue_list, sent>>

\* HandleRequest of request n of client c.  ConcludeEpilogue follows in any case, so
\* the solo goes on as if it had drained the (empty) queue of its own messages.
HandleRequest(r, c, n) ==
  LET entry == client_table[r][c]
      table == [client_table[r] EXCEPT ![c] = [entry EXCEPT !.num = n, !.ready = FALSE]]
  IN  /\ Idle(r) /\ n <= last_req[c]
      /\ draining' = <<r, r>>
      /\ \/ \* an old request, or the last one
            /\ n <= entry.num
            /\ replies' = IF n = entry.num /\ entry.ready
                            THEN replies \cup {Reply(r, [client |-> c, num |-> entry.reply])}
                            ELSE replies
            /\ UNCHANGED <<logVars, request_batch, epilogue_list, sent>>
         \/ \* a new one, which only the primary orders
            /\ n > entry.num /\ r # Primary
            /\ client_table' = [client_table EXCEPT ![r] = table]
            /\ UNCHANGED <<log, batches, commit_quorum, committed, commit_number,
                           request_batch, epilogue_list, sent, replies>>
         \/ /\ n > entry.num /\ r = Primary
            /\ LogRequest([client |-> c, num |-> n], table)
            /\ UNCHANGED replies
      /\ UNCHANGED <<uiVars, close_queued, stopped, clientVars>>

\* close_batch_timeout runs while a batch is open; its callback queues CloseBatch.
CloseBatchTimeout ==
  /\ Primary \notin stopped
  /\ request_batch # << >> /\ close_queued < MaxClose
  /\ close_queued' = close_queued + 1
  /\ UNCHANGED <<logVars, uiVars, request_batch, epilogue_list, draining, stopped, sent, clientVars, replies>>

\* The queued CloseBatch; the batch may have been sent before.  No ConcludeEpilogue.
RunCloseBatch ==
  /\ Idle(Primary) /\ close_queued > 0
  /\ close_queued' = close_queued - 1
  /\ CloseBatch(log[Primary], request_batch, client_table[Primary])
  /\ UNCHANGED <<log, uiVars, draining, stopped, clientVars, replies>>

\* HandlePrepare appends the batch and commits it.
HandlePrepare(r, ui, reqs) ==
  LET lg == log[r] \o reqs
      known == batches[r] \cup {Batch(ui, Len(log[r]) + 1, Len(lg))}
  IN  /\ log' = [log EXCEPT ![r] = lg]
      /\ batches' = [batches EXCEPT ![r] = known]
      /\ SendCommit(r, ui, sent[r], lg, client_table[r], known)
      /\ UNCHANGED stopped

\* HandleCommit drops a COMMIT for a batch that is executed.  A quorum for a batch
\* whose PREPARE is not there is NOT_IMPLEMENTED.
HandleCommit(r, s, ui) ==
  /\ \/ /\ \E b \in batches[r] : b.ui = ui /\ b.high <= commit_number[r]
        /\ UNCHANGED <<logVars, epilogue_list, stopped>>
     \/ /\ \A b \in batches[r] : b.ui = ui => b.high > commit_number[r]
        /\ \/ /\ (\E b \in batches[r] : b.ui = ui) \/ Cardinality(Committers(r, ui) \cup {s}) < f + 1
              /\ AddCommit(r, ui, s, log[r], client_table[r], batches[r])
              /\ UNCHANGED <<log, batches, stopped>>
           \/ /\ \A b \in batches[r] : b.ui # ui
              /\ Cardinality(Committers(r, ui) \cup {s}) >= f + 1
              /\ stopped' = stopped \cup {r}
              /\ UNCHANGED <<logVars, epilogue_list>>
  /\ UNCHANGED sent

\* The solo inside the wrapping solo: message ui of s.
HandleUI(r, s, ui) ==
  LET m == sent[s][ui]
  IN  \/ m.type = "prepare" /\ HandlePrepare(r, ui, m.reqs)
      \/ m.type = "commit" /\ HandleCommit(r, s, m.ui)

Queued == UNION {{<<r, s, ui>> : ui \in ui_queue[r][s]} : r \in Replicas, s \in Replicas}

\* A message that is not the next one of its sender waits, an old duplicate too.
StoreUI(r, s, ui) ==
  /\ Idle(r) /\ r # s /\ <<r, s>> \in Reordered
  /\ ui \in DOMAIN sent[s] /\ ui # next_ui[r][s]
  /\ Cardinality(Queued) < MaxQueued
  /\ ui_queue' = [ui_queue EXCEPT ![r][s] = @ \cup {ui}]
  /\ UNCHANGED <<logVars, next_ui, primaryVars, epilogue_list, draining, stopped, sent, clientVars, replies>>

\* The next one is handled.
ReceiveUI(r, s) ==
  /\ Idle(r) /\ r # s
  /\ next_ui[r][s] \in DOMAIN sent[s]
  /\ next_ui' = [next_ui EXCEPT ![r][s] = @ + 1]
  /\ draining' = <<r, s>>
  /\ HandleUI(r, s, next_ui[r][s])
  /\ UNCHANGED <<ui_queue, primaryVars, clientVars, replies>>

\* The loop looks at the smallest UI that waits and ends if it is not the next one.
SmallestIs(r, s, ui) == ui \in ui_queue[r][s] /\ \A u \in ui_queue[r][s] : ui <= u

Drain(r, s) ==
  /\ draining = <<r, s>> /\ r \notin stopped
  /\ SmallestIs(r, s, next_ui[r][s])
  /\ next_ui' = [next_ui EXCEPT ![r][s] = @ + 1]
  /\ ui_queue' = [ui_queue EXCEPT ![r][s] = @ \ {next_ui[r][s]}]
  /\ HandleUI(r, s, next_ui[r][s])
  /\ UNCHANGED <<primaryVars, draining, clientVars, replies>>

\* The solo ends with ConcludeEpilogue, or with the process.
ConcludeEpilogue(r, s) ==
  /\ draining = <<r, s>>
  /\ draining' = << >>
  /\ IF r \in stopped
       THEN UNCHANGED <<epilogue_list, replies>>
       ELSE /\ ~SmallestIs(r, s, next_ui[r][s])
            /\ replies' = replies \cup epilogue_list[r]
            /\ epilogue_list' = [epilogue_list EXCEPT ![r] = {}]
  /\ UNCHANGED <<logVars, uiVars, primaryVars, stopped, sent, clientVars>>

Next ==
  \/ \E c \in Clients : Invoke(c) \/ \E m \in replies : ReceiveReply(c, m)
  \/ \E r \in Hear, c \in Clients : \E n \in 1 .. last_req[c] : HandleRequest(r, c, n)
  \/ CloseBatchTimeout \/ RunCloseBatch
  \/ \E r \in Replicas, s \in Replicas :
       \/ \E ui \in DOMAIN sent[s] : StoreUI(r, s, ui)
       \/ ReceiveUI(r, s) \/ Drain(r, s) \/ ConcludeEpilogue(r, s)

Spec == Init /\ [][Next]_vars

-----------------------------------------------------------------------------
(***************************************************************************)
(* What the replicas and clients rely on.                                  *)
(***************************************************************************)

\* The fields of replicas, clients and messages (MinBFTReplica, MinBFTClient,
\* message.proto) have the values their types say.
TypeOK ==
  /\ log \in [Replicas -> Seq(Request)]
  /\ batches \in [Replicas -> SUBSET [ui : Nat, low : Nat, high : Nat]]
  /\ commit_quorum \in [Replicas -> SUBSET (Nat \X Replicas)]
  /\ committed \in [Replicas -> SUBSET Nat]
  /\ commit_number \in [Replicas -> Nat]
  /\ client_table \in [Replicas -> [Clients -> [num : Nat, ready : BOOLEAN, reply : Nat]]]
  /\ epilogue_list \in [Replicas -> SUBSET [from : Replicas, client : Clients, num : Nat]]
  /\ next_ui \in [Replicas -> [Replicas -> Nat]]
  /\ ui_queue \in [Replicas -> [Replicas -> SUBSET Nat]]
  /\ request_batch \in Seq(Request) /\ close_queued \in Nat
  /\ draining \in {<< >>} \cup (Replicas \X Replicas)
  /\ stopped \in SUBSET Replicas
  /\ sent \in [Replicas -> Seq([type : {"prepare"}, reqs : Seq(Request)] \cup [type : {"commit"}, ui : Nat])]
  /\ last_req \in [Clients -> Nat]
  /\ pending \in [Clients -> BOOLEAN]
  /\ received \in [Clients -> SUBSET Replicas]
  /\ replies \in SUBSET [from : Replicas, client : Clients, num : Nat]

\* The logs of any two replicas have the same request at every opnum they share,
\* however PREPAREs are reordered (replica.cc:145-160).
Agreement ==
  \A r, s \in Replicas : \A i \in 1 .. Len(log[r]) : i <= Len(log[s]) => log[r][i] = log[s][i]

\* No request is twice in a log (HandleRequest, HandlePrepare).
AtMostOnce ==
  \A r \in Replicas : \A i, j \in 1 .. Len(log[r]) : log[r][i] = log[r][j] => i = j

\* What a replica executed is in the logs of f+1 replicas, although COMMITs are
\* counted by the UI of the PREPARE, not by opnum (AddCommit).
ExecutedIsReplicated ==
  \A r \in Replicas : \A i \in 1 .. commit_number[r] :
    Cardinality({s \in Replicas : i <= Len(log[s]) /\ log[s][i] = log[r][i]}) >= f + 1

\* A request that a client saw completed was executed by f+1 replicas.
CompletedIsExecuted ==
  \A c \in Clients : \A n \in 1 .. last_req[c] :
    (n = last_req[c] => ~pending[c]) =>
      Cardinality({r \in Replicas : \E i \in 1 .. commit_number[r] :
                     log[r][i] = [client |-> c, num |-> n]}) >= f + 1

\* With f = 1 no replica meets a quorum for a batch it does not know
\* (replica.cc:252, NOT_IMPLEMENTED): it takes f+1 replicas other than itself and
\* the primary, whose COMMIT comes after its PREPARE.
NoneStops == f <= 1 => stopped = {}

\* A message that is the next one of its sender waits in the queue, outside of a
\* solo, only behind a duplicate of an old one (replica.cc:152-160).
WaitsBehindDuplicate ==
  \A r, s \in Replicas :
    Idle(r) /\ next_ui[r][s] \in ui_queue[r][s] => \E u \in ui_queue[r][s] : u < next_ui[r][s]

\* MinBFT replicates one log, the primary's, which every replica executes from the
\* start; a client with a pending_request waits for its last one.
ExecutedLog == [r \in Replicas |-> [i \in 1 .. commit_number[r] |-> log[r][i]]]
Waiting == [c \in Clients |-> IF pending[c] THEN last_req[c] ELSE 0]

Replicated == INSTANCE ReplicatedLog WITH
  Fillers <- {}, FromStart <- TRUE, ordered <- log[Primary],
  executed <- ExecutedLog, invoked <- last_req, waiting <- Waiting

\* All replicas execute what they execute in one order, without a gap, and a client's
\* request completes only when f+1 of them have executed it.
ReplicatesLog == Replicated!Spec
=============================================================================
