------------------------------ MODULE FastPaxos ------------------------------
(***************************************************************************)
(* The Fast Paxos replica and client of replication/fastpaxos.  A client   *)
(* sends its request to all replicas; each appends it to its log at once,  *)
(* and the leader commits an operation when a fast quorum has put the same *)
(* request under its number, or else when a quorum has taken the request   *)
(* that the leader proposes.                                               *)
(*                                                                         *)
(* There is no view change: a replica enters another view only on a state  *)
(* transfer from a leader that is already there.  The view is 0 in every   *)
(* reachable state, and the fields and tests about it are left out.  An    *)
(* entry is COMMITTED exactly up to lastCommitted.                         *)
(***************************************************************************)
EXTENDS Handlers, Log, SequencesExt

CONSTANTS
  N,          \* configuration.n
  F,          \* configuration.f
  Clients,    \* the clients
  MaxReq,     \* bound: requests one client invokes
  Scenarios   \* what may happen: [timers, down, lost]; <<x, r>> is in
              \* lost if no message of type x, or request of client x, reaches r

Replicas == 0 .. N - 1
Leader == 0

VARIABLES
  rep,      \* rep[r]: the fields of the FastPaxosReplica object of replica r
  client,   \* client[c]: last request, whether it is pending, those completed
  msgs,     \* the messages sent that may still be received, and where
  scenario  \* the member of Scenarios of this behaviour

vars == <<rep, client, msgs, scenario>>

QuorumSize == F + 1
FastQuorumSize == F + (F + 1) \div 2 + 1

AmLeader(s) == s.id = Leader
Others(s) == Replicas \ {s.id}

\* The reply for the operation under op, kept in the client table.
Reply(req, op) == [type |-> "reply", to |-> {}, req |-> req, op |-> op]

ExecuteOp(s, op) ==
    IF ~Found(s.log, op) THEN Crash(s, "CommitUpTo")
    ELSE LET req == s.log[op]
             t == [s EXCEPT !.lastCommitted = op,
                     !.clientTable[req.client] =
                        IF @.id <= req.id THEN [id |-> req.id, replied |-> op] ELSE @]
         IN  IF req.client \in s.addresses THEN Send(t, Reply(req, op)) ELSE t

CommitUpTo(s, upto) ==
    Then(FoldLeft(LAMBDA t, op : Then(t, LAMBDA u : ExecuteOp(u, op)),
                  s, Interval(s.lastCommitted + 1, upto)),
         LAMBDA t : Require([t EXCEPT !.lastSlowPath = Max({@, t.lastCommitted})],
                            t.lastFastPath >= t.lastCommitted, "CommitUpTo"))

UpdateClientTable(s, req) ==
    IF s.clientTable[req.client].id >= req.id THEN s
    ELSE [s EXCEPT !.clientTable[req.client] = [id |-> req.id, replied |-> 0]]

PrepareOK(s, op, req, slowpath) ==
    [type |-> "prepareOK", to |-> {Leader}, from |-> s.id, op |-> op, req |-> req,
     slowpath |-> slowpath]

\* PREPAREOKs for the operations from oldLastOp on that are not yet committed.
SendPrepareOKs(s, oldLastOp) ==
    FoldLeft(LAMBDA t, op :
               Then(t, LAMBDA u :
                    Send(UpdateClientTable(u, u.log[op]), PrepareOK(u, op, u.log[op], TRUE))),
             s, Interval(Max({oldLastOp, s.lastCommitted + 1}), s.lastSlowPath))

RequestStateTransfer(s) ==
    IF s.lastRequestStateTransferOpnum = s.lastCommitted /\ s.lastCommitted # 0 THEN s
    ELSE Send([s EXCEPT !.lastRequestStateTransferOpnum = s.lastCommitted],
              [type |-> "requestStateTransfer", to |-> Others(s), from |-> s.id,
               op |-> s.lastCommitted])

\* Only the last PREPARE is kept to be sent again.
ResendPrepare(s) ==
    IF ~AmLeader(s) THEN Crash(s, "ResendPrepare")
    ELSE IF s.lastSlowPath = s.lastCommitted THEN s
    ELSE Send(s, [type |-> "prepare", to |-> Others(s), op |-> s.lastSlowPath,
                  req |-> s.log[s.lastSlowPath]])

-----------------------------------------------------------------------------
\* Mutant: a fast-path answer counts whatever request it is for.
HandlePrepareOKBlind(s, m) ==
    IF ~AmLeader(s) \/ m.op <= s.lastCommitted \/ m.op > s.lastSlowPath THEN s
    ELSE LET t == [s EXCEPT !.prepareOKs =
                     @ \cup {[op |-> m.op, from |-> m.from, slowpath |-> m.slowpath]}]
             count == Cardinality({x \in t.prepareOKs : x.op = m.op /\ x.slowpath = m.slowpath})
             required == (IF m.slowpath THEN QuorumSize ELSE FastQuorumSize) - 1
         IN  IF count < required THEN t
             ELSE Then(CommitUpTo(t, m.op), LAMBDA u :
                       Send(u, [type |-> "commit", to |-> Others(u), op |-> u.lastCommitted,
                                req |-> s.log[m.op]]))

\* prepareOKs is both quorum sets, told apart by slowpath.
HandlePrepareOK(s, m) ==
    IF ~AmLeader(s) \/ m.op <= s.lastCommitted THEN s
    ELSE IF m.op > s.lastSlowPath
    THEN [s EXCEPT !.pendingPrepareOKs = @ \cup {m}]
    ELSE IF ~m.slowpath /\ s.log[m.op] # m.req THEN ResendPrepare(s)
    ELSE LET t == [s EXCEPT !.prepareOKs =
                     @ \cup {[op |-> m.op, from |-> m.from, slowpath |-> m.slowpath]}]
             count == Cardinality({x \in t.prepareOKs : x.op = m.op /\ x.slowpath = m.slowpath})
             required == (IF m.slowpath THEN QuorumSize ELSE FastQuorumSize) - 1
         IN  IF count < required THEN t
             ELSE Then(CommitUpTo(t, m.op), LAMBDA u :
                       IF count > required THEN u
                       ELSE Send(u, [type |-> "commit", to |-> Others(u),
                                     op |-> u.lastCommitted, req |-> s.log[m.op]]))

\* HandleRequest of a request that is not a duplicate.  The pending PREPAREOKs are
\* a list in the order of arrival; the order only decides whether a conflicting one
\* comes before the commit and makes the leader send its PREPARE, which may be lost
\* anyway, so they are a set and the conflicting ones come first.
AcceptAtLeader(s, req) ==
    IF s.lastFastPath # s.lastSlowPath \/ ~MayAppend(s.log, s.lastSlowPath + 1)
    THEN Crash(s, "HandleRequest")
    ELSE FoldLeft(LAMBDA t, m : Then(t, LAMBDA u : HandlePrepareOK(u, m)),
                  [s EXCEPT !.lastSlowPath = @ + 1, !.lastFastPath = s.lastSlowPath + 1,
                            !.log = Append(@, req), !.resends = TRUE,
                            !.pendingPrepareOKs = {}],
                  SetToSortSeq(s.pendingPrepareOKs, LAMBDA x, y :
                                 (x.req # req) /\ (y.req = req)))

AcceptAtFollower(s, req) ==
    IF ~MayAppend(s.log, s.lastFastPath + 1) THEN Crash(s, "HandleRequest")
    ELSE Send([s EXCEPT !.lastFastPath = @ + 1, !.log = Append(@, req)],
              PrepareOK(s, s.lastFastPath + 1, req, FALSE))

HandleRequest(s, m) ==
    LET known == s.clientTable[m.req.client]
        t == [s EXCEPT !.addresses = @ \cup {m.req.client}]
    IN  IF m.req.id < known.id THEN t
        ELSE IF m.req.id = known.id
        THEN IF known.replied # 0 THEN Send(t, Reply(m.req, known.replied)) ELSE t
        ELSE LET u == UpdateClientTable(t, m.req) IN
             IF AmLeader(s) THEN AcceptAtLeader(u, m.req) ELSE AcceptAtFollower(u, m.req)

\* The leader's request under the next slow-path number: appended, or put in the
\* place of what the fast path has there.
TakeProposal(s, op, req) ==
    IF op > s.lastFastPath
    THEN IF op = s.lastFastPath + 1 /\ MayAppend(s.log, op)
         THEN [s EXCEPT !.lastFastPath = op, !.lastSlowPath = @ + 1, !.log = Append(@, req)]
         ELSE Crash(s, "TakeProposal")
    ELSE IF Found(s.log, op) /\ op > s.lastCommitted
         THEN [s EXCEPT !.log[op] = req, !.lastSlowPath = @ + 1]
         ELSE Crash(s, "TakeProposal")

Postpone(s, m) ==
    RequestStateTransfer([s EXCEPT !.pendingPrepares =
                             IF Contains(@, m) THEN @ ELSE Append(@, m)])

HandlePrepare(s, m) ==
    IF AmLeader(s) THEN Crash(s, "HandlePrepare")
    ELSE IF m.op <= s.lastSlowPath THEN Send(s, PrepareOK(s, m.op, m.req, TRUE))
    ELSE IF m.op > s.lastSlowPath + 1 THEN Postpone(s, m)
    ELSE Then(TakeProposal(s, m.op, m.req), LAMBDA t :
              Send(UpdateClientTable(t, m.req), PrepareOK(t, m.op, m.req, TRUE)))

HandleCommit(s, m) ==
    IF AmLeader(s) THEN Crash(s, "HandleCommit")
    ELSE IF m.op <= s.lastCommitted THEN s
    ELSE IF m.op > s.lastFastPath THEN RequestStateTransfer(s)
    ELSE IF m.op <= s.lastSlowPath THEN CommitUpTo(s, m.op)
    ELSE IF m.op > s.lastSlowPath + 1 THEN s
    ELSE CommitUpTo([s EXCEPT !.log[m.op] = m.req], m.op)

HandleRequestStateTransfer(s, m) ==
    IF ~AmLeader(s) THEN s
    ELSE IF s.lastSlowPath # s.lastFastPath THEN Crash(s, "HandleRequestStateTransfer")
    ELSE Send(s, [type |-> "stateTransfer", to |-> {m.from}, op |-> s.lastCommitted,
                  entries |-> Dump(s.log, m.op + 1)])

InstallEntry(s, op, req) ==
    IF op <= s.lastSlowPath THEN s ELSE TakeProposal(s, op, req)

HandleStateTransfer(s, m) ==
    Then(Then(Then(FoldLeft(LAMBDA t, k : Then(t, LAMBDA u :
                              InstallEntry(u, m.entries.first + k - 1, m.entries.entries[k])),
                            s, Interval(1, Len(m.entries.entries))),
                   LAMBDA t : IF m.op > t.lastSlowPath \/ t.lastSlowPath > t.lastFastPath
                              THEN Crash(t, "HandleStateTransfer") ELSE CommitUpTo(t, m.op)),
              LAMBDA t : SendPrepareOKs(t, s.lastSlowPath)),
         LAMBDA t : FoldLeft(LAMBDA u, p : Then(u, LAMBDA v : HandlePrepare(v, p)),
                             [t EXCEPT !.pendingPrepares = << >>], t.pendingPrepares))

-----------------------------------------------------------------------------
Fresh(r) ==
    [id |-> r, status |-> "normal", fault |-> "", out |-> {}, log |-> << >>,
     lastFastPath |-> 0, lastSlowPath |-> 0, lastCommitted |-> 0,
     lastRequestStateTransferOpnum |-> 0, addresses |-> {}, resends |-> FALSE,
     clientTable |-> [c \in Clients |-> [id |-> 0, replied |-> 0]],
     pendingPrepares |-> << >>, pendingPrepareOKs |-> {}, prepareOKs |-> {}]

FreshClient == [lastReqId |-> 0, pending |-> FALSE, done |-> {}]

Init ==
    /\ rep = [r \in Replicas |-> Fresh(r)]
    /\ client = [c \in Clients |-> FreshClient]
    /\ msgs = {}
    /\ scenario \in Scenarios

\* Would a state transfer from t bring something to s?
Behind(s, t) ==
    \/ s.lastCommitted < t.lastCommitted \/ s.lastSlowPath < t.lastSlowPath
    \/ s.pendingPrepares # << >>

\* May message m still change something at replica r?  A request, PREPARE or COMMIT
\* that r already has only repeats an answer, of use as long as the client is
\* waiting or the leader has not committed the operation; the leader ignores a
\* PREPAREOK for what it has committed; a state transfer may have nothing new.  The other messages are dropped, which
\* keeps the state space small.
Matters(m, r, reps, clients) ==
    /\ reps[r].status # "crashed" /\ r \notin scenario.down
    /\ {<<m.type, r>>} \cap scenario.lost = {}
    /\ CASE m.type = "request" ->
              /\ <<m.req.client, r>> \notin scenario.lost
              /\ reps[r].clientTable[m.req.client].id < m.req.id \/ clients[m.req.client].pending
         [] m.type = "prepare" ->
              m.op > reps[r].lastSlowPath \/ m.op > reps[Leader].lastCommitted
         [] m.type \in {"prepareOK", "commit"} -> m.op > reps[r].lastCommitted
         [] m.type = "requestStateTransfer" -> r = Leader /\ Behind(reps[m.from], reps[r])
         [] m.type = "stateTransfer" ->
              \/ m.op > reps[r].lastCommitted \/ reps[r].pendingPrepares # << >>
              \/ m.entries.first + Len(m.entries.entries) - 1 > reps[r].lastSlowPath

Effective(sent, reps, clients) ==
    {m \in {[x EXCEPT !.to = {r \in @ : Matters(x, r, reps, clients)}] : x \in sent} :
        IF m.type = "reply" THEN clients[m.req.client].pending ELSE m.to # {}}

Step(r, t) ==
    /\ rep' = [rep EXCEPT ![r] = [t EXCEPT !.out = {},
                                    !.prepareOKs = {x \in @ : x.op > t.lastCommitted}]]
    /\ msgs' = Effective(msgs \cup t.out, rep', client)
    /\ UNCHANGED <<client, scenario>>

Receive(type, Handler(_, _)) ==
    \E m \in {x \in msgs : x.type = type} : \E r \in m.to :
        /\ Step(r, Handler(rep[r], m))
        /\ rep'[r] # rep[r] \/ msgs' # msgs

ReceiveRequest == Receive("request", HandleRequest)
ReceivePrepare == Receive("prepare", HandlePrepare)
ReceivePrepareOK == Receive("prepareOK", HandlePrepareOK)
ReceiveCommit == Receive("commit", HandleCommit)
ReceiveRequestStateTransfer == Receive("requestStateTransfer", HandleRequestStateTransfer)
ReceiveStateTransfer == Receive("stateTransfer", HandleStateTransfer)

Expire(name, r, t) ==
    /\ rep[r].status # "crashed" /\ r \notin scenario.down /\ name \in scenario.timers
    /\ Step(r, t)
    /\ rep'[r] # rep[r] \/ msgs' # msgs

ResendPrepareTimeout(r) == rep[r].resends /\ Expire("resendPrepare", r, ResendPrepare(rep[r]))
StateTransferTimeout(r) ==
    Expire("stateTransfer", r, [rep[r] EXCEPT !.lastRequestStateTransferOpnum = 0])

Invoke(c) ==
    /\ ~client[c].pending /\ client[c].lastReqId < MaxReq
    /\ client' = [client EXCEPT ![c].lastReqId = @ + 1, ![c].pending = TRUE]
    /\ msgs' = Effective(msgs \cup {[type |-> "request", to |-> Replicas,
                             req |-> [client |-> c, id |-> client[c].lastReqId + 1]]},
                         rep, client')
    /\ UNCHANGED <<rep, scenario>>

HandleReply(c) ==
    \E m \in {x \in msgs : x.type = "reply"} :
        /\ client[c].pending /\ m.req = [client |-> c, id |-> client[c].lastReqId]
        /\ client' = [client EXCEPT ![c].pending = FALSE, ![c].done = @ \cup {m}]
        /\ msgs' = Effective(msgs, rep, client')
        /\ UNCHANGED <<rep, scenario>>

Next ==
    \/ ReceiveRequest \/ ReceivePrepare \/ ReceivePrepareOK \/ ReceiveCommit
    \/ ReceiveRequestStateTransfer \/ ReceiveStateTransfer
    \/ \E r \in Replicas : ResendPrepareTimeout(r) \/ StateTransferTimeout(r)
    \/ \E c \in Clients : Invoke(c) \/ HandleReply(c)

Spec == Init /\ [][Next]_vars

-----------------------------------------------------------------------------
\* Replicas commit one sequence of requests, whichever mixture of fast path, slow
\* path, COMMIT and state transfer each of them followed.
CommittedAgree ==
    \A r1, r2 \in Replicas :
        \A op \in 1 .. Min({rep[r1].lastCommitted, rep[r2].lastCommitted}) :
            rep[r1].log[op] = rep[r2].log[op]

\* What the leader committed last is under the same number in the logs of a
\* quorum, and no later PREPARE, COMMIT or state transfer replaces it there.
LastCommittedIsHeld ==
    LET op == rep[Leader].lastCommitted IN
    op # 0 => Cardinality({r \in Replicas : /\ Found(rep[r].log, op)
                                            /\ rep[r].log[op] = rep[Leader].log[op]})
                 >= QuorumSize

\* No ASSERT fails and no RPanic is reached.
NoFault == \A r \in Replicas : rep[r].status # "crashed"

=============================================================================
