----------------------------- MODULE SpecPaxos -----------------------------
(***************************************************************************)
(* The Speculative Paxos replica and client of replication/spec.  Clients  *)
(* multicast their requests; every replica executes them at once in the    *)
(* order it receives them and answers with the hash of its log.  A client  *)
(* whose replies match is done; the leader commits a prefix when a fast    *)
(* quorum confirms its hash (SYNC), and a view change merges diverging     *)
(* logs and rolls the speculation back.                                    *)
(*                                                                         *)
(* A handler is an operator on the record of its replica (module           *)
(* Handlers).  The network loses, duplicates and reorders messages: a      *)
(* message stays in msgs once sent, so resending adds no behaviour.  The   *)
(* hash of an entry covers the requests up to it and not their views       *)
(* (Log::ComputeHash): it is modelled as the sequence of those requests.   *)
(* The state of the application is that sequence too: an entry's log state *)
(* is COMMITTED exactly up to lastCommitted.  The timers that run follow   *)
(* from the state: syncTimeout and failedSyncTimeout at a normal leader,   *)
(* viewChangeTimeout everywhere else.  The code under PARANOID is not      *)
(* compiled by the Makefile; some of its checks are properties here.       *)
(***************************************************************************)
EXTENDS Handlers, Log, SequencesExt

CONSTANTS
  N,             \* configuration.n
  F,             \* configuration.f
  Clients,       \* the clients
  SyncRequests,  \* SYNC_TIMEOUT_REQUESTS
  MaxReq,        \* bound: requests one client invokes
  Scenarios      \* what may happen: [timers, down, lost, maxView, fudge];
                 \* fudge is DVC_FUDGE, how many entries before the last a view
                 \* change message carries (25, more than any log here, or less,
                 \* for logs that are longer than that); <<x, r>> is
                 \* in lost if no message of type x, or request of client x, reaches r

Replicas == 0 .. N - 1

VARIABLES
  rep,      \* rep[r]: the fields of the SpecReplica object of replica r
  client,   \* client[c]: last request, whether it is pending, those completed
  msgs,     \* every message ever sent
  scenario  \* the member of Scenarios of this behaviour

vars == <<rep, client, msgs, scenario>>

QuorumSize == F + 1
FastQuorumSize == F + (F + 1) \div 2 + 1

GetLeaderIndex(view) == view % N
AmLeader(s) == GetLeaderIndex(s.view) = s.id
Others(s) == Replicas \ {s.id}

\* ComputeHash along the log, up to op.
Hash(log, op) == [k \in 1 .. op |-> log[k].req]

\* Log::Dump of the entries from op on.
DumpLog(s, from) ==
    LET first == Max({from, 1}) IN
    [k \in 1 .. Len(s.log) - first + 1 |->
        LET op == first + k - 1 IN
        [op |-> op, view |-> s.log[op].view, req |-> s.log[op].req,
         committed |-> op <= s.lastCommitted, hash |-> Hash(s.log, op)]]

\* Where the log that a view change message carries begins.
DumpStart(s) == IF s.lastSpeculative > scenario.fudge THEN s.lastSpeculative - scenario.fudge ELSE 1

FirstOp(entries) == entries[1].op
EntryAt(entries, op) == entries[op - FirstOp(entries) + 1]
HasEntry(entries, op) == entries # << >> /\ op \in FirstOp(entries) .. Last(entries).op

\* The reply kept with a log entry.  (sentIn, the view of the replica, is not in
\* the message: it is there for CompletedIsKept.)
Reply(s, op) ==
    [type |-> "reply", to |-> {}, from |-> s.id, req |-> s.log[op].req,
     view |-> s.log[op].view, op |-> op, hash |-> Hash(s.log, op), sentIn |-> s.view,
     committed |-> op <= s.lastCommitted]

CommitUpTo(s, upto) ==
    IF upto <= s.lastCommitted THEN s
    ELSE IF ~Found(s.log, upto) THEN Crash(s, "CommitUpTo")
    ELSE [s EXCEPT !.lastCommitted = upto]

\* One round of RollbackTo's loop: the client table entry goes back to the
\* request of the same client before this one.
UndoClient(s, op) ==
    LET e == s.log[op]
        c == e.req.client
    IN  IF s.clientTable[c].op # op THEN Crash(s, "RollbackTo")
        ELSE [s EXCEPT !.clientTable[c] =
                [op |-> e.prev, id |-> IF e.prev = 0 THEN 0 ELSE s.log[e.prev].req.id]]

\* Mutant: the client table is not rolled back.
RollbackToKeeps(s, backto) ==
    IF backto >= s.lastSpeculative THEN s
    ELSE [s EXCEPT !.log = RemoveAfter(@, backto + 1), !.lastSpeculative = backto]

RollbackTo(s, backto) ==
    IF backto >= s.lastSpeculative THEN s
    ELSE IF backto < s.lastCommitted THEN Crash(s, "RollbackTo")
    ELSE Then(FoldLeft(LAMBDA t, op : Then(t, LAMBDA u : UndoClient(u, op)),
                       s, Reverse(Interval(backto + 1, s.lastSpeculative))),
              LAMBDA t : [t EXCEPT !.log = RemoveAfter(@, backto + 1),
                                   !.lastSpeculative = backto])

\* Append an entry, execute it and update the client table.
Speculate(s, view, req) ==
    LET op  == s.lastSpeculative + 1
        old == s.clientTable[req.client]
    IN  IF ~MayAppend(s.log, op) \/ old.id > req.id THEN Crash(s, "Speculate")
        ELSE [s EXCEPT !.lastSpeculative = op,
                       !.log = Append(@, [view |-> view, req |-> req, prev |-> old.op]),
                       !.clientTable[req.client] =
                          IF old.id = req.id THEN @ ELSE [id |-> req.id, op |-> op]]

-----------------------------------------------------------------------------
\* Synchronisation.

SendSync(s) ==
    IF ~AmLeader(s) \/ s.status # "normal" THEN Crash(s, "SendSync")
    ELSE Send([s EXCEPT !.lastSync = s.lastSpeculative],
              [type |-> "sync", to |-> Others(s), view |-> s.view,
               lastCommitted |-> s.lastCommitted,
               hash |-> Hash(s.log, s.lastCommitted),
               lastSpeculative |-> s.lastSpeculative])

SendSyncReply(s, op) ==
    IF op # 0 /\ ~Found(s.log, op) THEN Crash(s, "SendSyncReply")
    ELSE Send(s, [type |-> "syncReply", to |-> {GetLeaderIndex(s.view)},
                  from |-> s.id, view |-> s.view, op |-> op,
                  hash |-> Hash(s.log, op)])

\* HandleRequest of a request that is not a duplicate, in normal status.
Accept(s, req) ==
    Then(Then(Speculate(s, s.view, req), LAMBDA t :
              LET u == Send(t, Reply(t, t.lastSpeculative)) IN
              IF u.lastSpeculative = u.pendingSync
              THEN SendSyncReply(u, u.pendingSync) ELSE u),
         LAMBDA t : IF AmLeader(t) /\ t.lastSpeculative >= t.lastSync + SyncRequests
                    THEN SendSync(t) ELSE t)

\* A request received again in the meantime is one that the list already holds:
\* the copies only repeat the reply.
HandleRequest(s, m) ==
    LET known == s.clientTable[m.req.client]
        t == [s EXCEPT !.addresses = @ \cup {m.req.client}]
    IN  IF m.req.id < known.id THEN t
        ELSE IF m.req.id = known.id
        THEN IF Found(s.log, known.op) THEN Send(t, Reply(t, known.op))
                                       ELSE Crash(t, "HandleRequest")
        ELSE IF s.status # "normal"
        THEN [t EXCEPT !.pending = IF Contains(@, m.req) THEN @ ELSE Append(@, m.req)]
        ELSE Accept(t, m.req)

StartViewChange(s, view) ==
    Send([s EXCEPT !.view = view, !.status = "viewChange",
                   !.startViewChanges = {}, !.doViewChanges = {}],
         [type |-> "startViewChange", to |-> Others(s), from |-> s.id,
          view |-> view, lastCommitted |-> s.lastCommitted])

HandleSync(s, m) ==
    IF s.status # "normal" \/ m.view < s.view THEN s
    ELSE IF m.view > s.view THEN StartViewChange(s, m.view + 1)
    ELSE IF AmLeader(s) THEN Crash(s, "HandleSync")
    ELSE IF m.lastCommitted > s.lastSpeculative THEN StartViewChange(s, s.view + 1)
    ELSE IF /\ m.lastCommitted > s.lastCommitted
            /\ Hash(s.log, m.lastCommitted) # m.hash
    THEN StartViewChange(s, s.view + 1)
    ELSE Then(CommitUpTo(s, m.lastCommitted), LAMBDA t :
              IF m.lastSpeculative > t.lastSpeculative
              THEN [t EXCEPT !.pendingSync = m.lastSpeculative]
              ELSE SendSyncReply(t, m.lastSpeculative))

\* The hashes that a fast quorum, this replica included, has for op.
MatchingHashes(s, op, replies) ==
    LET hashes == replies \cup {[from |-> s.id, hash |-> Hash(s.log, op)]} IN
    {h \in {x.hash : x \in hashes} :
        Cardinality({x \in hashes : x.hash = h}) >= FastQuorumSize}

HandleSyncReply(s, m) ==
    IF s.status # "normal" \/ m.view < s.view THEN s
    ELSE IF m.view > s.view \/ ~AmLeader(s) \/ m.op > s.lastSpeculative
    THEN Crash(s, "HandleSyncReply")
    ELSE LET t == [s EXCEPT !.syncReplies =
                     {x \in @ : ~(x.op = m.op /\ x.from = m.from)}
                        \cup {[op |-> m.op, from |-> m.from, hash |-> m.hash]}]
             replies == {[from |-> x.from, hash |-> x.hash] :
                            x \in {y \in t.syncReplies : y.op = m.op}}
             match == MatchingHashes(s, m.op, replies)
         IN  IF Cardinality(replies) < FastQuorumSize - 1 \/ m.op <= s.lastCommitted
             THEN t
             ELSE IF match = {} THEN StartViewChange(t, t.view + 1)
             ELSE CommitUpTo(IF Hash(s.log, m.op) \in match THEN t
                             ELSE StartViewChange(t, t.view + 1), m.op)

-----------------------------------------------------------------------------
\* View changes.

EnterView(s, view) ==
    LET t == [s EXCEPT !.view = view, !.status = "normal",
                       !.lastSync = IF GetLeaderIndex(view) = s.id
                                    THEN s.lastCommitted ELSE @,
                       !.syncReplies = {}, !.startViewChanges = {},
                       !.doViewChanges = {}, !.inViews = {}, !.pendingSync = 0,
                       !.pending = << >>]
    IN  FoldLeft(LAMBDA u, req : Then(u, LAMBDA v : HandleRequest(v, [req |-> req])),
                 t, s.pending)

HandleRequestViewChange(s, m) ==
    IF m.view # s.view THEN s ELSE StartViewChange(s, s.view + 1)

DoViewChangeMessage(s, from) ==
    [type |-> "doViewChange", to |-> {GetLeaderIndex(s.view)}, from |-> s.id,
     view |-> s.view, lastNormalView |-> LastViewstamp(s.log).view,
     lastSpeculative |-> s.lastSpeculative, lastCommitted |-> s.lastCommitted,
     entries |-> DumpLog(s, from)]

\* A message about a view this replica has left or has already entered.
Stale(s, m) == m.view < s.view \/ (m.view = s.view /\ s.status # "viewChange")

Join(s, m) ==
    IF s.status # "viewChange" \/ m.view > s.view THEN StartViewChange(s, m.view) ELSE s

HandleStartViewChange(s, m) ==
    IF Stale(s, m) THEN s
    ELSE With([Join(s, m) EXCEPT !.startViewChanges = Store(@, m)], LAMBDA t :
         LET leader == GetLeaderIndex(t.view)
             SendDoViewChange(u, dvc) ==
                 IF leader = s.id THEN [u EXCEPT !.doViewChanges = Store(@, dvc)] ELSE Send(u, dvc)
         IN  IF \/ Cardinality(t.startViewChanges) < QuorumSize - 1
                \/ t.sentDoViewChange = m.view
                \/ leader # s.id /\ ~\E x \in t.startViewChanges : x.from = leader
             THEN t
             ELSE SendDoViewChange([t EXCEPT !.sentDoViewChange = m.view],
                                   DoViewChangeMessage(t, DumpStart(t))))

\* The logs of the highest view, in the order of the replicas.
LatestMessages(dvcs) ==
    LET latest == Max({m.lastNormalView : m \in dvcs}) IN
    SetToSortSeq({m \in dvcs : m.lastNormalView = latest},
                 LAMBDA x, y : x.from < y.from)

\* Add the entries of the latest logs that enough of them agree on, from the
\* operation after those in log on; stop at the first without.
RECURSIVE AddMatching(_, _, _)
AddMatching(log, next, latest) ==
    LET having == {k \in DOMAIN latest : latest[k].lastSpeculative >= next}
        Entry(k) == EntryAt(latest[k].entries, next)
        needed == Min({FastQuorumSize - F, Len(latest)})
        agreed == {k \in having :
                     Cardinality({j \in having : Entry(j).hash = Entry(k).hash}) >= needed}
        e == Entry(Min(agreed))
    IN  IF agreed = {} THEN log
        ELSE AddMatching(Append(log, [op |-> next, view |-> e.view, req |-> e.req,
                                      committed |-> FALSE, hash |-> e.hash]),
                         next + 1, latest)

\* Add what is speculative in one of the latest logs and not in the new one.
AddLeftOver(log, e, view) ==
    IF \E k \in DOMAIN log : log[k].req = e.req THEN log
    ELSE LET hash == IF log = << >> THEN << >> ELSE Last(log).hash
             op == IF log = << >> THEN 1 ELSE Last(log).op + 1
         IN  Append(log, [op |-> op, view |-> view, req |-> e.req, committed |-> FALSE,
                          hash |-> Append(hash, e.req)])

LeftOvers(m, maxStart) ==
    LET from == Max({m.lastCommitted + 1, maxStart, 1}) IN
    [k \in 1 .. m.lastSpeculative - from + 1 |-> EntryAt(m.entries, from + k - 1)]

MostCommitted(latest) ==
    latest[Min({k \in DOMAIN latest :
                  \A j \in DOMAIN latest :
                     latest[j].lastCommitted <= latest[k].lastCommitted})]

\* The committed entries of the log with most of them, from maxStart on.
CommittedPart(latest, maxStart) ==
    SelectSeq(MostCommitted(latest).entries, LAMBDA e :
                e.op >= maxStart /\ e.op <= MostCommitted(latest).lastCommitted)

FirstUncommitted(latest, maxStart) ==
    LET committed == CommittedPart(latest, maxStart) IN
    Max({maxStart, IF committed = << >> THEN 1 ELSE Last(committed).op + 1})

\* Does MergeLogs only look at entries that the messages carry?
Mergeable(latest, maxStart) ==
    \A k \in DOMAIN latest :
        LET from == Min({FirstUncommitted(latest, maxStart),
                         Max({latest[k].lastCommitted + 1, maxStart})}) IN
        latest[k].lastSpeculative >= from => HasEntry(latest[k].entries, from)

MergeLogs(dvcs, view, maxStart) ==
    With(LatestMessages(dvcs), LAMBDA latest :
         FoldLeft(LAMBDA log, m :
                    FoldLeft(LAMBDA l, e : AddLeftOver(l, e, view), log,
                             LeftOvers(m, maxStart)),
                  AddMatching(CommittedPart(latest, maxStart),
                              FirstUncommitted(latest, maxStart), latest),
                  latest))

\* The last operation up to which the log from op on has the hashes of entries.
RECURSIVE LastEqual(_, _, _, _)
LastEqual(s, entries, op, upto) ==
    IF op > upto \/ op > s.lastSpeculative \/ Hash(s.log, op) # EntryAt(entries, op).hash
    THEN op - 1
    ELSE LastEqual(s, entries, op + 1, upto)

\* Execute one entry of the new log, and answer the client if its address is
\* known.
InstallEntry(s, e) ==
    Then(Speculate(s, e.view, e.req), LAMBDA t :
         IF Hash(t.log, e.op) # e.hash THEN Crash(t, "InstallLog")
         ELSE IF e.req.client \in t.addresses
         THEN Send(t, [Reply(t, e.op) EXCEPT !.committed = e.committed])
         ELSE t)

InstallLog(s, entries) ==
    LET start == IF entries = << >> THEN 0 ELSE FirstOp(entries)
        newLast == IF entries = << >> THEN 0 ELSE Last(entries).op
        marked == Max({0} \cup {entries[k].op : k \in {j \in DOMAIN entries :
                                                        entries[j].committed}})
        newCommitted == Max({marked, s.lastCommitted})
        from == Max({s.lastCommitted + 1, start})
        equal == LastEqual(s, entries, from, newCommitted)
    IN  IF newLast < s.lastCommitted THEN Crash(s, "InstallLog")
        ELSE Then(IF equal >= start THEN CommitUpTo(s, equal) ELSE s, LAMBDA t :
             Then(RollbackTo(t, LastEqual(t, entries, Max({t.lastCommitted + 1, start}),
                                          newLast)), LAMBDA u :
                  IF newLast > u.lastSpeculative /\ start > u.lastSpeculative + 1
                  THEN Crash(u, "InstallLog")
                  ELSE Then(FoldLeft(LAMBDA v, op : Then(v, LAMBDA w :
                                       InstallEntry(w, EntryAt(entries, op))),
                                     u, Interval(u.lastSpeculative + 1, newLast)),
                            LAMBDA v : CommitUpTo(v, newCommitted))))

SendFillDVCGap(s, to) ==
    Send(s, [type |-> "fillDVCGap", to |-> to, view |-> s.view,
             lastCommitted |-> s.lastCommitted])

\* The default-constructed message that NeedFillDVCGap keeps under the leader's own
\* index when its doViewChanges hold none of its own: an empty log of view 0.  It
\* counts to the quorum and is merged.  (No StartViewChange may have come by then: what
\* min_element of none reads, replica.cc:1432, is overwritten before it is used.)
EmptyDoViewChange(s) ==
    [type |-> "doViewChange", to |-> {GetLeaderIndex(s.view)}, from |-> s.id,
     view |-> 0, lastNormalView |-> 0, lastSpeculative |-> 0, lastCommitted |-> 0,
     entries |-> << >>]

\* Ask the others for longer logs, and keep this replica's own or, if there is none, an
\* empty one.
NeedFillDVCGap(s) ==
    LET own == {m \in s.doViewChanges : m.from = s.id} IN
    SendFillDVCGap([s EXCEPT !.doViewChanges = IF own = {} THEN {EmptyDoViewChange(s)} ELSE own,
                             !.needFillDVC = s.view],
                   {m.from : m \in s.doViewChanges \ own})

StartViewMessage(s, from, to) ==
    [type |-> "startView", to |-> to, view |-> s.view, from |-> s.id,
     lastSpeculative |-> s.lastSpeculative, lastCommitted |-> s.lastCommitted,
     entries |-> DumpLog(s, from)]

\* A quorum of logs: merge, install, and start the view.
StartView(s, maxStart) ==
    IF Cardinality(s.doViewChanges) < QuorumSize THEN s
    ELSE IF \/ maxStart > s.lastSpeculative
            \/ ~Mergeable(LatestMessages(s.doViewChanges), maxStart)
    THEN Crash(s, "MergeLogs")
    ELSE Then(InstallLog(s, MergeLogs(s.doViewChanges, s.view, maxStart)), LAMBDA t :
              LET from == DumpStart(t) IN
              Then(EnterView(t, t.view), LAMBDA u :
                   Send(u, StartViewMessage(u, from, Others(u)))))

\* Do the logs received agree with this replica's at the operation where the
\* shortest of them begins?
LogsMeet(s, maxStart) ==
    \A m \in {x \in s.doViewChanges : x.entries # << >>} :
        /\ m.lastSpeculative >= maxStart
        /\ EntryAt(m.entries, maxStart).hash = Hash(s.log, maxStart)

HandleDoViewChange(s, m) ==
    IF Stale(s, m) THEN s
    ELSE IF GetLeaderIndex(m.view) # s.id THEN Crash(s, "HandleDoViewChange")
    ELSE With(Join(s, m), LAMBDA t :
         With([t EXCEPT !.doViewChanges = Store(@, m)], LAMBDA u :
         LET first == IF m.entries = << >> THEN 0 ELSE FirstOp(m.entries)
             Merge(maxStart) ==
                 IF maxStart > u.lastSpeculative \/ (maxStart > 0 /\ ~LogsMeet(u, maxStart))
                 THEN NeedFillDVCGap(u) ELSE StartView(u, maxStart)
         IN  IF t.needFillDVC = m.view
             THEN IF /\ first # 0
                     /\ ~(t.lastCommitted = 0 /\ first = 1)
                     /\ first > t.lastCommitted \/ first > m.lastCommitted
                  THEN SendFillDVCGap(t, {m.from})
                  ELSE StartView(u, 0)
             ELSE Merge(Max({0} \cup {FirstOp(x.entries) :
                               x \in {y \in u.doViewChanges : y.entries # << >>}}))))

HandleStartView(s, m) ==
    LET start == IF m.entries = << >> THEN 0 ELSE FirstOp(m.entries) IN
    IF Stale(s, m) THEN s
    ELSE IF GetLeaderIndex(m.view) = s.id THEN Crash(s, "HandleStartView")
    ELSE IF /\ start > s.lastCommitted + 1
            /\ start > s.lastSpeculative \/ m.entries[1].hash # Hash(s.log, start)
    THEN Send(s, [type |-> "fillLogGap", to |-> {m.from}, from |-> s.id,
                  view |-> m.view, lastCommitted |-> s.lastCommitted])
    ELSE Then(Then(InstallLog(s, m.entries), LAMBDA t : CommitUpTo(t, m.lastCommitted)),
              LAMBDA t :
                IF t.lastSpeculative # m.lastSpeculative \/ t.lastCommitted < m.lastCommitted
                THEN Crash(t, "HandleStartView")
                ELSE EnterView(Send(t, [type |-> "inView", to |-> {GetLeaderIndex(m.view)},
                                        from |-> s.id, view |-> m.view,
                                        op |-> m.lastSpeculative]), m.view))

HandleInView(s, m) ==
    IF m.view < s.view THEN s
    ELSE IF m.view > s.view \/ s.status # "normal" THEN Crash(s, "HandleInView")
    ELSE LET t == [s EXCEPT !.inViews = @ \cup {m.from}] IN
         IF Cardinality(t.inViews) < QuorumSize - 1 THEN t
         ELSE IF m.op > t.lastSpeculative THEN Crash(t, "HandleInView")
         ELSE IF m.op < t.lastCommitted THEN t
         ELSE Then(CommitUpTo(t, m.op), SendSync)

HandleFillLogGap(s, m) ==
    IF m.view # s.view THEN s
    ELSE IF ~AmLeader(s) THEN Crash(s, "HandleFillLogGap")
    ELSE Send(s, StartViewMessage(s, m.lastCommitted, {m.from}))

HandleFillDVCGap(s, m) ==
    IF m.view # s.view THEN s
    ELSE IF AmLeader(s) THEN Crash(s, "HandleFillDVCGap")
    ELSE Send(s, DoViewChangeMessage(s, Min({s.lastCommitted, m.lastCommitted})))

-----------------------------------------------------------------------------
Fresh(r) ==
    [id |-> r, status |-> "normal", fault |-> "", out |-> {}, view |-> 0,
     log |-> << >>, lastSpeculative |-> 0, lastCommitted |-> 0, lastSync |-> 0,
     pendingSync |-> 0, sentDoViewChange |-> 0, needFillDVC |-> 0,
     addresses |-> {}, clientTable |-> [c \in Clients |-> [id |-> 0, op |-> 0]],
     pending |-> << >>, syncReplies |-> {}, startViewChanges |-> {},
     doViewChanges |-> {}, inViews |-> {}]

FreshClient == [lastReqId |-> 0, pending |-> FALSE, fault |-> FALSE, done |-> {}]

Init ==
    /\ rep = [r \in Replicas |-> Fresh(r)]
    /\ client = [c \in Clients |-> FreshClient]
    /\ msgs = {}
    /\ scenario \in Scenarios

Up(r) == rep[r].status # "crashed" /\ r \notin scenario.down

\* The messages that can still have an effect: a client ignores a reply to a
\* request that is not pending, every handler ignores a message of a view that its
\* replica has left.  The others are dropped, which keeps the state space small.
Effective(sent, reps, clients) ==
    {m \in sent :
        CASE m.type = "request" -> TRUE
          [] m.type = "reply" -> clients[m.req.client].pending
          [] OTHER -> \E r \in m.to \ scenario.down :
                         <<m.type, r>> \notin scenario.lost /\ m.view >= reps[r].view}

Step(r, t) ==
    /\ t.view <= scenario.maxView
    /\ rep' = [rep EXCEPT ![r] = [t EXCEPT !.out = {}]]
    /\ msgs' = Effective(msgs \cup t.out, rep', client)
    /\ UNCHANGED <<client, scenario>>

Receive(type, Handler(_, _)) ==
    \E m \in {x \in msgs : x.type = type} : \E r \in m.to :
        /\ Up(r) /\ <<type, r>> \notin scenario.lost
        /\ type = "request" => <<m.req.client, r>> \notin scenario.lost
        /\ Step(r, Handler(rep[r], m))
        /\ rep'[r] # rep[r] \/ msgs' # msgs

ReceiveRequest == Receive("request", HandleRequest)
ReceiveSync == Receive("sync", HandleSync)
ReceiveSyncReply == Receive("syncReply", HandleSyncReply)
ReceiveRequestViewChange == Receive("requestViewChange", HandleRequestViewChange)
ReceiveStartViewChange == Receive("startViewChange", HandleStartViewChange)
ReceiveDoViewChange == Receive("doViewChange", HandleDoViewChange)
ReceiveStartView == Receive("startView", HandleStartView)
ReceiveInView == Receive("inView", HandleInView)
ReceiveFillLogGap == Receive("fillLogGap", HandleFillLogGap)
ReceiveFillDVCGap == Receive("fillDVCGap", HandleFillDVCGap)

Expire(name, Runs(_), Callback(_)) ==
    \E r \in Replicas :
        /\ Up(r) /\ <<name, r>> \in scenario.timers /\ Runs(rep[r])
        /\ Step(r, Callback(rep[r]))
        /\ rep'[r] # rep[r] \/ msgs' # msgs

NormalLeader(s) == s.status = "normal" /\ AmLeader(s)
NextView(s) == StartViewChange(s, s.view + 1)

SyncTimeout == Expire("sync", NormalLeader, SendSync)
FailedSyncTimeout == Expire("failedSync", NormalLeader, NextView)
ViewChangeTimeout == Expire("viewChange", LAMBDA s : ~NormalLeader(s), NextView)

-----------------------------------------------------------------------------
\* The client.

Invoke(c) ==
    /\ ~client[c].pending /\ client[c].lastReqId < MaxReq
    /\ client' = [client EXCEPT ![c].lastReqId = @ + 1, ![c].pending = TRUE]
    /\ msgs' = msgs \cup {[type |-> "request", to |-> Replicas,
                           req |-> [client |-> c, id |-> client[c].lastReqId + 1]]}
    /\ UNCHANGED <<rep, scenario>>

Replies(c) ==
    {m \in msgs : /\ m.type = "reply" /\ client[c].pending /\ ~client[c].fault
                  /\ m.req = [client |-> c, id |-> client[c].lastReqId]}

\* CompleteOperation; done remembers what completed, and the latest view in which
\* one of the replies was sent.
Complete(c, replies) ==
    LET m == CHOOSE x \in replies : \A y \in replies : y.sentIn <= x.sentIn IN
    [client EXCEPT ![c].pending = FALSE,
                   ![c].done = @ \cup {[req |-> m.req, op |-> m.op, view |-> m.sentIn]}]

\* HandleReply, a reply that says the operation is committed.
HandleCommittedReply(c) ==
    /\ \E m \in Replies(c) : m.committed /\ client' = Complete(c, {m})
    /\ msgs' = Effective(msgs, rep, client')
    /\ UNCHANGED <<rep, scenario>>

\* HandleReply, the last of a quorum of speculative replies.  The quorum set may
\* hold any of those sent, one of a replica: those of an older view than the
\* client's are accepted, and replicas repeat their replies when the request is
\* resent.  Replies with one hash are asserted to agree on the view and the
\* operation number.
HandleReply(c) ==
    /\ \E stored \in {x \in SUBSET {m \in Replies(c) : ~m.committed} :
                        /\ Cardinality(x) >= FastQuorumSize
                        /\ \A y, z \in x : y.from = z.from => y = z} :
       \E m \in stored :
         LET match == {x \in stored : x.hash = m.hash} IN
         IF \E x \in match : x.view # m.view \/ x.op # m.op
         THEN client' = [client EXCEPT ![c].fault = TRUE] /\ msgs' = msgs
         ELSE IF Cardinality(match) >= FastQuorumSize
         THEN /\ client' = Complete(c, match)
              /\ msgs' = Effective(msgs, rep, client')
         ELSE /\ client' = client
              /\ msgs' = Effective(msgs \cup {[type |-> "requestViewChange",
                                               to |-> Replicas, view |-> m.view]},
                                   rep, client)
    /\ client' # client \/ msgs' # msgs
    /\ UNCHANGED <<rep, scenario>>

Next ==
    \/ ReceiveRequest \/ ReceiveSync \/ ReceiveSyncReply
    \/ ReceiveRequestViewChange \/ ReceiveStartViewChange
    \/ ReceiveDoViewChange \/ ReceiveStartView \/ ReceiveInView
    \/ ReceiveFillLogGap \/ ReceiveFillDVCGap
    \/ SyncTimeout \/ FailedSyncTimeout \/ ViewChangeTimeout
    \/ \E c \in Clients : Invoke(c) \/ HandleCommittedReply(c) \/ HandleReply(c)

Spec == Init /\ [][Next]_vars

-----------------------------------------------------------------------------
\* Two replicas never commit different requests under one operation number,
\* whether SYNC, IN-VIEW or the merged log commits them.
CommittedAgree ==
    \A r1, r2 \in Replicas :
        \A op \in 1 .. Min({rep[r1].lastCommitted, rep[r2].lastCommitted}) :
            rep[r1].log[op].req = rep[r2].log[op].req

\* An operation that its client has seen complete, by a fast quorum of matching
\* speculative replies or by a committed one, keeps its number in the log of
\* every later leader: it is never rolled back.
CompletedIsKept ==
    \A c \in Clients : \A d \in client[c].done : \A r \in Replicas :
        (NormalLeader(rep[r]) /\ rep[r].view >= d.view) =>
            Found(rep[r].log, d.op) /\ rep[r].log[d.op].req = d.req

\* The client table follows the log through every rollback: it names the last
\* request of the client in the log.
ClientTableFollowsLog ==
    \A r \in Replicas : rep[r].status # "crashed" => \A c \in Clients :
        LET mine == {op \in DOMAIN rep[r].log : rep[r].log[op].req.client = c} IN
        rep[r].clientTable[c].op = Max({0} \cup mine)

\* No ASSERT of a replica fails, no RPanic is reached and no index is out of range
\* as long as view change messages carry the whole log.  (With longer logs a leader
\* that has asked for longer messages keeps its own, short one, and MergeLogs looks
\* for entries it does not carry.)
NoReplicaFault ==
    \A r \in Replicas : rep[r].status = "crashed" =>
        rep[r].fault = "MergeLogs" /\ rep[r].needFillDVC # 0 /\ scenario.fudge < rep[r].lastSpeculative
=============================================================================
