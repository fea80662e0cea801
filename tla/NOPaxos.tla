------------------------------ MODULE NOPaxos ------------------------------
(***************************************************************************)
(* The NOPaxos replica and client of replication/nopaxos, and the          *)
(* sequencer that stamps a client request with a session number and a      *)
(* message number before it is multicast.  The replicas fill their logs in *)
(* the order of the stamps; a missing stamp starts the gap protocol, the   *)
(* leader synchronises the logs from time to time, and a new session or a  *)
(* silent leader starts a view change.                                     *)
(*                                                                         *)
(* The state of one replica object is one record of rep (module Handlers   *)
(* says how handlers are written).  The network loses, duplicates and      *)
(* reorders messages: a message stays in msgs once sent.  The timeouts     *)
(* that only repeat a message (gapCommitTimeout, startViewTimeout, and     *)
(* gapRequestTimeout at a follower) therefore add no behaviour and only    *)
(* their being active is kept, in timers.  Unlogged requests go to the     *)
(* application and touch no replica state: they are left out.              *)
(***************************************************************************)
EXTENDS Handlers, Log, SequencesExt

CONSTANTS
  N,          \* configuration.n: the replicas are 0 .. N-1
  F,          \* configuration.f: QuorumSize() is F + 1
  Clients,    \* the clients
  Scenarios,  \* what may happen: [timers, down, maxSess, maxView, maxMsg]
  MaxReq,     \* bound: requests one client invokes
  MaxTransfer \* MAX_SYNC_TRANSFER_OPS

Replicas == 0 .. N - 1

VARIABLES
  rep,      \* rep[r]: the fields of the NOPaxosReplica object of replica r
  client,   \* client[c]: whether a request is in progress, and those completed
  seq,      \* the sequencer's sess_num_ and msg_num_
  msgs,     \* every message ever sent
  scenario  \* the member of Scenarios of this behaviour

vars == <<rep, client, seq, msgs, scenario>>

GetLeaderIndex(view) == view % N
AmLeader(s) == GetLeaderIndex(s.view) = s.id
Others(s) == Replicas \ {s.id}

\* A log entry: its viewstamp, the request, and LOG_STATE_NOOP or RECEIVED.
NoReq == [client |-> "none", id |-> 0]
LogEntry(s, req, noop) ==
    [view |-> s.view, sess |-> s.sessnum, msg |-> s.nextMsgnum, req |-> req,
     noop |-> noop]
LastSession(s) == IF s.log = << >> THEN 0 ELSE Last(s.log).sess
LastMsgnum(log) == IF log = << >> THEN 0 ELSE Last(log).msg

Reply(s, e, op, result) ==
    [type |-> "reply", to |-> {}, from |-> s.id, req |-> e.req, view |-> e.view,
     sess |-> e.sess, op |-> op, result |-> result]

Msg(s, type, to) ==
    [type |-> type, to |-> to, from |-> s.id, sess |-> s.sessnum, view |-> s.view]

ClearTimeoutAndQuorums(s) ==
    [s EXCEPT !.timers = {}, !.gapReplies = {}, !.gapCommits = {},
              !.viewChanges = {}, !.startViews = {}, !.syncReplies = {},
              !.syncPrepares = {}, !.syncCommits = {},
              !.transfer.begin = 0, !.transfer.end = 0]

-----------------------------------------------------------------------------
\* Execution and commitment.

\* One round of ExecuteUptoOp's loop.  The client table keeps the reply only at
\* a leader: elsewhere a duplicate is answered with an empty one.
ExecuteOp(s, op) ==
    IF ~Found(s.log, op) THEN Crash(s, "ExecuteUptoOp")
    ELSE LET e   == s.log[op]
             t   == [s EXCEPT !.lastExecutedOp = op]
             old == s.clientTable[e.req.client]
             Tell(u, result) == IF GetLeaderIndex(e.view) # s.id THEN u
                                ELSE Send(u, Reply(s, e, op, result))
         IN  IF e.noop \/ e.req.id < old.id THEN t
             ELSE IF e.req.id = old.id THEN Tell(t, old.result)
             ELSE Tell([t EXCEPT !.executed = Append(@, e.req),
                                 !.clientTable[e.req.client] =
                                     [id |-> e.req.id, result |-> AmLeader(s)]], TRUE)

ExecuteUptoOp(s, op) ==
    IF op > s.lastOp /\ op > s.lastExecutedOp THEN Crash(s, "ExecuteUptoOp")
    ELSE FoldLeft(LAMBDA t, k : Then(t, LAMBDA u : ExecuteOp(u, k)),
                  s, Interval(s.lastExecutedOp + 1, op))

SendSyncCommit(s, to) ==
    Send(s, Msg(s, "syncCommit", to) @@ [op |-> s.lastCommittedOp])

CommitUptoOp(s, op) ==
    IF op <= s.lastCommittedOp THEN s
    ELSE IF op > s.lastOp THEN Crash(s, "CommitUptoOp")
    ELSE LET t == [s EXCEPT !.lastCommittedOp = op] IN
         ExecuteUptoOp(IF AmLeader(s) THEN SendSyncCommit(t, Others(s)) ELSE t, op)

ProcessSyncPrepare(s, point) ==
    IF AmLeader(s) THEN Crash(s, "ProcessSyncPrepare")
    ELSE IF point \in s.syncCommits
    THEN Then(CommitUptoOp(s, point),
              LAMBDA t : [t EXCEPT !.syncPrepares = @ \ {point},
                                   !.syncCommits = @ \ {point}])
    ELSE Send(s, Msg(s, "syncPrepareReply", {GetLeaderIndex(s.view)})
                    @@ [op |-> point])

SendStartViewReply(s) ==
    IF AmLeader(s) \/ s.status = "viewChange" THEN Crash(s, "SendStartViewReply")
    ELSE Send(s, Msg(s, "startViewReply", {GetLeaderIndex(s.view)}))

StartViewMessage(s, to) ==
    Msg(s, "startView", to)
       @@ [lastNormalSessnum |-> s.startView.sess, gaps |-> s.startView.gaps,
           lastNormalView |-> s.startView.view, lastOp |-> s.startView.op]

EnterView(s, sess, view) ==
    IF sess < s.sessnum \/ view < s.view THEN Crash(s, "EnterView")
    ELSE LET t == ClearTimeoutAndQuorums(
                    [s EXCEPT !.nextMsgnum = IF sess > LastSession(s) THEN 1 ELSE @,
                              !.sessnum = sess, !.view = view,
                              !.lastNormalSessnum = sess, !.lastNormalView = view,
                              !.status = "normal"])
         IN  IF AmLeader(t)
             THEN Then(Then(ExecuteUptoOp(t, t.lastOp), LAMBDA u :
                            Require(u, u.leaderSync.op <= u.lastOp, "EnterView")),
                       LAMBDA u :
                         Send([u EXCEPT !.leaderSync = [op |-> u.lastOp,
                                                        gaps |-> u.committedGaps],
                                        !.timers = {"sync", "startView"}],
                              StartViewMessage(u, Others(u))))
             ELSE SendStartViewReply([t EXCEPT !.timers = {"leaderSyncHeard"},
                                               !.syncPrepares = {t.lastOp}])

\* stateTransferCallback: enter the view, or acknowledge the sync point.
StateTransferCallback(s) ==
    IF s.transfer.callback = "enterView" THEN EnterView(s, s.sessnum, s.view)
    ELSE ProcessSyncPrepare(s, s.transfer.end - 1)

-----------------------------------------------------------------------------
\* The log.

RECURSIVE ProcessNextOperation(_, _, _)
ProcessNextOperation(s, op, entry) ==
    IF op # s.lastOp + 1 \/ ~MayAppend(s.log, op)
    THEN Crash(s, "ProcessNextOperation")
    ELSE
    LET Extend(e) == [s EXCEPT !.lastOp = op, !.nextMsgnum = e.msg + 1,
                        !.log = Append(@, e),
                        !.timers = @ \ {"gapRequest"}, !.gapReplies = {},
                        !.committedGaps = IF e.noop THEN @ \cup {op} ELSE @]
        Answer(t, e) == IF e.noop THEN t
                        ELSE IF GetLeaderIndex(e.view) = s.id THEN ExecuteUptoOp(t, op)
                        ELSE Send(t, Reply(t, e, op, FALSE))
        EndTransfer(t) == IF op # t.transfer.end THEN t
                          ELSE StateTransferCallback(
                                 [t EXCEPT !.timers = @ \ {"stateTransfer"}])
        FillNext(t, e) == IF t.lastOp + 1 \notin t.committedGaps THEN t
                          ELSE ProcessNextOperation(t, t.lastOp + 1,
                                 [e EXCEPT !.msg = t.nextMsgnum, !.noop = TRUE])
    IN  With([entry EXCEPT !.noop = @ \/ op \in s.committedGaps], LAMBDA e :
             Then(Then(Answer(Extend(e), e), LAMBDA t : EndTransfer(t)),
                  LAMBDA t : FillNext(t, e)))

RewindLogToOpnum(s, op) ==
    IF op < s.lastCommittedOp \/ op < s.lastExecutedOp \/ op = 0
    THEN Crash(s, "RewindLogToOpnum")
    ELSE LET log == RemoveAfter(s.log, op) IN
         [s EXCEPT !.lastOp = op, !.log = log, !.nextMsgnum = LastMsgnum(log) + 1]

\* One round of InstallCommittedGaps' loop.
InstallGap(s, gap) ==
    IF gap \in s.committedGaps THEN s
    ELSE LET t == [s EXCEPT !.committedGaps = @ \cup {gap}]
             last == IF s.log = << >> THEN [view |-> 0, sess |-> 0]
                                      ELSE Last(s.log)
         IN  Then(IF t.lastOp + 1 = gap
                  THEN ProcessNextOperation(t, gap,
                         [view |-> last.view, sess |-> last.sess,
                          msg |-> t.nextMsgnum, req |-> NoReq, noop |-> TRUE])
                  ELSE t,
                  LAMBDA u :
                    IF u.lastOp < gap THEN u
                    ELSE IF ~Found(u.log, gap) THEN Crash(u, "InstallCommittedGaps")
                    ELSE IF u.log[gap].noop THEN u
                    ELSE IF u.lastCommittedOp >= gap \/ u.lastExecutedOp >= gap
                    THEN Crash(u, "InstallCommittedGaps")
                    ELSE [u EXCEPT !.log[gap].noop = TRUE])

InstallCommittedGaps(s, gaps) ==
    FoldLeft(LAMBDA t, gap : Then(t, LAMBDA u : InstallGap(u, gap)),
             s, SetToSortSeq(gaps, <))

-----------------------------------------------------------------------------
\* View changes: how one starts.

SendViewChange(s) ==
    LET t == Send(s, Msg(s, "viewChangeRequest", Others(s))) IN
    IF AmLeader(s) THEN t
    ELSE Send(t, Msg(s, "viewChange", {GetLeaderIndex(s.view)})
                   @@ [lastNormalSessnum |-> s.lastNormalSessnum,
                       lastNormalView |-> s.lastNormalView,
                       lastOp |-> s.lastOp, gaps |-> s.committedGaps])

StartViewChange(s, sess, view) ==
    IF sess <= s.sessnum /\ view <= s.view THEN Crash(s, "StartViewChange")
    ELSE LET newsess == Max({sess, s.sessnum}) IN
         SendViewChange(
           [ClearTimeoutAndQuorums(s) EXCEPT
              !.sessnum = newsess, !.view = Max({view, s.view}),
              !.nextMsgnum = IF newsess > LastSession(s) THEN 1 ELSE @,
              !.status = "viewChange", !.timers = {"viewChange"},
              !.committedGaps = {gap \in @ : gap <= s.lastOp}])

Older(s, m) == m.sess < s.sessnum \/ m.view < s.view
Newer(s, m) == m.sess > s.sessnum \/ m.view > s.view

\* CheckViewNumAndStatus, and the handler it guards.
Checked(s, m, Handler(_)) ==
    IF Older(s, m) THEN s
    ELSE IF Newer(s, m) THEN StartViewChange(s, m.sess, m.view)
    ELSE IF s.status = "viewChange" THEN s
    ELSE Handler(s)

SetTransfer(s, upto, idx, callback) ==
    [s EXCEPT !.transfer = [begin |-> s.lastOp + 1, end |-> upto + 1, idx |-> idx,
                            callback |-> callback]]

SendStateTransferRequest(s) ==
    Send([s EXCEPT !.timers = @ \cup {"stateTransfer"}],
         Msg(s, "stateTransferRequest", {s.transfer.idx})
           @@ [begin |-> s.transfer.begin, end |-> s.transfer.end])

-----------------------------------------------------------------------------
\* Client requests.

SendGapRequest(s) ==
    Send([s EXCEPT !.timers = @ \cup {"gapRequest"}],
         Msg(s, "gapRequest", IF AmLeader(s) THEN Others(s)
                                             ELSE {GetLeaderIndex(s.view)})
           @@ [op |-> s.lastOp + 1])

\* Does TryProcessClientRequest leave the request to be tried again?
Waits(s, m) ==
    \/ s.status # "normal"
    \/ m.sess > s.sessnum
    \/ m.sess = s.sessnum /\ m.msg > s.nextMsgnum

TryProcessClientRequest(s, m) ==
    IF s.status # "normal" \/ m.sess < s.sessnum THEN s
    ELSE IF m.sess > s.sessnum THEN StartViewChange(s, m.sess, s.view)
    ELSE IF m.msg < s.nextMsgnum THEN s
    ELSE IF m.msg > s.nextMsgnum
    THEN IF s.timers \cap {"gapRequest", "gapCommit"} = {} THEN SendGapRequest(s)
                                                         ELSE s
    ELSE ProcessNextOperation(s, s.lastOp + 1, LogEntry(s, m.req, FALSE))

\* AddPendingRequest compares with the state that TryProcess... leaves.
HandleClientRequest(s, m) ==
    LET waits == Waits(s, m) IN
    Then(TryProcessClientRequest(s, m), LAMBDA t :
         IF waits /\ m.sess >= t.sessnum /\ m.msg >= t.nextMsgnum
         THEN [t EXCEPT !.pending = @ \cup {[sess |-> m.sess, msg |-> m.msg,
                                             req |-> m.req]}]
         ELSE t)

\* The pending requests in the order of ComparePendingRequests; the code's list
\* may hold copies of one request, of which all but the first are discarded.
FirstPending(s) ==
    CHOOSE p \in s.pending : \A q \in s.pending :
        p.sess < q.sess \/ (p.sess = q.sess /\ p.msg <= q.msg)

RECURSIVE ProcessPendingRequests(_)
ProcessPendingRequests(s) ==
    IF s.status # "normal" \/ s.pending = {} THEN s
    ELSE LET p == FirstPending(s)
             waits == Waits(s, p)
         IN  Then(TryProcessClientRequest(s, p), LAMBDA t :
                  IF waits THEN t
                  ELSE ProcessPendingRequests([t EXCEPT !.pending = @ \ {p}]))

-----------------------------------------------------------------------------
\* Gap agreement.

HandleGapRequest(s, m) ==
    Checked(s, m, LAMBDA t :
      LET found == Found(t.log, m.op)
          Answer(isfound, isgap, req) ==
            Send(t, Msg(t, "gapReply", {m.from})
                      @@ [op |-> m.op, isfound |-> isfound, isgap |-> isgap,
                          req |-> req])
      IN  IF found /\ t.log[m.op].noop THEN Answer(TRUE, TRUE, NoReq)
          ELSE IF found THEN Answer(TRUE, FALSE, t.log[m.op].req)
          ELSE IF "gapRequest" \in t.timers /\ t.lastOp + 1 = m.op
          THEN Answer(FALSE, FALSE, NoReq)
          ELSE t)

SendGapCommit(s) ==
    IF ~AmLeader(s) \/ s.status # "gapCommit" THEN Crash(s, "SendGapCommit")
    ELSE Send([s EXCEPT !.timers = @ \cup {"gapCommit"}],
              Msg(s, "gapCommit", Others(s)) @@ [op |-> s.lastOp])

StartGapAgreement(s) ==
    IF ~AmLeader(s) THEN Crash(s, "StartGapAgreement")
    ELSE LET t == [s EXCEPT !.gapReplies = {}, !.gapCommits = {},
                            !.timers = @ \ {"gapRequest"}, !.status = "gapCommit"]
         IN  Then(ProcessNextOperation(t, t.lastOp + 1, LogEntry(t, NoReq, TRUE)),
                  SendGapCommit)

HandleGapReply(s, m) ==
    Checked(s, m, LAMBDA t :
      IF m.op # t.lastOp + 1 THEN t
      ELSE IF t.status = "gapCommit" THEN Require(t, AmLeader(t), "HandleGapReply")
      ELSE IF m.isfound
      THEN ProcessNextOperation(t, m.op, LogEntry(t, m.req, m.isgap))
      ELSE IF ~AmLeader(t) THEN t
      ELSE LET u == [t EXCEPT !.gapReplies = @ \cup {m.from}] IN
           IF Cardinality(u.gapReplies) >= N - 1 THEN StartGapAgreement(u) ELSE u)

\* Mutant: a gap does not overwrite the request that was received.
HandleGapCommitKeeps(s, m) ==
    Checked(s, m, LAMBDA t :
      IF t.lastOp + 1 < m.op
      THEN [t EXCEPT !.committedGaps = @ \cup {m.op}]
      ELSE Then(IF t.lastOp >= m.op
                THEN [t EXCEPT !.committedGaps = @ \cup {m.op}]
                ELSE ProcessNextOperation(t, m.op, LogEntry(t, NoReq, TRUE)),
                LAMBDA u : Send(u, Msg(u, "gapCommitReply", {m.from})
                                     @@ [op |-> m.op])))

HandleGapCommit(s, m) ==
    Checked(s, m, LAMBDA t :
      IF AmLeader(t) THEN Crash(t, "HandleGapCommit")
      ELSE IF t.lastOp + 1 < m.op
      THEN [t EXCEPT !.committedGaps = @ \cup {m.op}]
      ELSE Then(IF t.lastOp < m.op
                THEN ProcessNextOperation(t, m.op, LogEntry(t, NoReq, TRUE))
                ELSE IF Found(t.log, m.op)
                THEN [t EXCEPT !.committedGaps = @ \cup {m.op},
                               !.log[m.op].noop = TRUE]
                ELSE [t EXCEPT !.committedGaps = @ \cup {m.op}],
                LAMBDA u : Send(u, Msg(u, "gapCommitReply", {m.from})
                                     @@ [op |-> m.op])))

HandleGapCommitReply(s, m) ==
    Checked(s, m, LAMBDA t :
      IF t.status # "gapCommit" \/ ~AmLeader(t) \/ m.op # t.lastOp THEN t
      ELSE LET u == [t EXCEPT !.gapCommits = @ \cup {m.from}] IN
           IF Cardinality(u.gapCommits) < F THEN u
           ELSE [u EXCEPT !.status = "normal", !.gapCommits = {},
                          !.timers = @ \ {"gapCommit"}])

-----------------------------------------------------------------------------
\* State transfer.

HandleStateTransferRequest(s, m) ==
    IF \/ m.sess # s.sessnum \/ m.view # s.view
       \/ m.begin > s.lastOp \/ m.end > s.lastOp + 1
    THEN s
    ELSE Send(s, Msg(s, "stateTransferReply", {m.from})
                   @@ [begin |-> m.begin, end |-> m.end,
                       entries |-> SubSeq(s.log, m.begin, m.end - 1)])

\* Mutant: entries the replica has received in the meantime are not skipped.
HandleStateTransferReplyAll(s, m) ==
    IF m.sess # s.sessnum \/ m.view # s.view THEN s
    ELSE FoldLeft(LAMBDA t, op : Then(t, LAMBDA u :
                    ProcessNextOperation(u, op, m.entries[op - m.begin + 1])),
                  s, Interval(m.begin, m.end - 1))

HandleStateTransferReply(s, m) ==
    IF m.sess # s.sessnum \/ m.view # s.view \/ m.end - 1 <= s.lastOp THEN s
    ELSE IF Len(m.entries) # m.end - m.begin \/ m.begin > s.lastOp + 1
    THEN Crash(s, "HandleStateTransferReply")
    ELSE FoldLeft(LAMBDA t, op : Then(t, LAMBDA u :
                    ProcessNextOperation(u, op, m.entries[op - m.begin + 1])),
                  s, Interval(s.lastOp + 1, m.end - 1))

-----------------------------------------------------------------------------
\* View changes.

HandleViewChangeRequest(s, m) ==
    IF Newer(s, m) THEN StartViewChange(s, m.sess, m.view) ELSE s

\* The last session and view in which one of the replicas heard from was normal
\* (each maximum taken by itself), and the log that is merged for the new view.
MergeLogs(s) ==
    LET heard == s.viewChanges
        Latest(x, last) == x.lastNormalSessnum = last.sess /\ x.lastNormalView = last.view
        Merge(t, latest) == FoldLeft(LAMBDA u, x : Then(u, LAMBDA v : InstallCommittedGaps(v, x.gaps)),
                                     t, SetToSortSeq(latest, LAMBDA x, y : x.from < y.from))
        Rewind == Then(RewindLogToOpnum(s, s.lastCommittedOp),
                       LAMBDA t : [t EXCEPT !.committedGaps = {}])
        \* merged has the gaps of the latest logs; the one up to number op is taken.
        Adopt(t, last, ownOp, op, holders) ==
            With([t EXCEPT !.startView = [sess |-> last.sess, view |-> last.view, op |-> op,
                                          gaps |-> t.committedGaps]], LAMBDA u :
            IF \E gap \in t.committedGaps : gap > op THEN Crash(t, "HandleViewChangeGaps")
            ELSE IF op > ownOp
            THEN Then(Require(u, op > u.lastOp, "HandleViewChange"), LAMBDA v :
                      SendStateTransferRequest(SetTransfer(v, op, Min(holders), "enterView")))
            ELSE Then(Require(u, op = u.lastOp, "HandleViewChange"), LAMBDA v :
                      EnterView(v, v.sessnum, v.view)))
    IN  With([sess |-> Max({s.lastNormalSessnum} \cup {x.lastNormalSessnum : x \in heard}),
              view |-> Max({s.lastNormalView} \cup {x.lastNormalView : x \in heard})],
             LAMBDA last :
        LET stale == s.lastNormalSessnum < last.sess \/ s.lastNormalView < last.view
            ownOp == IF stale THEN 0 ELSE s.lastOp
            latest == {x \in heard : Latest(x, last)}
        IN  With(Max({ownOp} \cup {x.lastOp : x \in latest}), LAMBDA op :
            Then(Merge(IF stale THEN Rewind ELSE s, latest), LAMBDA t :
                 Adopt(t, last, ownOp, op, {x.from : x \in {y \in latest : y.lastOp = op}}))))

HandleViewChange(s, m) ==
    Then(HandleViewChangeRequest(s, m), LAMBDA t :
      IF Older(t, m) THEN t
      ELSE IF ~AmLeader(t) THEN Crash(t, "HandleViewChange")
      ELSE IF t.status # "viewChange" THEN Send(t, StartViewMessage(t, {m.from}))
      ELSE With([t EXCEPT !.viewChanges = Store(@, m)], LAMBDA u :
                IF Cardinality(u.viewChanges) >= F THEN MergeLogs(u) ELSE u))

\* Drop what the merged log of a STARTVIEW may not contain.
AlignLog(s, m) ==
    LET lags == \/ s.lastNormalSessnum < m.lastNormalSessnum
                \/ s.lastNormalView < m.lastNormalView
        same == /\ s.lastNormalSessnum = m.lastNormalSessnum
                /\ s.lastNormalView = m.lastNormalView
    IN  Then(IF lags THEN RewindLogToOpnum(s, s.lastCommittedOp)
             ELSE IF ~same THEN Crash(s, "HandleStartView")
             ELSE IF s.lastOp > m.lastOp THEN RewindLogToOpnum(s, m.lastOp)
             ELSE s, LAMBDA u :
             IF /\ same /\ u.committedGaps # {} /\ m.gaps # {}
                /\ Max(m.gaps) < Max(u.committedGaps)
             THEN RewindLogToOpnum(u, Max(u.committedGaps) - 1) ELSE u)

HandleStartView(s, m) ==
    IF Older(s, m) THEN s
    ELSE IF ~Newer(s, m) /\ s.status # "viewChange" THEN SendStartViewReply(s)
    ELSE IF GetLeaderIndex(m.view) = s.id THEN Crash(s, "HandleStartView")
    ELSE Then(Then(AlignLog(s, m), LAMBDA t :
                   InstallCommittedGaps([t EXCEPT !.committedGaps = {}], m.gaps)), LAMBDA u :
         IF u.lastOp < m.lastOp
         THEN SendStateTransferRequest(
                SetTransfer(ClearTimeoutAndQuorums(
                              [u EXCEPT !.sessnum = m.sess, !.view = m.view,
                                        !.status = "viewChange"]),
                            m.lastOp, GetLeaderIndex(m.view), "enterView"))
         ELSE EnterView(u, m.sess, m.view))

HandleStartViewReply(s, m) ==
    IF m.sess # s.sessnum \/ m.view # s.view THEN s
    ELSE IF s.status # "normal" \/ ~AmLeader(s) THEN Crash(s, "HandleStartViewReply")
    ELSE IF "startView" \notin s.timers THEN s
    ELSE LET t == [s EXCEPT !.startViews = @ \cup {m.from}] IN
         IF Cardinality(t.startViews) < F THEN t
         ELSE Then(CommitUptoOp(t, t.startView.op), LAMBDA u :
                   [u EXCEPT !.startViews = {}, !.timers = @ \ {"startView"}])

-----------------------------------------------------------------------------
\* Synchronisation.

SyncPrepareMessage(s, to) ==
    Msg(s, "syncPrepare", to) @@ [lastOp |-> s.leaderSync.op, gaps |-> s.leaderSync.gaps]

SendSyncPrepare(s) ==
    IF ~AmLeader(s) THEN Crash(s, "SendSyncPrepare")
    ELSE LET t == [s EXCEPT !.leaderSync = [op |-> s.lastOp, gaps |-> s.committedGaps]]
         IN  Send(t, SyncPrepareMessage(t, Others(s)))

HandleSyncPrepare(s, m) ==
    Checked(s, m, LAMBDA t :
      IF t.lastCommittedOp >= m.lastOp THEN t
      ELSE IF AmLeader(t) THEN Crash(t, "HandleSyncPrepare")
      ELSE Then(InstallCommittedGaps([t EXCEPT !.syncPrepares = @ \cup {m.lastOp}],
                                     m.gaps), LAMBDA u :
             IF u.lastOp >= m.lastOp THEN ProcessSyncPrepare(u, m.lastOp)
             ELSE LET v == SetTransfer(u, m.lastOp, GetLeaderIndex(m.view), "sync")
                  IN  IF m.lastOp - u.lastOp <= MaxTransfer
                      THEN SendStateTransferRequest(v) ELSE v))

HandleSyncPrepareReply(s, m) ==
    Checked(s, m, LAMBDA t :
      IF ~AmLeader(t) THEN Crash(t, "HandleSyncPrepareReply")
      ELSE IF t.lastCommittedOp >= m.op \/ m.op # t.leaderSync.op THEN t
      ELSE LET u == [t EXCEPT !.syncReplies = @ \cup {<<m.op, m.from>>}] IN
           IF Cardinality({x \in u.syncReplies : x[1] = m.op}) >= F
           THEN CommitUptoOp(u, m.op) ELSE u)

HandleSyncCommit(s, m) ==
    Checked(s, m, LAMBDA t :
      IF AmLeader(t) THEN Crash(t, "HandleSyncCommit")
      ELSE IF t.lastCommittedOp >= m.op THEN t
      ELSE LET u == [t EXCEPT !.syncCommits = @ \cup {m.op}] IN
           IF m.op \notin u.syncPrepares
           THEN Send(u, Msg(u, "syncPrepareRequest", {GetLeaderIndex(u.view)}))
           ELSE IF u.lastOp < m.op THEN u
           ELSE Then(CommitUptoOp(u, m.op), LAMBDA v :
                     [v EXCEPT !.syncPrepares = @ \ {m.op},
                               !.syncCommits = @ \ {m.op}]))

\* The commit that answers a request names the sync point.
HandleSyncPrepareRequest(s, m) ==
    Checked(s, m, LAMBDA t :
      IF ~AmLeader(t) THEN Crash(t, "HandleSyncPrepareRequest")
      ELSE LET u == Send(t, SyncPrepareMessage(t, {m.from})) IN
           IF t.lastCommittedOp < t.leaderSync.op THEN u
           ELSE Send(u, Msg(u, "syncCommit", {m.from}) @@ [op |-> t.leaderSync.op]))

-----------------------------------------------------------------------------
Fresh(r) ==
    [id |-> r, status |-> "normal", fault |-> "", out |-> {},
     view |-> 0, sessnum |-> 0, lastOp |-> 0, nextMsgnum |-> 1,
     lastNormalView |-> 0, lastNormalSessnum |-> 0,
     lastCommittedOp |-> 0, lastExecutedOp |-> 0, log |-> << >>,
     executed |-> << >>,
     clientTable |-> [c \in Clients |-> [id |-> 0, result |-> FALSE]],
     pending |-> {}, committedGaps |-> {},
     gapReplies |-> {}, gapCommits |-> {}, viewChanges |-> {}, startViews |-> {},
     syncReplies |-> {}, syncPrepares |-> {}, syncCommits |-> {},
     timers |-> IF r = GetLeaderIndex(0) THEN {"sync"} ELSE {"leaderSyncHeard"},
     transfer |-> [begin |-> 0, end |-> 0, idx |-> 0, callback |-> ""],
     startView |-> [sess |-> 0, view |-> 0, op |-> 0, gaps |-> {}],
     leaderSync |-> [op |-> 0, gaps |-> {}]]

\* The client object; done is what the continuation was called with.
FreshClient == [lastReqId |-> 0, pending |-> FALSE, done |-> {}]

Init ==
    /\ rep = [r \in Replicas |-> Fresh(r)]
    /\ client = [c \in Clients |-> FreshClient]
    /\ seq = [sess |-> 0, msg |-> 0]
    /\ msgs = {}
    /\ scenario \in Scenarios

\* Replica r runs an operator on its state; what it sent goes to the network.
Step(r, t) ==
    /\ rep' = [rep EXCEPT ![r] = [t EXCEPT !.out = {}]]
    /\ msgs' = msgs \cup t.out
    /\ UNCHANGED <<seq, client, scenario>>

Up(r) == rep[r].status # "crashed" /\ r \notin scenario.down

\* ReceiveMessage: dispatch, then try the pending requests.
Receive(type, Handler(_, _)) ==
    \E m \in {x \in msgs : x.type = type} : \E r \in m.to :
        /\ Up(r)
        /\ Step(r, Then(Handler(rep[r], m), ProcessPendingRequests))
        /\ rep'[r] # rep[r] \/ msgs' # msgs

ReceiveRequest == Receive("request", HandleClientRequest)
ReceiveGapRequest == Receive("gapRequest", HandleGapRequest)
ReceiveGapReply == Receive("gapReply", HandleGapReply)
ReceiveGapCommit == Receive("gapCommit", HandleGapCommit)
ReceiveGapCommitReply == Receive("gapCommitReply", HandleGapCommitReply)
ReceiveStateTransferRequest == Receive("stateTransferRequest", HandleStateTransferRequest)
ReceiveStateTransferReply == Receive("stateTransferReply", HandleStateTransferReply)
ReceiveViewChangeRequest == Receive("viewChangeRequest", HandleViewChangeRequest)
ReceiveViewChange == Receive("viewChange", HandleViewChange)
ReceiveStartView == Receive("startView", HandleStartView)
ReceiveStartViewReply == Receive("startViewReply", HandleStartViewReply)
ReceiveSyncPrepare == Receive("syncPrepare", HandleSyncPrepare)
ReceiveSyncPrepareReply == Receive("syncPrepareReply", HandleSyncPrepareReply)
ReceiveSyncCommit == Receive("syncCommit", HandleSyncCommit)
ReceiveSyncPrepareRequest == Receive("syncPrepareRequest", HandleSyncPrepareRequest)

\* The timeouts that can do more than repeat a message.
Expire(name, Callback(_)) ==
    \E r \in Replicas :
        /\ Up(r) /\ name \in rep[r].timers \cap scenario.timers
        /\ Step(r, Callback(rep[r]))
        /\ rep'[r] # rep[r] \/ msgs' # msgs

GapRequestTimeout ==
    Expire("gapRequest", LAMBDA s : IF AmLeader(s) THEN StartGapAgreement(s)
                                                   ELSE SendGapRequest(s))
ViewChangeTimeout == Expire("viewChange", SendViewChange)
SyncTimeout == Expire("sync", SendSyncPrepare)
LeaderSyncHeardTimeout ==
    Expire("leaderSyncHeard", LAMBDA s :
      IF s.view < scenario.maxView THEN StartViewChange(s, s.sessnum, s.view + 1)
                                   ELSE s)

\* The client.

\* The sequencer stamps a request of client c and multicasts it.
Sequence(req) ==
    /\ seq.msg < scenario.maxMsg
    /\ seq' = [seq EXCEPT !.msg = @ + 1]
    /\ msgs' = msgs \cup {[type |-> "request", to |-> Replicas, sess |-> seq.sess,
                           msg |-> seq.msg + 1, req |-> req]}

\* (A request lost on its way to the sequencer is one not invoked yet.)
Invoke(c) ==
    /\ ~client[c].pending /\ client[c].lastReqId < MaxReq
    /\ client' = [client EXCEPT ![c].lastReqId = @ + 1, ![c].pending = TRUE]
    /\ Sequence([client |-> c, id |-> client[c].lastReqId + 1])
    /\ UNCHANGED <<rep, scenario>>

ResendRequest(c) ==
    /\ client[c].pending
    /\ Sequence([client |-> c, id |-> client[c].lastReqId])
    /\ UNCHANGED <<rep, client, scenario>>

\* A new sequencer, with the next session number, takes over.
NewSession ==
    /\ seq.sess < scenario.maxSess
    /\ seq' = [sess |-> seq.sess + 1, msg |-> 0]
    /\ UNCHANGED <<rep, client, msgs, scenario>>

\* The leader's reply that the loop of HandleReply over the stored replies ends
\* with, in the order of the replica numbers; {} if none.
LeaderReply(replies) ==
    FoldLeft(LAMBDA acc, m :
               LET view == Max({acc.view, m.view})
                   sess == Max({acc.sess, m.sess})
                   kept == IF m.view > acc.view THEN {} ELSE acc.found
               IN  [view |-> view, sess |-> sess,
                    found |-> IF /\ GetLeaderIndex(m.view) = m.from
                                 /\ m.view = view /\ m.sess = sess
                              THEN {m} ELSE kept],
             [view |-> 0, sess |-> 0, found |-> {}],
             SetToSortSeq(replies, LAMBDA x, y : x.from < y.from)).found

Matching(replies, m) ==
    {x \in replies : x.view = m.view /\ x.sess = m.sess /\ x.op = m.op}

\* HandleReply, which may have stored any of the replies sent, one of a replica.
HandleReply(c) ==
    /\ client[c].pending
    /\ LET sent == {m \in msgs : /\ m.type = "reply"
                                 /\ m.req = [client |-> c, id |-> client[c].lastReqId]}
       IN  \E replies \in SUBSET sent :
            /\ \A x, y \in replies : x.from = y.from => x = y
            /\ Cardinality(replies) >= F + 1
            /\ \E m \in LeaderReply(replies) :
                /\ Cardinality(Matching(replies, m)) >= F + 1
                /\ client' = [client EXCEPT ![c].pending = FALSE,
                                            ![c].done = @ \cup {m}]
    /\ UNCHANGED <<rep, seq, msgs, scenario>>

Next ==
    \/ ReceiveRequest \/ ReceiveGapRequest \/ ReceiveGapReply
    \/ ReceiveGapCommit \/ ReceiveGapCommitReply
    \/ ReceiveStateTransferRequest \/ ReceiveStateTransferReply
    \/ ReceiveViewChangeRequest \/ ReceiveViewChange
    \/ ReceiveStartView \/ ReceiveStartViewReply
    \/ ReceiveSyncPrepare \/ ReceiveSyncPrepareReply
    \/ ReceiveSyncCommit \/ ReceiveSyncPrepareRequest
    \/ GapRequestTimeout \/ ViewChangeTimeout \/ SyncTimeout
    \/ LeaderSyncHeardTimeout
    \/ \E c \in Clients : Invoke(c) \/ ResendRequest(c) \/ HandleReply(c)
    \/ NewSession

Spec == Init /\ [][Next]_vars

-----------------------------------------------------------------------------
Value(e) == IF e.noop THEN NoReq ELSE e.req
Committed(r) == 1 .. Min({rep[r].lastCommittedOp, Len(rep[r].log)})

\* Two replicas never commit different values, a request or a gap, under one
\* operation number (CommitUptoOp, reached by synchronisation and by the start
\* of a view).
CommittedAgree ==
    \A r1, r2 \in Replicas : \A op \in Committed(r1) \cap Committed(r2) :
        Value(rep[r1].log[op]) = Value(rep[r2].log[op])

\* The request of a completed operation, for which the client saw a quorum of
\* matching replies, stays under its operation number at every leader of that
\* view and session or later ones, and at every replica that commits the number:
\* neither a gap agreement nor a view change drops or replaces it.
CompletedIsKept ==
    \A c \in Clients : \A d \in client[c].done : \A r \in Replicas :
        LET s == rep[r] IN
        (/\ s.status \in {"normal", "gapCommit"}
         /\ s.view >= d.view /\ s.sessnum >= d.sess
         /\ AmLeader(s) \/ s.lastCommittedOp >= d.op)
           => Found(s.log, d.op) /\ Value(s.log[d.op]) = d.req

\* No ASSERT fails and no RPanic is reached before the first view change starts:
\* the checks of the gap protocol, the synchronisation and the state transfer.
\* (A view change does end replicas: rollback is not implemented.)
NoFaultBeforeViewChange ==
    (\A r \in Replicas : rep[r].view = 0 /\ rep[r].sessnum = 0)
        => \A r \in Replicas : rep[r].status # "crashed"

\* A replica hands a request to the application at most once, whatever the
\* client, the sequencer and the network repeat (client table).
ExecutedOnce ==
    \A r \in Replicas : IsInjective(rep[r].executed)
=============================================================================
