------------------------------- MODULE TomBFT --------------------------------
(***************************************************************************)
(* The replicas and the client of replication/tombft.  A sequencer numbers *)
(* the requests of a session and multicasts them; replicas execute them in *)
(* the order of the numbers.  Two kinds of replica: with signatures on     *)
(* some packets, which vouch for those before them (TOMBFTReplica), and    *)
(* with authenticated packets (TOMBFTHMACReplica), which also changes      *)
(* epochs when the sequencer begins a new session.                         *)
(*                                                                         *)
(* The network loses, duplicates and reorders packets and messages.  A new *)
(* session begins when all replicas have executed the old one and no       *)
(* packet of it is left, as StartEpochChange and HandleViewStart assume    *)
(* (replica.cc:143 and 209).  StartQuery has no caller: its timer is never *)
(* started, so there are no queries.                                       *)
(***************************************************************************)
EXTENDS Integers, Sequences, FiniteSets

CONSTANTS
  Replicas,   \* the replicas that are up, of the 3f+1
  Leader,     \* replica 0
  Clients,
  f,          \* configuration.f
  MaxReq,     \* bound: requests one client invokes
  MaxPacket,  \* bound: packets
  MaxSession  \* bound: sessions

VARIABLES
  replica,    \* replica[r]: the fields of a replica, see Replica
  client,     \* client[c]: the fields of a client
  sequencer,  \* its session and the packets of it; ordered are the requests of all sessions
  hmac,       \* the replicas are TOMBFTHMACReplicas
  msgs        \* the messages sent

vars == <<replica, client, sequencer, hmac, msgs>>

\* A replica that has just started.  offset has no initializer in the code.
Replica(offset) ==
  [status |-> "normal", session |-> 0, offset |-> offset, high |-> 0,
   buffer |-> {},         \* tom_buffer: pairs <<number, request>>
   log |-> << >>,         \* last_executed is its length
   executed |-> << >>,    \* the requests given to the application
   table |-> [c \in Clients |-> 0], known |-> {},    \* client_table, address_table
   viewChanges |-> {}, epochStarts |-> {},           \* pairs <<replica, session>>
   out |-> {}]            \* epilogue_list

\* A TOMBFTClient that has just started.
Client == [lastReqId |-> 0, pending |-> FALSE, received |-> {}]

Init ==
  /\ replica \in [Replicas -> {Replica(o) : o \in {0, MaxPacket}}]
  /\ client = [c \in Clients |-> Client]
  /\ sequencer = [session |-> 1, packets |-> << >>, ordered |-> << >>]
  /\ hmac \in BOOLEAN
  /\ msgs = {}

-----------------------------------------------------------------------------
(***************************************************************************)
(* Clients and sequencer.                                                  *)
(***************************************************************************)

Request(c, n) == [client |-> c, num |-> n]

Invoke(c) ==
  /\ ~client[c].pending /\ client[c].lastReqId < MaxReq
  /\ client' = [client EXCEPT ![c] = [lastReqId |-> @.lastReqId + 1, pending |-> TRUE, received |-> {}]]
  /\ UNCHANGED <<replica, sequencer, hmac, msgs>>

\* HandleReply: 2f+1 replicas complete a request; results are not compared.
ReceiveReply(c, m) ==
  /\ client[c].pending
  /\ m.type = "reply" /\ m.request = Request(c, client[c].lastReqId)
  /\ LET got == client[c].received \cup {m.from}
     IN  client' = [client EXCEPT ![c].received = got,
                                  ![c].pending = Cardinality(got) < 2 * f + 1]
  /\ UNCHANGED <<replica, sequencer, hmac, msgs>>

\* What TOMBFTAdapter, or TOMBFTHMACAdapter, reads from a multicast packet; its number
\* is its place among the session's packets.  What the sequencer sent is verified.
Packet(req, signed) == [request |-> req, signed |-> signed]
HMACPacket(req) == Packet(req, FALSE)

\* The sequencer numbers a request, or one that the client sent again; it signs some
\* packets.  One that it never sees is lost.
Sequence(c, n) ==
  LET req == Request(c, n)
  IN  /\ Len(sequencer.ordered) < MaxPacket
      /\ \E packet \in IF hmac THEN {HMACPacket(req)} ELSE {Packet(req, signed) : signed \in BOOLEAN} :
           sequencer' = [sequencer EXCEPT !.packets = Append(@, packet), !.ordered = Append(@, req)]
  /\ UNCHANGED <<replica, client, hmac, msgs>>

\* A new session, which signed replicas do not implement.
NewSession ==
  /\ hmac /\ sequencer.session < MaxSession
  /\ \A r \in Replicas : /\ replica[r].status = "normal" /\ replica[r].session = sequencer.session
                         /\ replica[r].offset + Len(replica[r].log) = Len(sequencer.packets)
  /\ sequencer' = [sequencer EXCEPT !.session = @ + 1, !.packets = << >>]
  /\ UNCHANGED <<replica, client, hmac, msgs>>

-----------------------------------------------------------------------------
(***************************************************************************)
(* The replica.  A handler maps the replica's fields to new ones.          *)
(***************************************************************************)

\* ExecuteOne: an older request of its client is logged only, the last one answered
\* again; a client whose address is not known gets no reply.
ExecuteOne(r, st, req) ==
  LET logged == [st EXCEPT !.log = Append(@, req)]
      last == st.table[req.client]
      done == IF req.num = last THEN logged
              ELSE [logged EXCEPT !.table[req.client] = req.num, !.executed = Append(@, req)]
  IN  IF req.num < last THEN logged
      ELSE IF req.client \notin st.known THEN done
      ELSE [done EXCEPT !.out = @ \cup {[type |-> "reply", from |-> r, request |-> req]}]

\* The number that comes next, and whether what has number n may be executed.
NextNumber(st) == (st.offset + Len(st.log)) + 1
Verified(st, n) == hmac \/ n <= st.high

\* One turn of TryExecute, which looks at the smallest number in the buffer only.
ExecuteNext(r, st) ==
  LET next == {e \in st.buffer : /\ e[1] = NextNumber(st) /\ Verified(st, e[1])
                                 /\ \A other \in st.buffer : e[1] <= other[1]}
      e == CHOOSE x \in next : TRUE
  IN  IF next = {} THEN st ELSE [ExecuteOne(r, st, e[2]) EXCEPT !.buffer = @ \ {e}]

\* Every turn that goes on takes a packet out of the buffer: as many turns as it holds.
TryExecute(r, st) ==
  LET after[k \in 0 .. Cardinality(st.buffer)] ==
        IF k = 0 THEN st ELSE ExecuteNext(r, after[k - 1])
  IN  after[Cardinality(st.buffer)]

\* tom_buffer.emplace keeps what is there; an assignment replaces it.
Emplace(buffer, n, x) == IF \E e \in buffer : e[1] = n THEN buffer ELSE buffer \cup {<<n, x>>}
Replace(buffer, n, x) == {e \in buffer : e[1] # n} \cup {<<n, x>>}

Enough(votes) == Cardinality(votes) >= 2 * f + 1
Put(st, m) == [st EXCEPT !.out = @ \cup {m}]

\* InsertEpochStart: 2f+1 of them, whatever their sessions, end the epoch change.
InsertEpochStart(r, st, from, session) ==
  LET votes == Emplace(st.epochStarts, from, session)
  IN  IF ~Enough(votes) THEN [st EXCEPT !.epochStarts = votes]
      ELSE TryExecute(r, [st EXCEPT !.status = "normal", !.viewChanges = {}, !.epochStarts = {},
                                    !.session = session, !.offset = -Len(st.log)])

SendEpochStart(r, st, session) ==
  InsertEpochStart(r, Put(st, [type |-> "epochStart", from |-> r, session |-> session]), r, session)

\* InsertViewChange: 2f+1 of them begin the epoch, and every further one again.
InsertViewChange(r, st, from, next) ==
  LET votes == Emplace(st.viewChanges, from, next)
      voted == [st EXCEPT !.viewChanges = votes]
  IN  IF ~Enough(votes) THEN voted
      ELSE SendEpochStart(r, Put(voted, [type |-> "viewStart", from |-> r, session |-> next]), next)

StartEpochChange(r, st, next) ==
  LET changing == Put([st EXCEPT !.status = "epochChange", !.buffer = {}],
                      [type |-> "viewChange", from |-> r, session |-> next])
  IN  IF r = Leader THEN InsertViewChange(r, changing, r, next) ELSE changing

\* The very first packet is taken for the first one of the order.
FirstPacket(st, session, n) ==
  IF st.session = 0 THEN [st EXCEPT !.session = session, !.offset = n - 1] ELSE st

Know(st, c) == [st EXCEPT !.known = @ \cup {c}]

\* TOMBFTReplica::HandleRequest; the number is compared before the first packet's
\* offset is known.  Another session is NOT_IMPLEMENTED, and there is only one.
HandleSigned(r, st, session, n, packet) ==
  LET first == FirstPacket(Know(st, packet.request.client), session, n)
      buffered == [first EXCEPT !.buffer = Replace(@, n, packet.request)]
  IN  IF n <= st.offset + Len(st.log) THEN st
      ELSE IF packet.signed /\ n > st.high THEN TryExecute(r, [buffered EXCEPT !.high = n])
      ELSE buffered

\* TOMBFTHMACReplica::HandleRequest.  While the epoch changes, packets are buffered,
\* whatever their session.
HandleHMAC(r, st, session, n, packet) ==
  LET first == FirstPacket(st, session, n)
      known == Know(first, packet.request.client)
      store(x) == [x EXCEPT !.buffer = Emplace(@, n, packet.request)]
  IN  IF st.status # "normal" THEN store(st)
      ELSE IF first.session # session THEN store(StartEpochChange(r, first, session))
      ELSE IF n < NextNumber(first) THEN first
      ELSE TryExecute(r, IF n = NextNumber(first) THEN ExecuteOne(r, known, packet.request)
                         ELSE store(known))

\* The replica's fields after a handler, and ConcludeEpilogue.
Finish(r, st) ==
  /\ replica' = [replica EXCEPT ![r] = [st EXCEPT !.out = {}]]
  /\ msgs' = msgs \cup st.out
  /\ UNCHANGED <<client, sequencer, hmac>>

ReceiveRequest(r, n) ==
  LET packet == sequencer.packets[n]
  IN  Finish(r, IF hmac THEN HandleHMAC(r, replica[r], sequencer.session, n, packet)
                ELSE HandleSigned(r, replica[r], sequencer.session, n, packet))

Changing(r) == replica[r].status = "epochChange"

HandleViewChange(r, m) ==
  /\ m.type = "viewChange" /\ r = Leader /\ Changing(r)
  /\ Finish(r, InsertViewChange(r, replica[r], m.from, m.session))

HandleViewStart(r, m) ==
  /\ m.type = "viewStart" /\ r # m.from /\ Changing(r)
  /\ Finish(r, SendEpochStart(r, replica[r], m.session))

HandleEpochStart(r, m) ==
  /\ m.type = "epochStart" /\ r # m.from /\ Changing(r)
  /\ Finish(r, InsertEpochStart(r, replica[r], m.from, m.session))

Next ==
  \/ \E c \in Clients :
       \/ Invoke(c) \/ \E m \in msgs : ReceiveReply(c, m)
       \/ \E n \in 1 .. client[c].lastReqId : Sequence(c, n)
  \/ NewSession
  \/ \E r \in Replicas :
       \/ \E n \in DOMAIN sequencer.packets : ReceiveRequest(r, n)
       \/ \E m \in msgs : HandleViewChange(r, m) \/ HandleViewStart(r, m) \/ HandleEpochStart(r, m)

Spec == Init /\ [][Next]_vars

-----------------------------------------------------------------------------
(***************************************************************************)
(* What clients rely on.                                                   *)
(***************************************************************************)

\* A replica's log is a piece of what the sequencer ordered, without a gap and across
\* sessions (TryExecute, InsertEpochStart); it need not begin at the first request.
LogsAreOfTheOrder ==
  \A r \in Replicas : \E skipped \in 0 .. Len(sequencer.ordered) - Len(replica[r].log) :
    \A i \in 1 .. Len(replica[r].log) : replica[r].log[i] = sequencer.ordered[skipped + i]

\* A request that was sent and numbered again is executed once (ExecuteOne).
ExecutedOnce ==
  \A r \in Replicas : LET done == replica[r].executed IN
    \A i, j \in 1 .. Len(done) : done[i] = done[j] => i = j

\* A request that a client saw completed was executed by 2f+1 replicas.
CompletedIsExecuted ==
  \A c \in Clients : \A n \in 1 .. client[c].lastReqId :
    (n = client[c].lastReqId => ~client[c].pending) =>
      Cardinality({r \in Replicas : \E i \in 1 .. Len(replica[r].executed) :
                     replica[r].executed[i] = Request(c, n)}) >= 2 * f + 1
=============================================================================
