---------------------------- MODULE TomBFTProofs ----------------------------
(***************************************************************************)
(* Proofs about TomBFT, for any number of replicas, clients and packets    *)
(* and both kinds of replica: a request is executed once and what clients  *)
(* saw completed was executed, in all sessions; the logs are pieces of the *)
(* order up to the second session, and need not be from the third one on.  *)
(***************************************************************************)
EXTENDS TomBFT, ProofFacts

\* The assumptions on the constants.
Group == IsFiniteSet(Replicas) /\ f \in Nat /\ MaxPacket \in Nat

-----------------------------------------------------------------------------
(* Types. *)

Requests == [client : Clients, num : Nat \ {0}]
Packets == [request : Requests, signed : BOOLEAN]
Replies == [type : {"reply"}, from : Replicas, request : Requests]
Votes == [type : {"viewChange", "viewStart", "epochStart"}, from : Replicas, session : Nat]
Message == Replies \cup Votes
Tally == SUBSET (Replicas \X Nat)

ReplicaState ==
  [status : {"normal", "epochChange"}, session : Nat, offset : Int, high : Nat,
   buffer : SUBSET (Nat \X Requests), log : Seq(Requests), executed : Seq(Requests),
   table : [Clients -> Nat], known : SUBSET Clients, viewChanges : Tally, epochStarts : Tally,
   out : SUBSET Message]

ClientState == [lastReqId : Nat, pending : BOOLEAN, received : SUBSET Replicas]
Sequencer == [session : Nat \ {0}, packets : Seq(Packets), ordered : Seq(Requests)]

\* The type of each field of a replica.
LEMMA FieldTypes ==
  ASSUME NEW s \in ReplicaState
  PROVE  /\ s.status \in {"normal", "epochChange"} /\ s.session \in Nat /\ s.offset \in Int
         /\ s.high \in Nat /\ s.buffer \in SUBSET (Nat \X Requests)
         /\ s.log \in Seq(Requests) /\ Len(s.log) \in Nat
         /\ s.executed \in Seq(Requests) /\ Len(s.executed) \in Nat
         /\ s.table \in [Clients -> Nat] /\ s.known \in SUBSET Clients
         /\ s.viewChanges \in Tally /\ s.epochStarts \in Tally /\ s.out \in SUBSET Message
BY DEF ReplicaState

-----------------------------------------------------------------------------
(* What holds of one replica. *)

\* The requests that a replica has given to the application.
Done(st) == {st.executed[i] : i \in 1 .. Len(st.executed)}

\* What replica r executed has no request twice and is what its table and replies say.
Sound(r, st) ==
  /\ st \in ReplicaState /\ IsFiniteSet(st.buffer)
  /\ \A i \in 1 .. Len(st.executed) : st.executed[i].num <= st.table[st.executed[i].client]
  /\ \A i, j \in 1 .. Len(st.executed) : st.executed[i] = st.executed[j] => i = j
  /\ \A c \in Clients : st.table[c] # 0 => Request(c, st.table[c]) \in Done(st)
  /\ \A m \in st.out : m.type = "reply" => m.from = r /\ m.request \in Done(st)

\* ExecuteOne changes the log and what goes with it, and nothing else.
Executes(r, s, t, req) ==
  /\ t \in ReplicaState
  /\ t.log = Append(s.log, req) /\ t.status = s.status /\ t.session = s.session
  /\ t.offset = s.offset /\ t.high = s.high /\ t.buffer = s.buffer
  /\ t.known = s.known /\ t.viewChanges = s.viewChanges /\ t.epochStarts = s.epochStarts
  /\ \/ t.table = s.table /\ t.executed = s.executed /\ t.out = s.out
     \/ /\ \/ req.num = s.table[req.client] /\ t.table = s.table /\ t.executed = s.executed
           \/ /\ s.table[req.client] < req.num
              /\ t.table = [s.table EXCEPT ![req.client] = req.num]
              /\ t.executed = Append(s.executed, req)
        /\ t.out \in {s.out, s.out \cup {[type |-> "reply", from |-> r, request |-> req]}}

\* The cases of ExecuteOne.
LEMMA ExecuteOneIs ==
  ASSUME NEW r \in Replicas, NEW s \in ReplicaState, NEW req \in Requests
  PROVE  Executes(r, s, ExecuteOne(r, s, req), req)
<1> DEFINE logged == [s EXCEPT !.log = Append(@, req)]
           last == s.table[req.client]
           done == IF req.num = last THEN logged
                   ELSE [logged EXCEPT !.table[req.client] = req.num, !.executed = Append(@, req)]
           a == [type |-> "reply", from |-> r, request |-> req]
           replied == [done EXCEPT !.out = @ \cup {a}]
<1>1. ExecuteOne(r, s, req) = IF req.num < last THEN logged
                              ELSE IF req.client \notin s.known THEN done ELSE replied
  BY DEF ExecuteOne
<1>2. req.client \in Clients /\ req.num \in Nat /\ last \in Nat /\ a \in Message
  BY DEF Requests, ReplicaState, Message, Replies
<1>3. logged \in ReplicaState
  <2> DEFINE log == Append(s.log, req)
  <2>1. log \in Seq(Requests)
    BY FieldTypes
  <2> HIDE DEF log
  <2>2. [s EXCEPT !.log = log] \in ReplicaState
    BY <2>1 DEF ReplicaState
  <2> QED BY <2>2 DEF log
<1>4. Executes(r, s, logged, req) \/ ~(req.num < last)
  BY <1>3 DEF Executes, ReplicaState
<1>5. done \in ReplicaState
  <2> DEFINE table == [logged.table EXCEPT ![req.client] = req.num]
             executed == Append(logged.executed, req)
  <2> HIDE DEF logged
  <2>1. table \in [Clients -> Nat] /\ executed \in Seq(Requests)
    BY <1>2, <1>3, FieldTypes
  <2>2. done = IF req.num = last THEN logged
               ELSE [logged EXCEPT !.table = table, !.executed = executed]
    OBVIOUS
  <2> HIDE DEF table, executed, done
  <2>3. [logged EXCEPT !.table = table, !.executed = executed] \in ReplicaState
    BY <1>3, <2>1 DEF ReplicaState
  <2> QED BY <1>3, <2>2, <2>3
<1>6. /\ done.log = Append(s.log, req) /\ done.status = s.status /\ done.session = s.session
      /\ done.offset = s.offset /\ done.high = s.high /\ done.buffer = s.buffer
      /\ done.known = s.known /\ done.viewChanges = s.viewChanges
      /\ done.epochStarts = s.epochStarts /\ done.out = s.out
  BY DEF ReplicaState
<1>7. \/ req.num = last /\ done.table = s.table /\ done.executed = s.executed
      \/ /\ req.num # last /\ done.table = [s.table EXCEPT ![req.client] = req.num]
         /\ done.executed = Append(s.executed, req)
  BY DEF ReplicaState
<1> HIDE DEF done, a
<1>8. /\ replied \in ReplicaState /\ replied.log = done.log /\ replied.status = done.status
      /\ replied.session = done.session /\ replied.offset = done.offset
      /\ replied.high = done.high /\ replied.buffer = done.buffer
      /\ replied.known = done.known /\ replied.viewChanges = done.viewChanges
      /\ replied.epochStarts = done.epochStarts /\ replied.table = done.table
      /\ replied.executed = done.executed /\ replied.out = s.out \cup {a}
  BY <1>2, <1>5, <1>6 DEF ReplicaState
<1> HIDE DEF replied, logged
<1>9. ASSUME NEW t \in {done, replied}, ~(req.num < last) PROVE Executes(r, s, t, req)
  <2>1. t.out \in {s.out, s.out \cup {a}}
    BY <1>6, <1>8
  <2>2. \/ req.num = last /\ t.table = s.table /\ t.executed = s.executed
        \/ /\ last < req.num /\ t.table = [s.table EXCEPT ![req.client] = req.num]
           /\ t.executed = Append(s.executed, req)
    BY <1>2, <1>7, <1>8, <1>9
  <2>3. /\ t \in ReplicaState
        /\ t.log = Append(s.log, req) /\ t.status = s.status /\ t.session = s.session
        /\ t.offset = s.offset /\ t.high = s.high /\ t.buffer = s.buffer
        /\ t.known = s.known /\ t.viewChanges = s.viewChanges /\ t.epochStarts = s.epochStarts
    BY <1>5, <1>6, <1>8
  <2> QED BY <2>1, <2>2, <2>3 DEF Executes, a
<1> QED BY <1>1, <1>4, <1>9

\* ExecuteOne executes a request once, and answers what it has executed.
LEMMA ExecuteOneSound ==
  ASSUME NEW r \in Replicas, NEW s, Sound(r, s), NEW req \in Requests
  PROVE  Sound(r, ExecuteOne(r, s, req)) /\ Done(s) \subseteq Done(ExecuteOne(r, s, req))
<1> DEFINE t == ExecuteOne(r, s, req)
           c == req.client
           a == [type |-> "reply", from |-> r, request |-> req]
<1>1. /\ s \in ReplicaState /\ c \in Clients /\ req.num \in Nat \ {0}
      /\ req = Request(c, req.num)
  BY DEF Sound, Requests, Request
<1>2. Executes(r, s, t, req)
  BY <1>1, ExecuteOneIs
<1> HIDE DEF t
<1>3. \/ t.table = s.table /\ t.executed = s.executed /\ t.out = s.out
      \/ /\ \/ req.num = s.table[c] /\ t.table = s.table /\ t.executed = s.executed
            \/ /\ s.table[c] < req.num
               /\ t.table = [s.table EXCEPT ![c] = req.num]
               /\ t.executed = Append(s.executed, req)
         /\ t.out \in {s.out, s.out \cup {a}}
  BY <1>2 DEF Executes
<1>4. s.table[c] \in Nat /\ Len(s.executed) \in Nat /\ s.executed \in Seq(Requests)
      /\ s.table \in [Clients -> Nat] /\ s.out \in SUBSET Message
  BY <1>1, FieldTypes
<1>5. t \in ReplicaState /\ t.buffer = s.buffer
  BY <1>2 DEF Executes
<1>6. /\ \A i \in 1 .. Len(t.executed) : t.executed[i].num <= t.table[t.executed[i].client]
      /\ \A i, j \in 1 .. Len(t.executed) : t.executed[i] = t.executed[j] => i = j
      /\ \A d \in Clients : t.table[d] # 0 => Request(d, t.table[d]) \in Done(t)
      /\ Done(s) \subseteq Done(t)
  <2>1. CASE t.table = s.table /\ t.executed = s.executed
    BY <2>1 DEF Sound, Done
  <2>2. CASE /\ s.table[c] < req.num
             /\ t.table = [s.table EXCEPT ![c] = req.num]
             /\ t.executed = Append(s.executed, req)
    <3> DEFINE n == Len(s.executed)
    <3>1. /\ n \in Nat /\ Len(t.executed) = n + 1 /\ t.executed[n + 1] = req
          /\ \A i \in 1 .. n : t.executed[i] = s.executed[i] /\ s.executed[i] \in Requests
      BY <1>4, <2>2
    <3>2. /\ t.table[c] = req.num /\ s.table[c] < req.num
          /\ \A d \in Clients : d # c => t.table[d] = s.table[d]
      BY <1>1, <1>4, <2>2
    <3>3. \A i \in 1 .. n : /\ s.executed[i].client \in Clients /\ s.executed[i].num \in Nat
                            /\ s.executed[i].num <= s.table[s.executed[i].client]
      BY <3>1 DEF Requests, Sound
    <3>4. ASSUME NEW i \in 1 .. n
          PROVE  t.executed[i].num <= t.table[t.executed[i].client] /\ t.executed[i] # req
      <4> DEFINE e == s.executed[i]
      <4>1. e.client \in Clients /\ e.num \in Nat /\ e.num <= s.table[e.client] /\ t.executed[i] = e
        BY <3>1, <3>3
      <4> HIDE DEF e, n
      <4>2. CASE e.client = c
        BY <1>1, <1>4, <3>2, <4>1, <4>2
      <4>3. CASE e.client # c
        BY <1>1, <3>2, <4>1, <4>3
      <4> QED BY <4>2, <4>3
    <3>5. Done(s) \subseteq Done(t) /\ req \in Done(t)
      BY <3>1 DEF Done
    <3>6. \A i \in 1 .. n + 1 : t.executed[i].num <= t.table[t.executed[i].client]
      <4>1. ASSUME NEW i \in 1 .. n + 1 PROVE t.executed[i].num <= t.table[t.executed[i].client]
        <5>1. CASE i = n + 1
          BY <1>1, <3>1, <3>2, <5>1
        <5>2. CASE i # n + 1
          BY <3>1, <3>4, <5>2
        <5> QED BY <5>1, <5>2
      <4> QED BY <4>1
    <3>7. \A i, j \in 1 .. n + 1 : t.executed[i] = t.executed[j] => i = j
      <4>1. \A i, j \in 1 .. n : s.executed[i] = s.executed[j] => i = j
        BY DEF Sound
      <4> HIDE DEF n
      <4> QED BY <3>1, <3>4, <4>1
    <3>8. \A d \in Clients : t.table[d] # 0 => Request(d, t.table[d]) \in Done(t)
      BY <1>1, <3>2, <3>5 DEF Sound
    <3> QED BY <3>1, <3>5, <3>6, <3>7, <3>8
  <2> QED BY <1>3, <2>1, <2>2
<1>7. \A m \in t.out : m.type = "reply" => m.from = r /\ m.request \in Done(t)
  <2>1. \A m \in s.out : m.type = "reply" => m.from = r /\ m.request \in Done(t)
    BY <1>6 DEF Sound
  <2>2. t.out \in {s.out, s.out \cup {a}}
    BY <1>3
  <2>3. t.out # s.out => req \in Done(t)
    <3>1. CASE req.num = s.table[c]
      BY <1>1, <1>6, <3>1 DEF Sound
    <3>2. CASE t.executed = Append(s.executed, req)
      BY <1>4, <3>2 DEF Done
    <3> QED BY <1>3, <3>1, <3>2
  <2> QED BY <2>1, <2>2, <2>3
<1>8. IsFiniteSet(t.buffer)
  BY <1>5 DEF Sound
<1>9. Sound(r, t)
  BY <1>5, <1>6, <1>7, <1>8 DEF Sound
<1> QED BY <1>6, <1>9 DEF t

-----------------------------------------------------------------------------
(* Where a replica's log is in the order of the sequencer. *)

\* The requests that were ordered before the session began.
Before(q) == Len(q.ordered) - Len(q.packets)

\* The packets of a session carry the last requests of the order.
SequencerOK(q) ==
  /\ q \in Sequencer /\ Len(q.packets) <= Len(q.ordered)
  /\ \A n \in 1 .. Len(q.packets) : q.packets[n].request = q.ordered[Before(q) + n]

Current(st, q) == st.session = q.session

\* The request before the first one of the log: counted by offset in the session of the
\* sequencer, and by the end of the last session before the replica has changed epochs.
Base(st, q) == IF Current(st, q) THEN Before(q) + st.offset ELSE Before(q) - Len(st.log)

PieceAt(log, ordered, base) ==
  /\ base \in Nat /\ base + Len(log) <= Len(ordered)
  /\ \A i \in 1 .. Len(log) : log[i] = ordered[base + i]

\* Up to the second session a replica's log is a piece of the order, and, but for what
\* is left over of the first session, its buffer has packets of the session.
Placed(st, q) ==
  /\ st.session = q.session \/ st.session = q.session - 1
  /\ st.session = 0 => st.log = << >> /\ st.buffer = {}
  /\ st.session # 0 => PieceAt(st.log, q.ordered, Base(st, q))
  /\ st.status = "epochChange" => st.session = 1 /\ q.session = 2
  /\ Current(st, q) \/ st.status = "epochChange" =>
       \A e \in st.buffer : e[1] \in 1 .. Len(q.packets) /\ e[2] = q.packets[e[1]].request

\* The votes of the first epoch change.
SoundVote(session, q) == session = 2 /\ q.session = 2

Good(r, st, q) ==
  /\ Sound(r, st)
  /\ q.session <= 2 => /\ Placed(st, q)
                       /\ \A m \in st.out : m.type # "reply" => SoundVote(m.session, q)

\* Requests that are executed stay so.
Step(r, s, t, q) == Good(r, t, q) /\ Done(s) \subseteq Done(t)

\* Two steps make a step.
LEMMA StepTransitive ==
  ASSUME NEW r, NEW q, NEW s, NEW t, NEW u, Step(r, s, t, q), Step(r, t, u, q)
  PROVE  Step(r, s, u, q)
BY DEF Step

\* A replica that has executed the same and sends no further reply stays sound.
LEMMA SoundKeeps ==
  ASSUME NEW r, NEW s, Sound(r, s), NEW t \in ReplicaState, IsFiniteSet(t.buffer),
         t.table = s.table, t.executed = s.executed,
         \A m \in t.out : m \in s.out \/ m.type # "reply"
  PROVE  Sound(r, t) /\ Done(t) = Done(s)
BY DEF Sound, Done

\* A request that is the next one of the order goes to the end of the log.
LEMMA NextIsPlaced ==
  ASSUME NEW q, SequencerOK(q), NEW r, NEW s \in ReplicaState, Placed(s, q), Current(s, q),
         NextNumber(s) \in 1 .. Len(q.packets),
         NEW t, Executes(r, s, t, q.packets[NextNumber(s)].request)
  PROVE  Placed(t, q)
<1> DEFINE n == NextNumber(s)
           req == q.packets[n].request
           b == Before(q)
<1>1. /\ q.packets \in Seq(Packets) /\ q.ordered \in Seq(Requests) /\ q.session \in Nat \ {0}
      /\ Len(q.packets) \in Nat /\ Len(q.ordered) \in Nat /\ b \in Nat
      /\ b + Len(q.packets) = Len(q.ordered)
  BY DEF SequencerOK, Sequencer, Before
<1>2. /\ n = s.offset + Len(s.log) + 1 /\ s.offset \in Int /\ Len(s.log) \in Nat
      /\ s.log \in Seq(Requests)
  BY FieldTypes DEF NextNumber
<1>3. req = q.ordered[b + n] /\ req \in Requests
  BY <1>1 DEF SequencerOK, Packets
<1>4. /\ t.log = Append(s.log, req) /\ t.status = s.status /\ t.session = s.session
      /\ t.offset = s.offset /\ t.buffer = s.buffer
  BY DEF Executes
<1>5. Base(s, q) = b + s.offset /\ Base(t, q) = Base(s, q) /\ s.session # 0 /\ Current(t, q)
  BY <1>1, <1>4 DEF Base, Current
<1>6. PieceAt(s.log, q.ordered, Base(s, q))
  BY <1>5 DEF Placed
<1> HIDE DEF n, req, b
<1>7. PieceAt(t.log, q.ordered, Base(t, q))
  <2> DEFINE base == Base(s, q)
             k == Len(s.log)
  <2>0. /\ base \in Nat /\ k \in Nat /\ base + k <= Len(q.ordered)
        /\ \A i \in 1 .. k : s.log[i] = q.ordered[base + i]
    BY <1>2, <1>6 DEF PieceAt
  <2>3. base + k + 1 = b + n /\ n \in Nat /\ n <= Len(q.packets)
    BY <1>1, <1>2, <1>5 DEF n
  <2>4. /\ Len(t.log) = k + 1 /\ t.log[k + 1] = req
        /\ \A i \in 1 .. k : t.log[i] = s.log[i]
    BY <1>2, <1>3, <1>4
  <2>1. /\ base \in Nat /\ k \in Nat /\ base + k + 1 = b + n /\ n <= Len(q.packets) /\ n \in Nat
        /\ Len(t.log) = k + 1 /\ t.log[k + 1] = req
        /\ \A i \in 1 .. k : t.log[i] = s.log[i] /\ s.log[i] = q.ordered[base + i]
    BY <2>0, <2>3, <2>4
  <2> HIDE DEF base, k
  <2>2. \A i \in 1 .. k + 1 : t.log[i] = q.ordered[base + i]
    <3>1. ASSUME NEW i \in 1 .. k + 1 PROVE t.log[i] = q.ordered[base + i]
      <4>1. CASE i = k + 1
        <5>1. base + (k + 1) = b + n
          BY <2>1
        <5> QED BY <1>3, <2>1, <4>1, <5>1
      <4>2. CASE i # k + 1
        BY <2>1, <4>2
      <4> QED BY <4>1, <4>2
    <3> QED BY <3>1
  <2>5. base + (k + 1) <= Len(q.ordered)
    BY <1>1, <2>1
  <2> QED BY <1>5, <2>1, <2>2, <2>5 DEF PieceAt, base
<1> QED BY <1>4, <1>5, <1>7 DEF Placed, Current

\* What is taken out of the buffer leaves a replica where it is.
LEMMA PlacedKeeps ==
  ASSUME NEW q, NEW s, Placed(s, q), NEW t, t.status = s.status, t.session = s.session,
         t.offset = s.offset, t.log = s.log, t.buffer \subseteq s.buffer
  PROVE  Placed(t, q)
<1>1. Base(t, q) = Base(s, q) /\ (Current(t, q) <=> Current(s, q))
  BY DEF Base, Current
<1> HIDE DEF Base, Current
<1> QED BY <1>1, Zenon DEF Placed

-----------------------------------------------------------------------------
(* The handlers of packets in the order. *)

\* A replica that executes packets of the buffer is in the session of the sequencer.
Ready(st, q) == q.session <= 2 => Current(st, q)

\* One turn of TryExecute is a step.
LEMMA ExecuteNextSteps ==
  ASSUME NEW q, SequencerOK(q), NEW r \in Replicas, NEW s, Good(r, s, q), Ready(s, q)
  PROVE  /\ Step(r, s, ExecuteNext(r, s), q) /\ Ready(ExecuteNext(r, s), q)
         /\ ExecuteNext(r, s).out \in SUBSET Message
<1> DEFINE next == {e \in s.buffer : /\ e[1] = NextNumber(s) /\ Verified(s, e[1])
                                     /\ \A other \in s.buffer : e[1] <= other[1]}
           e == CHOOSE x \in next : TRUE
           u == ExecuteOne(r, s, e[2])
           t == [u EXCEPT !.buffer = @ \ {e}]
<1>0. s \in ReplicaState /\ Sound(r, s)
  BY DEF Good, Sound
<1>1. ExecuteNext(r, s) = IF next = {} THEN s ELSE t
  BY DEF ExecuteNext
<1>2. CASE next = {}
  BY <1>0, <1>1, <1>2, FieldTypes DEF Step
<1>3. CASE next # {}
  <2>1. e \in s.buffer /\ e[1] = NextNumber(s)
    <3>1. e \in next
      BY <1>3
    <3> HIDE DEF e
    <3> QED BY <3>1
  <2>2. e[1] \in Nat /\ e[2] \in Requests
    BY <1>0, <2>1, FieldTypes
  <2> HIDE DEF next, e
  <2>3. Executes(r, s, u, e[2])
    BY <1>0, <2>2, ExecuteOneIs
  <2>4. Sound(r, u) /\ Done(s) \subseteq Done(u)
    BY <1>0, <2>2, ExecuteOneSound
  <2> HIDE DEF u
  <2>5. u \in ReplicaState /\ IsFiniteSet(u.buffer) /\ u.out \in SUBSET Message
    BY <2>4, FieldTypes DEF Sound
  <2>6. /\ t \in ReplicaState /\ t.buffer = u.buffer \ {e}
        /\ t.status = u.status /\ t.session = u.session /\ t.offset = u.offset
        /\ t.log = u.log /\ t.table = u.table /\ t.executed = u.executed /\ t.out = u.out
    <3> DEFINE buffer == u.buffer \ {e}
    <3>1. buffer \in SUBSET (Nat \X Requests)
      BY <2>5, FieldTypes
    <3> HIDE DEF buffer
    <3>2. /\ [u EXCEPT !.buffer = buffer] \in ReplicaState
          /\ [u EXCEPT !.buffer = buffer].buffer = buffer
      BY <2>5, <3>1 DEF ReplicaState
    <3> QED BY <2>5, <3>2 DEF ReplicaState, buffer
  <2> HIDE DEF t
  <2>7. Sound(r, t) /\ Done(t) = Done(u)
    <3>1. IsFiniteSet(t.buffer)
      BY <2>5, <2>6, FS_Subset
    <3> QED BY <2>4, <2>6, <3>1, SoundKeeps
  <2>8. ASSUME q.session <= 2
        PROVE  /\ Placed(t, q) /\ Current(t, q)
               /\ \A m \in t.out : m.type # "reply" => SoundVote(m.session, q)
    <3>1. Placed(s, q) /\ Current(s, q)
      BY <2>8 DEF Good, Ready
    <3>2. NextNumber(s) \in 1 .. Len(q.packets) /\ e[2] = q.packets[NextNumber(s)].request
      BY <2>1, <3>1 DEF Placed
    <3>3. Placed(u, q)
      BY <1>0, <2>3, <3>1, <3>2, NextIsPlaced
    <3>4. Placed(t, q)
      BY <2>6, <3>3, PlacedKeeps
    <3>5. Current(t, q)
      BY <2>3, <2>6, <3>1 DEF Current, Executes
    <3>6. \A m \in t.out : m \in s.out \/ m.type = "reply"
      BY <2>3, <2>6 DEF Executes
    <3> QED BY <2>8, <3>4, <3>5, <3>6 DEF Good
  <2>9. Good(r, t, q)
    BY <2>7, <2>8 DEF Good
  <2> QED BY <1>1, <1>3, <2>4, <2>5, <2>6, <2>7, <2>8, <2>9 DEF Step, Ready
<1> QED BY <1>2, <1>3

\* The turns of TryExecute, one after the other.
LEMMA TurnsOfTryExecute ==
  ASSUME NEW r, NEW s, IsFiniteSet(s.buffer)
  PROVE  /\ Cardinality(s.buffer) \in Nat
         /\ \E x : /\ x[0] = s
                   /\ TryExecute(r, s) = x[Cardinality(s.buffer)]
                   /\ \A k \in 1 .. Cardinality(s.buffer) : x[k] = ExecuteNext(r, x[k - 1])
<1> DEFINE n == Cardinality(s.buffer)
           Run(k, x) == x = [j \in 0 .. k |-> IF j = 0 THEN s ELSE ExecuteNext(r, x[j - 1])]
<1>1. n \in Nat
  BY FS_CardinalityType
<1>2. TryExecute(r, s) = (CHOOSE x : Run(n, x))[n]
  BY DEF TryExecute
<1> HIDE DEF n
<1>3. \E x : Run(n, x)
  <2> DEFINE S == {k \in 0 .. n : \E x : Run(k, x)}
  <2>1. 0 \in S
    <3>1. Run(0, [j \in 0 .. 0 |-> s])
      OBVIOUS
    <3> HIDE DEF Run
    <3> QED BY <1>1, <3>1
  <2>2. ASSUME NEW k \in 1 .. n, k - 1 \in S PROVE k \in S
    <3>1. PICK g : Run(k - 1, g)
      BY <2>2
    <3> DEFINE h == [j \in 0 .. k |-> IF j = k THEN ExecuteNext(r, g[k - 1]) ELSE g[j]]
    <3>2. \A j \in 0 .. k : h[j] = IF j = 0 THEN s ELSE ExecuteNext(r, h[j - 1])
      BY <1>1, <3>1
    <3>3. Run(k, h)
      BY <3>2
    <3> HIDE DEF Run, h
    <3> QED BY <1>1, <3>3
  <2> HIDE DEF S
  <2>3. n \in S
    BY <1>1, <2>1, <2>2, RoundInduction DEF S
  <2> QED BY <2>3 DEF S
<1>4. PICK x : Run(n, x) /\ TryExecute(r, s) = x[n]
  BY <1>2, <1>3
<1>5. x[0] = s /\ \A k \in 1 .. n : x[k] = ExecuteNext(r, x[k - 1])
  BY <1>1, <1>4
<1> QED BY <1>1, <1>4, <1>5 DEF n

\* TryExecute is a step.
LEMMA TryExecuteSteps ==
  ASSUME NEW q, SequencerOK(q), NEW r \in Replicas, NEW s, Good(r, s, q), Ready(s, q)
  PROVE  Step(r, s, TryExecute(r, s), q)
<1> DEFINE n == Cardinality(s.buffer)
<1>1. IsFiniteSet(s.buffer)
  BY DEF Good, Sound
<1>2. n \in Nat
  BY <1>1, TurnsOfTryExecute
<1>3. PICK x : /\ x[0] = s /\ TryExecute(r, s) = x[n]
               /\ \A k \in 1 .. n : x[k] = ExecuteNext(r, x[k - 1])
  BY <1>1, TurnsOfTryExecute
<1> HIDE DEF n
<1> DEFINE S == {k \in 0 .. n : Step(r, s, x[k], q) /\ Ready(x[k], q)}
<1>4. 0 \in S
  BY <1>2, <1>3 DEF Step
<1>5. ASSUME NEW k \in 1 .. n, k - 1 \in S PROVE k \in S
  <2>1. Step(r, s, x[k - 1], q) /\ Ready(x[k - 1], q) /\ Good(r, x[k - 1], q)
    BY <1>5 DEF Step
  <2>2. x[k] = ExecuteNext(r, x[k - 1])
    BY <1>3
  <2>3. Step(r, x[k - 1], x[k], q) /\ Ready(x[k], q)
    BY <2>1, <2>2, ExecuteNextSteps
  <2>4. Step(r, s, x[k], q)
    BY <2>1, <2>3, StepTransitive
  <2> QED BY <1>2, <2>3, <2>4
<1> HIDE DEF S
<1>6. n \in S
  BY <1>2, <1>4, <1>5, RoundInduction DEF S
<1> QED BY <1>3, <1>6 DEF S

\* A step that executes nothing.
LEMMA StepIs ==
  ASSUME NEW q, NEW r, NEW s, Good(r, s, q), NEW t \in ReplicaState, IsFiniteSet(t.buffer),
         t.table = s.table, t.executed = s.executed, q.session <= 2 => Placed(t, q),
         \A m \in t.out : \/ m \in s.out
                          \/ m.type # "reply" /\ (q.session <= 2 => SoundVote(m.session, q))
  PROVE  Step(r, s, t, q)
<1>1. Sound(r, t) /\ Done(t) = Done(s)
  BY SoundKeeps DEF Good
<1>2. q.session <= 2 => \A m \in t.out : m.type # "reply" => SoundVote(m.session, q)
  BY DEF Good
<1> QED BY <1>1, <1>2 DEF Good, Step

\* The first packet puts the replica where the packet is in the order.
LEMMA FirstPacketSteps ==
  ASSUME NEW q, SequencerOK(q), NEW r \in Replicas, NEW s, Good(r, s, q),
         NEW n \in 1 .. Len(q.packets)
  PROVE  LET t == FirstPacket(s, q.session, n)
         IN  /\ Step(r, s, t, q) /\ t.session # 0
             /\ t.status = s.status /\ t.buffer = s.buffer /\ t.log = s.log
             /\ t.out = s.out /\ t.known = s.known /\ t.high = s.high
             /\ t.session # q.session => t = s
<1> DEFINE t == FirstPacket(s, q.session, n)
<1>1. s \in ReplicaState /\ IsFiniteSet(s.buffer)
  BY DEF Good, Sound
<1>2. /\ q.session \in Nat \ {0} /\ n - 1 \in Int /\ n - 1 \in Nat /\ n <= Len(q.packets)
      /\ Len(q.packets) \in Nat /\ Len(q.ordered) \in Nat /\ Len(q.packets) <= Len(q.ordered)
  BY DEF SequencerOK, Sequencer
<1>3. CASE s.session # 0
  BY <1>3, <1>2 DEF FirstPacket, Step
<1>4. CASE s.session = 0
  <2>1. t = [s EXCEPT !.session = q.session, !.offset = n - 1]
    BY <1>4 DEF FirstPacket
  <2>2. /\ t \in ReplicaState /\ t.session = q.session /\ t.offset = n - 1
        /\ t.status = s.status /\ t.buffer = s.buffer /\ t.log = s.log /\ t.out = s.out
        /\ t.known = s.known /\ t.high = s.high
        /\ t.table = s.table /\ t.executed = s.executed
    BY <1>1, <1>2, <2>1 DEF ReplicaState
  <2> HIDE DEF t
  <2>3. ASSUME q.session <= 2 PROVE Placed(t, q)
    <3>1. s.log = << >> /\ s.buffer = {} /\ s.status # "epochChange"
      BY <1>4, <2>3 DEF Good, Placed
    <3>2. Len(t.log) = 0
      BY <2>2, <3>1
    <3>3. PieceAt(t.log, q.ordered, Base(t, q))
      <4> DEFINE base == Base(t, q)
      <4>1. base = Len(q.ordered) - Len(q.packets) + (n - 1)
        BY <2>2 DEF Base, Before, Current
      <4> DEFINE a == Len(q.ordered)
                 b == Len(q.packets)
      <4>2. a \in Nat /\ b \in Nat /\ b <= a /\ n \in 1 .. b /\ base = a - b + (n - 1)
        BY <1>2, <4>1
      <4> HIDE DEF a, b, base
      <4>3. base \in Nat /\ base + 0 <= a
        BY <4>2
      <4> QED BY <3>2, <4>3 DEF PieceAt, base, a
    <3> QED BY <1>2, <2>2, <3>1, <3>3 DEF Placed
  <2>4. Step(r, s, t, q)
    BY <1>1, <2>2, <2>3, StepIs
  <2> QED BY <1>2, <2>2, <2>4 DEF t
<1> QED BY <1>3, <1>4

-----------------------------------------------------------------------------
(* The handlers of an epoch change. *)

\* A vote for the session of the sequencer, received while the epoch changes.
VoteFor(s, session, q) ==
  session \in Nat /\ (q.session <= 2 => s.status = "epochChange" /\ SoundVote(session, q))

\* Emplace adds a vote.
LEMMA EmplaceTally ==
  ASSUME NEW tally \in Tally, NEW from \in Replicas, NEW session \in Nat
  PROVE  Emplace(tally, from, session) \in Tally
BY DEF Emplace, Tally

\* A message that is sent changes nothing else.
LEMMA PutSteps ==
  ASSUME NEW q, NEW r \in Replicas, NEW s, Good(r, s, q), NEW m \in Votes,
         q.session <= 2 => SoundVote(m.session, q)
  PROVE  Step(r, s, Put(s, m), q) /\ Put(s, m).status = s.status
<1> DEFINE t == Put(s, m)
           out == s.out \cup {m}
<1>1. s \in ReplicaState /\ IsFiniteSet(s.buffer)
  BY DEF Good, Sound
<1>2. out \in SUBSET Message /\ m.type # "reply"
  BY <1>1, FieldTypes DEF Message, Votes
<1> HIDE DEF out
<1>3. t = [s EXCEPT !.out = out]
  BY DEF Put, out
<1>4. /\ t \in ReplicaState /\ t.out = out /\ t.status = s.status /\ t.session = s.session
      /\ t.offset = s.offset /\ t.log = s.log /\ t.buffer = s.buffer
      /\ t.table = s.table /\ t.executed = s.executed
  BY <1>1, <1>2, <1>3 DEF ReplicaState
<1> HIDE DEF t
<1>5. q.session <= 2 => Placed(t, q)
  BY <1>4, PlacedKeeps DEF Good
<1>6. Step(r, s, t, q)
  BY <1>1, <1>2, <1>4, <1>5, StepIs DEF out
<1> QED BY <1>4, <1>6 DEF t

\* The end of an epoch change puts the replica into the new session, its log ending where
\* the last session did.
LEMMA EpochStartSteps ==
  ASSUME NEW q, SequencerOK(q), NEW r \in Replicas, NEW s, Good(r, s, q),
         NEW session, VoteFor(s, session, q), NEW from \in Replicas
  PROVE  Step(r, s, InsertEpochStart(r, s, from, session), q)
<1> DEFINE votes == Emplace(s.epochStarts, from, session)
           counted == [s EXCEPT !.epochStarts = votes]
           t == [s EXCEPT !.status = "normal", !.viewChanges = {}, !.epochStarts = {},
                          !.session = session, !.offset = -Len(s.log)]
<1>1. s \in ReplicaState /\ IsFiniteSet(s.buffer) /\ session \in Nat
  BY DEF Good, Sound, VoteFor
<1>2. votes \in Tally /\ {} \in Tally
  BY <1>1, FieldTypes, EmplaceTally DEF Tally
<1>3. Len(s.log) \in Nat /\ -Len(s.log) \in Int
  BY <1>1, FieldTypes
<1>4. InsertEpochStart(r, s, from, session) = IF ~Enough(votes) THEN counted ELSE TryExecute(r, t)
  BY DEF InsertEpochStart
<1> HIDE DEF votes
<1>5. Step(r, s, counted, q)
  <2>1. /\ counted \in ReplicaState /\ counted.out = s.out /\ counted.status = s.status
        /\ counted.session = s.session
        /\ counted.offset = s.offset /\ counted.log = s.log /\ counted.buffer = s.buffer
        /\ counted.table = s.table /\ counted.executed = s.executed
    BY <1>1, <1>2 DEF ReplicaState
  <2> HIDE DEF counted
  <2>2. q.session <= 2 => Placed(counted, q)
    BY <2>1, PlacedKeeps DEF Good
  <2> QED BY <1>1, <2>1, <2>2, StepIs
<1>6. /\ t \in ReplicaState /\ t.out = s.out /\ t.status = "normal" /\ t.session = session
      /\ t.offset = -Len(s.log) /\ t.log = s.log /\ t.buffer = s.buffer
      /\ t.table = s.table /\ t.executed = s.executed
  <2> DEFINE offset == -Len(s.log)
  <2>1. offset \in Int
    BY <1>3
  <2>2. t = [s EXCEPT !.status = "normal", !.viewChanges = {}, !.epochStarts = {},
                      !.session = session, !.offset = offset]
    OBVIOUS
  <2> HIDE DEF offset, t
  <2>3. /\ t \in ReplicaState /\ t.out = s.out /\ t.status = "normal" /\ t.session = session
        /\ t.offset = offset /\ t.log = s.log /\ t.buffer = s.buffer
        /\ t.table = s.table /\ t.executed = s.executed
    BY <1>1, <1>2, <2>1, <2>2 DEF ReplicaState
  <2> QED BY <2>3 DEF offset
<1> HIDE DEF t, counted
<1>7. ASSUME q.session <= 2 PROVE Placed(t, q) /\ Current(t, q)
  <2>1. /\ s.status = "epochChange" /\ session = 2 /\ q.session = 2 /\ s.session = 1 /\ Placed(s, q)
    BY <1>7 DEF VoteFor, SoundVote, Good, Placed
  <2>2. Base(t, q) = Before(q) + (-Len(s.log)) /\ Base(s, q) = Before(q) - Len(s.log)
    BY <1>6, <2>1 DEF Base, Current
  <2>3. Before(q) \in Int
    BY DEF Before, SequencerOK, Sequencer
  <2>4. Base(t, q) = Base(s, q)
    BY <1>3, <2>2, <2>3
  <2>5. PieceAt(t.log, q.ordered, Base(t, q))
    BY <1>6, <2>1, <2>4 DEF Placed
  <2> QED BY <1>6, <2>1, <2>5 DEF Placed, Current
<1>8. Step(r, s, t, q)
  BY <1>1, <1>6, <1>7, StepIs
<1>9. Step(r, s, TryExecute(r, t), q)
  <2>1. Good(r, t, q) /\ Ready(t, q)
    BY <1>7, <1>8 DEF Step, Ready
  <2>2. Step(r, t, TryExecute(r, t), q)
    BY <2>1, TryExecuteSteps
  <2> QED BY <1>8, <2>2, StepTransitive
<1> QED BY <1>4, <1>5, <1>9

\* A replica that sends an epoch start counts its own.
LEMMA SendEpochStartSteps ==
  ASSUME NEW q, SequencerOK(q), NEW r \in Replicas, NEW s, Good(r, s, q),
         NEW session, VoteFor(s, session, q)
  PROVE  Step(r, s, SendEpochStart(r, s, session), q)
<1> DEFINE m == [type |-> "epochStart", from |-> r, session |-> session]
           t == Put(s, m)
<1>1. m \in Votes /\ m.session = session
  BY DEF Votes, VoteFor
<1> HIDE DEF m
<1>2. Step(r, s, t, q) /\ t.status = s.status
  BY <1>1, PutSteps DEF VoteFor
<1>3. SendEpochStart(r, s, session) = InsertEpochStart(r, t, r, session)
  BY DEF SendEpochStart, m
<1> HIDE DEF t
<1>4. Step(r, t, InsertEpochStart(r, t, r, session), q)
  BY <1>2, EpochStartSteps DEF Step, VoteFor
<1> QED BY <1>2, <1>3, <1>4, StepTransitive

\* Enough view changes begin the epoch.
LEMMA ViewChangeSteps ==
  ASSUME NEW q, SequencerOK(q), NEW r \in Replicas, NEW s, Good(r, s, q),
         NEW session, VoteFor(s, session, q), NEW from \in Replicas
  PROVE  Step(r, s, InsertViewChange(r, s, from, session), q)
<1> DEFINE votes == Emplace(s.viewChanges, from, session)
           voted == [s EXCEPT !.viewChanges = votes]
           m == [type |-> "viewStart", from |-> r, session |-> session]
           t == Put(voted, m)
<1>1. s \in ReplicaState /\ IsFiniteSet(s.buffer) /\ session \in Nat
  BY DEF Good, Sound, VoteFor
<1>2. votes \in Tally
  BY <1>1, FieldTypes, EmplaceTally
<1>3. InsertViewChange(r, s, from, session) =
        IF ~Enough(votes) THEN voted ELSE SendEpochStart(r, t, session)
  BY DEF InsertViewChange
<1> HIDE DEF votes
<1>4. Step(r, s, voted, q) /\ voted.status = s.status
  <2>1. /\ voted \in ReplicaState /\ voted.out = s.out /\ voted.status = s.status
        /\ voted.session = s.session
        /\ voted.offset = s.offset /\ voted.log = s.log /\ voted.buffer = s.buffer
        /\ voted.table = s.table /\ voted.executed = s.executed
    BY <1>1, <1>2 DEF ReplicaState
  <2> HIDE DEF voted
  <2>2. q.session <= 2 => Placed(voted, q)
    BY <2>1, PlacedKeeps DEF Good
  <2> QED BY <1>1, <2>1, <2>2, StepIs
<1> HIDE DEF voted
<1>5. m \in Votes /\ m.session = session
  BY <1>1 DEF Votes
<1> HIDE DEF m
<1>6. Step(r, voted, t, q) /\ t.status = s.status
  BY <1>4, <1>5, PutSteps DEF VoteFor, Step
<1> HIDE DEF t
<1>7. Step(r, t, SendEpochStart(r, t, session), q)
  BY <1>6, SendEpochStartSteps DEF Step, VoteFor
<1> QED BY <1>3, <1>4, <1>6, <1>7, StepTransitive

\* The first packet of a new session begins the epoch change.
LEMMA EpochChangeSteps ==
  ASSUME NEW q, SequencerOK(q), NEW r \in Replicas, NEW s, Good(r, s, q),
         s.session # 0, s.session # q.session
  PROVE  Step(r, s, StartEpochChange(r, s, q.session), q)
<1> DEFINE m == [type |-> "viewChange", from |-> r, session |-> q.session]
           begun == [s EXCEPT !.status = "epochChange", !.buffer = {}]
           changing == Put(begun, m)
<1>1. s \in ReplicaState /\ IsFiniteSet(s.buffer) /\ q.session \in Nat \ {0} /\ s.session \in Nat
  BY FieldTypes DEF Good, Sound, SequencerOK, Sequencer
<1>2. /\ begun \in ReplicaState /\ begun.out = s.out /\ begun.status = "epochChange"
      /\ begun.session = s.session
      /\ begun.offset = s.offset /\ begun.log = s.log /\ begun.buffer = {}
      /\ begun.table = s.table /\ begun.executed = s.executed
  BY <1>1 DEF ReplicaState
<1>3. StartEpochChange(r, s, q.session) =
        IF r = Leader THEN InsertViewChange(r, changing, r, q.session) ELSE changing
  BY DEF StartEpochChange
<1> HIDE DEF begun
<1>4. q.session <= 2 => s.session = 1 /\ q.session = 2
  BY <1>1 DEF Good, Placed
<1>5. q.session <= 2 => Placed(begun, q)
  <2>1. Base(begun, q) = Base(s, q)
    BY <1>2 DEF Base, Current
  <2> QED BY <1>2, <1>4, <2>1 DEF Good, Placed
<1>6. Step(r, s, begun, q)
  <2>1. IsFiniteSet(begun.buffer)
    BY <1>2, FS_EmptySet
  <2> QED BY <1>2, <1>5, <2>1, StepIs
<1>7. m \in Votes /\ m.session = q.session
  BY <1>1 DEF Votes
<1> HIDE DEF m
<1>8. Step(r, begun, changing, q) /\ changing.status = "epochChange"
  BY <1>2, <1>4, <1>6, <1>7, PutSteps DEF Step, SoundVote
<1> HIDE DEF changing
<1>9. VoteFor(changing, q.session, q)
  BY <1>1, <1>4, <1>8 DEF VoteFor, SoundVote
<1>10. Step(r, changing, InsertViewChange(r, changing, r, q.session), q)
  BY <1>8, <1>9, ViewChangeSteps DEF Step
<1> QED BY <1>3, <1>6, <1>8, <1>10, StepTransitive

-----------------------------------------------------------------------------
(* The handlers of a packet. *)

\* A replica that buffers a packet has had a first one.
Begun(st, q) == q.session <= 2 => st.session # 0

\* At most packet n is put into the buffer.
Stores(s, t, n, q) ==
  \E buffer : /\ buffer \subseteq s.buffer \cup {<<n, q.packets[n].request>>}
              /\ t = [s EXCEPT !.buffer = buffer]

\* A packet of the session that is put into the buffer.
LEMMA StoreSteps ==
  ASSUME NEW q, SequencerOK(q), NEW r \in Replicas, NEW s, Good(r, s, q),
         NEW n \in 1 .. Len(q.packets), Begun(s, q), NEW t, Stores(s, t, n, q)
  PROVE  Step(r, s, t, q) /\ t.session = s.session
<1> DEFINE e == <<n, q.packets[n].request>>
<1>0. PICK buffer : buffer \subseteq s.buffer \cup {e} /\ t = [s EXCEPT !.buffer = buffer]
  BY DEF Stores
<1>1. s \in ReplicaState /\ IsFiniteSet(s.buffer)
  BY DEF Good, Sound
<1>2. e \in Nat \X Requests /\ e[1] = n /\ e[2] = q.packets[n].request
  <2>1. q.packets[n] \in Packets /\ n \in Nat
    BY DEF SequencerOK, Sequencer
  <2> QED BY <2>1 DEF Packets
<1> HIDE DEF e
<1>3. buffer \in SUBSET (Nat \X Requests) /\ IsFiniteSet(buffer)
  <2>1. IsFiniteSet(s.buffer \cup {e}) /\ buffer \subseteq s.buffer \cup {e}
    BY <1>0, <1>1, FS_AddElement
  <2>2. IsFiniteSet(buffer)
    BY <2>1, FS_Subset
  <2> QED BY <1>1, <1>2, <2>1, <2>2, FieldTypes
<1>4. /\ t \in ReplicaState /\ t.out = s.out /\ t.status = s.status /\ t.session = s.session
      /\ t.offset = s.offset /\ t.log = s.log /\ t.buffer = buffer
      /\ t.table = s.table /\ t.executed = s.executed
  BY <1>0, <1>1, <1>3 DEF ReplicaState
<1>5. q.session <= 2 => Placed(t, q)
  <2>1. Base(t, q) = Base(s, q) /\ (Current(t, q) <=> Current(s, q))
    BY <1>4 DEF Base, Current
  <2>2. \A x \in t.buffer : x \in s.buffer \/ x = e
    BY <1>0, <1>4
  <2> HIDE DEF Base, Current
  <2> QED BY <1>2, <1>4, <2>1, <2>2 DEF Good, Placed, Begun
<1>6. Step(r, s, t, q)
  BY <1>3, <1>4, <1>5, StepIs
<1> QED BY <1>4, <1>6

\* The client's address changes nothing else.
LEMMA KnowSteps ==
  ASSUME NEW q, NEW r \in Replicas, NEW s, Good(r, s, q), NEW c \in Clients,
         NEW t, t = Know(s, c)
  PROVE  Step(r, s, t, q) /\ t.session = s.session /\ NextNumber(t) = NextNumber(s)
<1> DEFINE known == s.known \cup {c}
<1>1. s \in ReplicaState /\ IsFiniteSet(s.buffer)
  BY DEF Good, Sound
<1>2. known \in SUBSET Clients
  BY <1>1, FieldTypes
<1>3. t = [s EXCEPT !.known = known]
  BY DEF Know
<1> HIDE DEF known
<1>4. /\ t \in ReplicaState /\ t.out = s.out /\ t.status = s.status /\ t.session = s.session
      /\ t.offset = s.offset /\ t.log = s.log /\ t.buffer = s.buffer
      /\ t.table = s.table /\ t.executed = s.executed
  BY <1>1, <1>2, <1>3 DEF ReplicaState
<1>5. q.session <= 2 => Placed(t, q)
  BY <1>4, PlacedKeeps DEF Good
<1>6. Step(r, s, t, q)
  BY <1>1, <1>4, <1>5, StepIs
<1> QED BY <1>4, <1>6 DEF NextNumber

\* The highest signed number changes nothing else.
LEMMA HighSteps ==
  ASSUME NEW q, NEW r \in Replicas, NEW s, Good(r, s, q), NEW n \in Nat,
         NEW t, t = [s EXCEPT !.high = n]
  PROVE  Step(r, s, t, q) /\ t.session = s.session
<1>1. s \in ReplicaState /\ IsFiniteSet(s.buffer)
  BY DEF Good, Sound
<1>2. /\ t \in ReplicaState /\ t.out = s.out /\ t.status = s.status /\ t.session = s.session
      /\ t.offset = s.offset /\ t.log = s.log /\ t.buffer = s.buffer
      /\ t.table = s.table /\ t.executed = s.executed
  BY <1>1 DEF ReplicaState
<1>3. q.session <= 2 => Placed(t, q)
  BY <1>2, PlacedKeeps DEF Good
<1>4. Step(r, s, t, q)
  BY <1>1, <1>2, <1>3, StepIs
<1> QED BY <1>2, <1>4

\* The packet that comes next is executed.
LEMMA ExecuteOneSteps ==
  ASSUME NEW q, SequencerOK(q), NEW r \in Replicas, NEW s, Good(r, s, q), Ready(s, q),
         NextNumber(s) \in 1 .. Len(q.packets)
  PROVE  LET t == ExecuteOne(r, s, q.packets[NextNumber(s)].request)
         IN  Step(r, s, t, q) /\ Ready(t, q)
<1> DEFINE req == q.packets[NextNumber(s)].request
           t == ExecuteOne(r, s, req)
<1>1. s \in ReplicaState /\ Sound(r, s) /\ req \in Requests
  <2>1. q.packets[NextNumber(s)] \in Packets
    BY DEF SequencerOK, Sequencer
  <2> QED BY <2>1 DEF Good, Sound, Packets
<1> HIDE DEF req
<1>2. Executes(r, s, t, req) /\ Sound(r, t) /\ Done(s) \subseteq Done(t)
  BY <1>1, ExecuteOneIs, ExecuteOneSound
<1> HIDE DEF t
<1>3. ASSUME q.session <= 2
      PROVE  /\ Placed(t, q) /\ Current(t, q)
             /\ \A m \in t.out : m.type # "reply" => SoundVote(m.session, q)
  <2>1. Placed(s, q) /\ Current(s, q)
    BY <1>3 DEF Good, Ready
  <2>2. Placed(t, q)
    BY <1>1, <1>2, <2>1, NextIsPlaced DEF req
  <2>3. Current(t, q) /\ \A m \in t.out : m \in s.out \/ m.type = "reply"
    BY <1>2, <2>1 DEF Current, Executes
  <2> QED BY <1>3, <2>2, <2>3 DEF Good
<1>4. Step(r, s, t, q) /\ Ready(t, q)
  BY <1>2, <1>3 DEF Step, Good, Ready
<1> QED BY <1>4 DEF t, req

\* What a replica with authenticated packets does with a packet.
LEMMA HMACSteps ==
  ASSUME NEW q, SequencerOK(q), NEW r \in Replicas, NEW s, Good(r, s, q),
         NEW n \in 1 .. Len(q.packets)
  PROVE  Step(r, s, HandleHMAC(r, s, q.session, n, q.packets[n]), q)
<1> DEFINE packet == q.packets[n]
           req == packet.request
           first == FirstPacket(s, q.session, n)
           known == Know(first, req.client)
           store(x) == [x EXCEPT !.buffer = Emplace(@, n, req)]
           next == IF n = NextNumber(first) THEN ExecuteOne(r, known, req) ELSE store(known)
           changing == StartEpochChange(r, first, q.session)
<1>1. /\ HandleHMAC(r, s, q.session, n, packet) =
           IF s.status # "normal" THEN store(s)
           ELSE IF first.session # q.session THEN store(changing)
           ELSE IF n < NextNumber(first) THEN first
           ELSE TryExecute(r, next)
  BY DEF HandleHMAC
<1>2. req.client \in Clients /\ s \in ReplicaState /\ 0 \in Nat
  <2>1. packet \in Packets
    BY DEF SequencerOK, Sequencer
  <2> QED BY <2>1 DEF Packets, Requests, Good, Sound
<1>3. ASSUME NEW x, Good(r, x, q), Begun(x, q)
      PROVE  Step(r, x, store(x), q) /\ store(x).session = x.session
  <2> DEFINE y == store(x)
  <2>1. Stores(x, y, n, q)
    BY DEF Stores, Emplace
  <2> HIDE DEF y
  <2>2. Step(r, x, y, q) /\ y.session = x.session
    BY <1>3, <2>1, StoreSteps
  <2> QED BY <2>2 DEF y
<1>4. CASE s.status # "normal"
  <2>1. Begun(s, q)
    BY <1>2, <1>4, FieldTypes DEF Good, Placed, Begun
  <2> QED BY <1>1, <1>3, <1>4, <2>1
<1>5. /\ Step(r, s, first, q) /\ Good(r, first, q) /\ first.session # 0
  BY FirstPacketSteps DEF Step
<1> HIDE DEF first, packet, req
<1>6. CASE first.session # q.session
  <2>1. Step(r, first, changing, q)
    BY <1>5, <1>6, EpochChangeSteps
  <2> HIDE DEF changing
  <2>2. ASSUME q.session <= 2 PROVE changing.session # 0
    <3>1. Placed(changing, q) /\ Placed(first, q) /\ q.session \in Nat \ {0}
      BY <2>1, <2>2, <1>5 DEF Step, Good, SequencerOK, Sequencer
    <3>2. first.session \in Nat
      BY <1>5, FieldTypes DEF Good, Sound
    <3>3. q.session = 2
      BY <1>5, <1>6, <2>2, <3>1, <3>2 DEF Placed
    <3> QED BY <3>1, <3>3 DEF Placed
  <2>3. Step(r, changing, store(changing), q)
    BY <1>3, <2>1, <2>2 DEF Step, Begun
  <2>4. Step(r, s, store(changing), q)
    BY <1>5, <2>1, <2>3, StepTransitive
  <2> HIDE DEF store
  <2> QED BY <1>1, <1>4, <1>6, <2>4 DEF packet
<1>7. CASE first.session = q.session /\ n < NextNumber(first)
  BY <1>1, <1>4, <1>5, <1>7 DEF packet
<1>8. CASE first.session = q.session /\ ~(n < NextNumber(first))
  <2>0. known = Know(first, req.client)
    OBVIOUS
  <2> HIDE DEF known
  <2>4. /\ Step(r, first, known, q) /\ known.session = first.session
        /\ NextNumber(known) = NextNumber(first)
    <3>1. \A t : t = Know(first, req.client) =>
            /\ Step(r, first, t, q) /\ t.session = first.session
            /\ NextNumber(t) = NextNumber(first)
      BY <1>2, <1>5, KnowSteps
    <3> QED BY <2>0, <3>1, Zenon
  <2>1. /\ Step(r, first, known, q) /\ Good(r, known, q) /\ known.session = q.session
        /\ NextNumber(known) = NextNumber(first)
    BY <1>8, <2>4 DEF Step
  <2>2. Step(r, known, next, q) /\ Ready(next, q)
    <3>1. CASE n = NextNumber(first)
      <4>1. Ready(known, q) /\ NextNumber(known) \in 1 .. Len(q.packets)
        BY <2>1, <3>1 DEF Ready, Current
      <4>2. req = q.packets[NextNumber(known)].request
        BY <2>1, <3>1 DEF req, packet
      <4>3. Step(r, known, ExecuteOne(r, known, req), q) /\ Ready(ExecuteOne(r, known, req), q)
        BY <2>1, <4>1, <4>2, ExecuteOneSteps
      <4> QED BY <3>1, <4>3
    <3>2. CASE n # NextNumber(first)
      <4>1. Begun(known, q)
        BY <1>5, <1>8, <2>1, <2>4 DEF Begun
      <4>2. Step(r, known, store(known), q) /\ store(known).session = known.session
        BY <1>3, <2>1, <4>1
      <4> QED BY <2>1, <3>2, <4>2 DEF Ready, Current
    <3> QED BY <3>1, <3>2
  <2> HIDE DEF next
  <2>3. Step(r, next, TryExecute(r, next), q)
    BY <2>2, TryExecuteSteps DEF Step
  <2>5. Step(r, s, TryExecute(r, next), q)
    BY <1>5, <2>1, <2>2, <2>3, StepTransitive
  <2> QED BY <1>1, <1>4, <1>8, <2>5 DEF packet
<1> QED BY <1>4, <1>6, <1>7, <1>8

\* What a replica with signatures does with a packet of the only session.
LEMMA SignedSteps ==
  ASSUME NEW q, SequencerOK(q), q.session = 1, NEW r \in Replicas, NEW s, Good(r, s, q),
         NEW n \in 1 .. Len(q.packets)
  PROVE  Step(r, s, HandleSigned(r, s, q.session, n, q.packets[n]), q)
<1> DEFINE packet == q.packets[n]
           req == packet.request
           known == Know(s, req.client)
           first == FirstPacket(known, q.session, n)
           buffer == Replace(first.buffer, n, req)
           buffered == [first EXCEPT !.buffer = buffer]
           signed == [buffered EXCEPT !.high = n]
<1>1. HandleSigned(r, s, q.session, n, packet) =
        IF n <= s.offset + Len(s.log) THEN s
        ELSE IF packet.signed /\ n > s.high THEN TryExecute(r, signed) ELSE buffered
  BY DEF HandleSigned
<1>2. req.client \in Clients /\ n \in Nat
  <2>1. packet \in Packets
    BY DEF SequencerOK, Sequencer
  <2> QED BY <2>1 DEF Packets, Requests
<1>3. Step(r, s, known, q) /\ Good(r, known, q)
  BY <1>2, KnowSteps DEF Step
<1> HIDE DEF known, req, packet
<1>4. /\ Step(r, known, first, q) /\ Good(r, first, q)
      /\ first.session # 0
  BY <1>3, FirstPacketSteps DEF Step
<1>5. buffer \subseteq first.buffer \cup {<<n, req>>}
  BY DEF Replace
<1>13. buffered = [first EXCEPT !.buffer = buffer] /\ signed = [buffered EXCEPT !.high = n]
  OBVIOUS
<1> HIDE DEF first, buffer, buffered, signed
<1>14. Stores(first, buffered, n, q) /\ Begun(first, q)
  BY <1>4, <1>5, <1>13 DEF Stores, Begun, req, packet
<1>15. Step(r, first, buffered, q) /\ buffered.session = first.session
  BY <1>4, <1>14, StoreSteps
<1>6. Step(r, first, buffered, q) /\ Good(r, buffered, q) /\ buffered.session = first.session
  BY <1>15 DEF Step
<1>7. Step(r, s, buffered, q)
  BY <1>3, <1>4, <1>6, StepTransitive
<1>8. Step(r, buffered, signed, q) /\ signed.session = first.session
  <2>1. \A t : t = [buffered EXCEPT !.high = n] =>
              Step(r, buffered, t, q) /\ t.session = buffered.session
    BY <1>2, <1>6, HighSteps
  <2> QED BY <1>6, <1>13, <2>1, Zenon
<1>9. Ready(signed, q)
  <2>1. first.session = 1
    BY <1>4, FieldTypes DEF Good, Placed, Sound
  <2> QED BY <1>8, <2>1 DEF Ready, Current
<1>10. Step(r, signed, TryExecute(r, signed), q)
  BY <1>8, <1>9, TryExecuteSteps DEF Step
<1>11. Step(r, s, TryExecute(r, signed), q)
  BY <1>7, <1>8, <1>10, StepTransitive
<1>12. Step(r, s, s, q)
  BY DEF Step
<1> QED BY <1>1, <1>7, <1>11, <1>12 DEF packet

-----------------------------------------------------------------------------
(* What the sequencer does to a replica. *)

\* A packet more leaves a replica where it is.
LEMMA SequenceKeeps ==
  ASSUME NEW q, SequencerOK(q), NEW packet \in Packets,
         NEW p, p = [q EXCEPT !.packets = Append(@, packet), !.ordered = Append(@, packet.request)]
  PROVE  /\ SequencerOK(p) /\ p.session = q.session
         /\ \A r, s : Good(r, s, q) => Good(r, s, p)
<1>1. /\ q \in Sequencer /\ q.packets \in Seq(Packets) /\ q.ordered \in Seq(Requests)
      /\ Len(q.packets) \in Nat /\ Len(q.ordered) \in Nat /\ Len(q.packets) <= Len(q.ordered)
      /\ packet.request \in Requests
  BY DEF SequencerOK, Sequencer, Packets
<1>2. /\ p.session = q.session /\ p.packets = Append(q.packets, packet)
      /\ p.ordered = Append(q.ordered, packet.request)
      /\ p.packets \in Seq(Packets) /\ p.ordered \in Seq(Requests)
  BY <1>1 DEF Sequencer
<1>3. p \in Sequencer
  <2> DEFINE packets == Append(q.packets, packet)
             ordered == Append(q.ordered, packet.request)
  <2>1. packets \in Seq(Packets) /\ ordered \in Seq(Requests)
    BY <1>2
  <2>2. p = [q EXCEPT !.packets = packets, !.ordered = ordered]
    OBVIOUS
  <2> HIDE DEF packets, ordered
  <2> QED BY <1>1, <2>1, <2>2 DEF Sequencer
<1> DEFINE k == Len(q.packets)
           n == Len(q.ordered)
<1>4. /\ k \in Nat /\ n \in Nat /\ k <= n /\ Len(p.packets) = k + 1 /\ Len(p.ordered) = n + 1
      /\ \A i \in 1 .. k : p.packets[i] = q.packets[i]
      /\ \A i \in 1 .. n : p.ordered[i] = q.ordered[i]
      /\ p.packets[k + 1] = packet /\ p.ordered[n + 1] = packet.request
  BY <1>1, <1>2
<1>5. Before(p) = n - k /\ Before(q) = n - k /\ n - k \in Nat
  <2>1. Before(p) = (n + 1) - (k + 1) /\ Before(q) = n - k
    BY <1>4 DEF Before
  <2> HIDE DEF n, k
  <2> QED BY <1>4, <2>1
<1>6. \A i \in 1 .. k : q.packets[i].request = q.ordered[(n - k) + i]
  BY <1>5 DEF SequencerOK
<1> HIDE DEF n, k
<1>7. \A i \in 1 .. k : (n - k) + i \in 1 .. n
  BY <1>4
<1>8. SequencerOK(p)
  <2>1. ASSUME NEW i \in 1 .. k + 1 PROVE p.packets[i].request = p.ordered[(n - k) + i]
    <3>1. CASE i = k + 1
      <4>1. (n - k) + i = n + 1
        BY <1>4, <3>1
      <4> QED BY <1>4, <3>1, <4>1
    <3>2. CASE i # k + 1
      <4>1. i \in 1 .. k
        BY <1>4, <3>2
      <4> QED BY <1>4, <1>6, <1>7, <4>1
    <3> QED BY <3>1, <3>2
  <2>2. k + 1 <= n + 1
    BY <1>4
  <2> QED BY <1>3, <1>4, <1>5, <2>1, <2>2 DEF SequencerOK
<1>9. ASSUME NEW log, Len(log) \in Nat, NEW base, PieceAt(log, q.ordered, base)
      PROVE  PieceAt(log, p.ordered, base)
  <2> DEFINE h == Len(log)
  <2>1. base \in Nat /\ h \in Nat /\ base + h <= n /\ \A i \in 1 .. h : log[i] = q.ordered[base + i]
    BY <1>9 DEF PieceAt, n
  <2> HIDE DEF h
  <2>2. \A i \in 1 .. h : base + i \in 1 .. n
    BY <1>4, <2>1
  <2>3. base + h <= n + 1
    BY <1>4, <2>1
  <2> QED BY <1>4, <2>1, <2>2, <2>3 DEF PieceAt, h
<1>10. ASSUME NEW r, NEW s, Good(r, s, q) PROVE Good(r, s, p)
  <2>1. s \in ReplicaState /\ Len(s.log) \in Nat
    BY <1>10, FieldTypes DEF Good, Sound
  <2>2. ASSUME q.session <= 2 PROVE Placed(s, p)
    <3>1. Placed(s, q)
      BY <1>10, <2>2 DEF Good
    <3>2. Base(s, p) = Base(s, q) /\ (Current(s, p) <=> Current(s, q))
      BY <1>2, <1>5 DEF Base, Current
    <3>3. s.session # 0 => PieceAt(s.log, p.ordered, Base(s, p))
      BY <1>9, <2>1, <3>1, <3>2 DEF Placed
    <3>4. ASSUME Current(s, p) \/ s.status = "epochChange", NEW e \in s.buffer
          PROVE  e[1] \in 1 .. Len(p.packets) /\ e[2] = p.packets[e[1]].request
      <4>1. e[1] \in 1 .. k /\ e[2] = q.packets[e[1]].request
        BY <3>1, <3>2, <3>4 DEF Placed, k
      <4> QED BY <1>4, <4>1
    <3> QED BY <1>2, <3>1, <3>3, <3>4 DEF Placed
  <2> QED BY <1>2, <1>10, <2>2 DEF Good, SoundVote
<1> QED BY <1>2, <1>8, <1>10

\* At the end of a session the logs of all replicas end where the order does.
LEMMA NewSessionKeeps ==
  ASSUME NEW q, SequencerOK(q), NEW p, p = [q EXCEPT !.session = @ + 1, !.packets = << >>]
  PROVE  /\ SequencerOK(p) /\ p.session = q.session + 1
         /\ \A r, s : /\ Good(r, s, q) /\ s.status = "normal" /\ s.session = q.session
                      /\ s.offset + Len(s.log) = Len(q.packets)
                      => Good(r, s, p)
<1>1. /\ q \in Sequencer /\ q.session \in Nat \ {0}
      /\ Len(q.packets) \in Nat /\ Len(q.ordered) \in Nat /\ Len(q.packets) <= Len(q.ordered)
  BY DEF SequencerOK, Sequencer
<1>2. /\ p \in Sequencer /\ p.session = q.session + 1 /\ p.packets = << >> /\ p.ordered = q.ordered
  <2> DEFINE session == q.session + 1
             none == << >>
  <2>1. session \in Nat \ {0} /\ none \in Seq(Packets)
    BY <1>1
  <2>2. p = [q EXCEPT !.session = session, !.packets = none]
    OBVIOUS
  <2> HIDE DEF session, none
  <2>3. p \in Sequencer /\ p.session = session /\ p.packets = none /\ p.ordered = q.ordered
    BY <1>1, <2>1, <2>2 DEF Sequencer
  <2> QED BY <2>3 DEF session, none
<1>3. Len(p.packets) = 0 /\ Before(p) = Len(q.ordered)
  BY <1>1, <1>2 DEF Before
<1>4. SequencerOK(p)
  BY <1>1, <1>2, <1>3 DEF SequencerOK
<1>5. ASSUME NEW r, NEW s, Good(r, s, q), s.status = "normal", s.session = q.session,
             s.offset + Len(s.log) = Len(q.packets)
      PROVE  Good(r, s, p)
  <2>1. s \in ReplicaState /\ Len(s.log) \in Nat /\ s.offset \in Int
    BY <1>5, FieldTypes DEF Good, Sound
  <2>2. ASSUME p.session <= 2
        PROVE  Placed(s, p) /\ \A m \in s.out : m.type # "reply" => SoundVote(m.session, p)
    <3>1. q.session = 1 /\ p.session = 2
      BY <1>1, <1>2, <2>2
    <3>2. Placed(s, q) /\ \A m \in s.out : m.type # "reply" => SoundVote(m.session, q)
      BY <1>5, <3>1 DEF Good
    <3>3. Base(s, p) = Base(s, q)
      <4> DEFINE a == Len(q.ordered)
                 b == Len(q.packets)
                 h == Len(s.log)
                 o == s.offset
      <4>1. Base(s, p) = a - h /\ Base(s, q) = (a - b) + o
        BY <1>3, <1>5, <3>1 DEF Base, Current, Before
      <4>2. a \in Nat /\ b \in Nat /\ h \in Nat /\ o \in Int /\ o + h = b
        BY <1>1, <1>5, <2>1
      <4> HIDE DEF a, b, h, o
      <4> QED BY <4>1, <4>2
    <3>4. PieceAt(s.log, p.ordered, Base(s, p))
      BY <1>2, <1>5, <3>1, <3>2, <3>3 DEF Placed
    <3>5. Placed(s, p)
      BY <1>5, <3>1, <3>4 DEF Placed, Current
    <3> QED BY <3>1, <3>2, <3>5 DEF SoundVote
  <2> QED BY <1>5, <2>2 DEF Good
<1> QED BY <1>2, <1>4, <1>5

-----------------------------------------------------------------------------
(* The inductive invariant. *)

TypeInv ==
  /\ client \in [Clients -> ClientState] /\ hmac \in BOOLEAN
  /\ replica = [r \in Replicas |-> replica[r]]
  /\ msgs \in SUBSET Message

OrderInv ==
  /\ SequencerOK(sequencer) /\ (~hmac => sequencer.session = 1)
  /\ \A r \in Replicas : Good(r, replica[r], sequencer)

\* The messages sent: replies to what was executed, and votes of the first epoch change.
SoundMessage(m) ==
  /\ m.type = "reply" => m.request \in Done(replica[m.from])
  /\ m.type # "reply" /\ sequencer.session <= 2 => SoundVote(m.session, sequencer)

\* The replicas that have executed a request.
Executors(request) == {r \in Replicas : request \in Done(replica[r])}

\* What a client has counted was executed.
ClientInv ==
  \A c \in Clients :
    /\ client[c].received \subseteq Executors(Request(c, client[c].lastReqId))
    /\ \A n \in 1 .. client[c].lastReqId : (n = client[c].lastReqId => ~client[c].pending) =>
         Cardinality(Executors(Request(c, n))) >= 2 * f + 1

IInv == TypeInv /\ OrderInv /\ (\A m \in msgs : SoundMessage(m)) /\ ClientInv

\* A replica that starts has executed nothing, wherever its offset points to.
LEMMA InitHolds == ASSUME Group PROVE Init => IInv
<1> SUFFICES ASSUME Init PROVE IInv
  OBVIOUS
<1>1. \A o \in {0, MaxPacket} : Replica(o) \in ReplicaState
  <2> DEFINE none == << >>
             table == [c \in Clients |-> 0]
  <2>1. none \in Seq(Requests) /\ table \in [Clients -> Nat] /\ {} \in Tally
    BY DEF Tally
  <2>2. \A o \in {0, MaxPacket} : o \in Int
    BY DEF Group
  <2>3. \A o : Replica(o) =
          [status |-> "normal", session |-> 0, offset |-> o, high |-> 0, buffer |-> {},
           log |-> none, executed |-> none, table |-> table, known |-> {},
           viewChanges |-> {}, epochStarts |-> {}, out |-> {}]
    BY DEF Replica
  <2> HIDE DEF none, table
  <2> QED BY <2>1, <2>2, <2>3 DEF ReplicaState
<1>2. TypeInv
  BY DEF Init, TypeInv, ClientState, Client
<1>3. SequencerOK(sequencer) /\ sequencer.session = 1
  <2> DEFINE none == << >>
  <2>1. none \in Seq(Packets) /\ none \in Seq(Requests) /\ Len(none) = 0
    OBVIOUS
  <2>2. sequencer = [session |-> 1, packets |-> none, ordered |-> none]
    BY DEF Init
  <2> HIDE DEF none
  <2> QED BY <2>1, <2>2 DEF SequencerOK, Sequencer
<1>4. ASSUME NEW r \in Replicas PROVE Good(r, replica[r], sequencer)
  <2>1. PICK o \in {0, MaxPacket} : replica[r] = Replica(o)
    BY DEF Init
  <2> DEFINE s == replica[r]
  <2>2. /\ s \in ReplicaState /\ s.session = 0 /\ s.log = << >> /\ s.executed = << >>
        /\ s.buffer = {} /\ s.out = {} /\ s.status = "normal" /\ s.table = [c \in Clients |-> 0]
    <3> DEFINE u == Replica(o)
    <3>1. /\ u.session = 0 /\ u.log = << >> /\ u.executed = << >> /\ u.buffer = {}
          /\ u.out = {} /\ u.status = "normal" /\ u.table = [c \in Clients |-> 0]
      BY DEF Replica
    <3>2. s = u /\ u \in ReplicaState
      BY <1>1, <2>1
    <3> HIDE DEF u, s
    <3> QED BY <3>1, <3>2
  <2> HIDE DEF s
  <2>3. Len(s.executed) = 0 /\ IsFiniteSet(s.buffer)
    BY <2>2, FS_EmptySet
  <2>4. Sound(r, s)
    BY <2>2, <2>3 DEF Sound
  <2>5. Placed(s, sequencer)
    BY <1>3, <2>2 DEF Placed, Current
  <2> QED BY <2>2, <2>4, <2>5 DEF Good, s
<1>5. ClientInv /\ \A m \in msgs : SoundMessage(m)
  <2>1. msgs = {} /\ \A c \in Clients : client[c].lastReqId = 0 /\ client[c].received = {}
    BY DEF Init, Client
  <2> QED BY <2>1 DEF ClientInv
<1> QED BY <1>2, <1>3, <1>4, <1>5 DEF IInv, OrderInv

\* A request stays executed.
LEMMA ExecutorsKeep ==
  ASSUME Group, NEW request, \A r \in Replicas : Done(replica[r]) \subseteq Done(replica'[r])
  PROVE  /\ Executors(request) \subseteq Executors(request)'
         /\ Cardinality(Executors(request)) >= 2 * f + 1 =>
              Cardinality(Executors(request)') >= 2 * f + 1
<1>1. /\ Executors(request) \subseteq Executors(request)'
      /\ Executors(request)' \subseteq Replicas
  BY DEF Executors, Done
<1>2. IsFiniteSet(Replicas) /\ 2 * f + 1 \in Nat
  BY DEF Group
<1> QED BY <1>1, <1>2, MoreIsEnough

\* The step of one replica, and what it sends.
LEMMA FinishKeeps ==
  ASSUME Group, IInv, NEW r \in Replicas, NEW t, Step(r, replica[r], t, sequencer), Finish(r, t)
  PROVE  IInv'
<1> DEFINE none == [t EXCEPT !.out = {}]
<1>1. t \in ReplicaState /\ IsFiniteSet(t.buffer) /\ Good(r, t, sequencer) /\ Sound(r, t)
  BY DEF Step, Good, Sound
<1>2. /\ replica' = [replica EXCEPT ![r] = none] /\ msgs' = msgs \cup t.out
      /\ client' = client /\ sequencer' = sequencer /\ hmac' = hmac
  BY DEF Finish
<1>3. Step(r, t, none, sequencer)
  <2>1. /\ none \in ReplicaState /\ none.out = {} /\ none.status = t.status
        /\ none.session = t.session
        /\ none.offset = t.offset /\ none.log = t.log /\ none.buffer = t.buffer
        /\ none.table = t.table /\ none.executed = t.executed
    BY <1>1 DEF ReplicaState
  <2> HIDE DEF none
  <2>2. sequencer.session <= 2 => Placed(none, sequencer)
    BY <1>1, <2>1, PlacedKeeps DEF Good
  <2> QED BY <1>1, <2>1, <2>2, StepIs
<1> HIDE DEF none
<1>4. replica'[r] = none /\ \A s \in Replicas : s # r => replica'[s] = replica[s]
  BY <1>2 DEF IInv, TypeInv
<1>5. \A s \in Replicas : Done(replica[s]) \subseteq Done(replica'[s])
  <2>1. Done(replica[r]) \subseteq Done(none)
    BY <1>3 DEF Step
  <2> HIDE DEF Done
  <2> QED BY <1>4, <2>1
<1>6. TypeInv'
  BY <1>1, <1>2, FieldTypes DEF IInv, TypeInv
<1>7. OrderInv'
  BY <1>2, <1>3, <1>4 DEF IInv, OrderInv, Step
<1>8. ASSUME NEW m \in msgs' PROVE SoundMessage(m)'
  <2>1. CASE m \in msgs
    <3>1. SoundMessage(m) /\ (m.type = "reply" => m.from \in Replicas)
      BY <2>1 DEF IInv, TypeInv, Message, Replies, Votes
    <3> QED BY <1>2, <1>5, <3>1 DEF SoundMessage
  <2>2. CASE m \in t.out
    <3>1. m.type = "reply" => m.from = r /\ m.request \in Done(t)
      BY <1>1, <2>2 DEF Sound
    <3>2. Done(t) \subseteq Done(replica'[r])
      BY <1>3, <1>4 DEF Step
    <3>3. sequencer.session <= 2 /\ m.type # "reply" => SoundVote(m.session, sequencer)
      BY <1>1, <2>2 DEF Good
    <3> QED BY <1>2, <3>1, <3>2, <3>3 DEF SoundMessage
  <2> QED BY <1>2, <2>1, <2>2
<1>9. ClientInv'
  <2>1. \A request : /\ Executors(request) \subseteq Executors(request)'
                     /\ Cardinality(Executors(request)) >= 2 * f + 1 =>
                          Cardinality(Executors(request)') >= 2 * f + 1
    BY <1>5, ExecutorsKeep
  <2>2. ClientInv
    BY DEF IInv
  <2> HIDE DEF Executors
  <2> QED BY <1>2, <2>1, <2>2 DEF ClientInv
<1> QED BY <1>6, <1>7, <1>8, <1>9 DEF IInv

\* A client invokes its next request when its last one is completed.
LEMMA InvokeKeeps == ASSUME Group, IInv, NEW c \in Clients, Invoke(c) PROVE IInv'
<1> DEFINE mine == [lastReqId |-> client[c].lastReqId + 1, pending |-> TRUE, received |-> {}]
<1>1. /\ client \in [Clients -> ClientState] /\ client[c].lastReqId \in Nat /\ ~client[c].pending
      /\ mine \in ClientState
  BY DEF IInv, TypeInv, ClientState, Invoke
<1>2. mine.lastReqId = client[c].lastReqId + 1 /\ mine.pending /\ mine.received = {}
  OBVIOUS
<1>3. client' = [client EXCEPT ![c] = mine] /\ UNCHANGED <<replica, sequencer, hmac, msgs>>
  BY DEF Invoke
<1> HIDE DEF mine
<1>4. client'[c] = mine /\ \A d \in Clients : d # c => client'[d] = client[d]
  BY <1>1, <1>3
<1>5. TypeInv' /\ OrderInv' /\ \A m \in msgs' : SoundMessage(m)'
  BY <1>1, <1>3 DEF IInv, TypeInv, OrderInv, SoundMessage
<1>6. \A request : Executors(request)' = Executors(request)
  BY <1>3 DEF Executors, Done
<1>7. ASSUME NEW d \in Clients
      PROVE  /\ client'[d].received \subseteq Executors(Request(d, client'[d].lastReqId))
             /\ \A n \in 1 .. client'[d].lastReqId :
                  (n = client'[d].lastReqId => ~client'[d].pending) =>
                    Cardinality(Executors(Request(d, n))) >= 2 * f + 1
  <2>1. CASE d # c
    BY <1>4, <2>1 DEF IInv, ClientInv
  <2>2. CASE d = c
    <3>1. ASSUME NEW n \in 1 .. mine.lastReqId, n # mine.lastReqId
          PROVE  Cardinality(Executors(Request(c, n))) >= 2 * f + 1
      <4>1. n \in 1 .. client[c].lastReqId
        BY <1>1, <1>2, <3>1
      <4> QED BY <1>1, <4>1 DEF IInv, ClientInv
    <3> QED BY <1>2, <1>4, <2>2, <3>1
  <2> QED BY <2>1, <2>2
<1>8. ClientInv'
  BY <1>6, <1>7 DEF ClientInv
<1> QED BY <1>5, <1>8 DEF IInv

\* A client counts the replicas that reply to its last request.
LEMMA ReceiveReplyKeeps ==
  ASSUME Group, IInv, NEW c \in Clients, NEW m \in msgs, ReceiveReply(c, m)
  PROVE  IInv'
<1> DEFINE k == client[c].lastReqId
           got == client[c].received \cup {m.from}
           mine == [client[c] EXCEPT !.received = got, !.pending = Cardinality(got) < 2 * f + 1]
<1>1. /\ client \in [Clients -> ClientState] /\ client[c] \in ClientState /\ k \in Nat
      /\ client[c].received \in SUBSET Replicas
  BY DEF IInv, TypeInv, ClientState
<1>2. m \in Message /\ m.type = "reply" /\ m.request = Request(c, k)
  BY DEF IInv, TypeInv, ReceiveReply
<1>3. m.from \in Executors(Request(c, k))
  BY <1>2 DEF IInv, SoundMessage, Message, Replies, Votes, Executors
<1>4. got \subseteq Executors(Request(c, k)) /\ got \in SUBSET Replicas
  BY <1>1, <1>3 DEF IInv, ClientInv, Executors
<1>5. client' = [client EXCEPT ![c] = mine] /\ UNCHANGED <<replica, sequencer, hmac, msgs>>
  BY <1>1 DEF ReceiveReply
<1> HIDE DEF got
<1>6. /\ mine \in ClientState /\ mine.lastReqId = k /\ mine.received = got
      /\ ~mine.pending => ~(Cardinality(got) < 2 * f + 1)
  <2> DEFINE open == Cardinality(got) < 2 * f + 1
  <2>1. open \in BOOLEAN /\ mine = [client[c] EXCEPT !.received = got, !.pending = open]
    OBVIOUS
  <2> HIDE DEF open, mine
  <2>2. mine \in ClientState /\ mine.lastReqId = k /\ mine.received = got /\ mine.pending = open
    BY <1>1, <1>4, <2>1 DEF ClientState
  <2> QED BY <2>2 DEF open
<1> HIDE DEF mine
<1>7. client'[c] = mine /\ \A d \in Clients : d # c => client'[d] = client[d]
  BY <1>1, <1>5
<1>8. TypeInv' /\ OrderInv' /\ \A x \in msgs' : SoundMessage(x)'
  BY <1>1, <1>5, <1>6 DEF IInv, TypeInv, OrderInv, SoundMessage
<1>9. \A request : Executors(request)' = Executors(request)
  BY <1>5 DEF Executors, Done
<1>10. ~mine.pending => Cardinality(Executors(Request(c, k))) >= 2 * f + 1
  <2> DEFINE T == Executors(Request(c, k))
  <2>1. IsFiniteSet(Replicas) /\ 2 * f + 1 \in Nat /\ T \in SUBSET Replicas
    BY DEF Group, Executors
  <2>2. Cardinality(got) \in Nat
    BY <1>4, <2>1, FS_Subset, FS_CardinalityType
  <2> HIDE DEF T
  <2>3. ~mine.pending => Cardinality(got) >= 2 * f + 1
    BY <1>6, <2>1, <2>2
  <2>4. got \in SUBSET T
    BY <1>4 DEF T
  <2>5. ~mine.pending => Cardinality(T) >= 2 * f + 1
    BY <2>1, <2>3, <2>4, MoreIsEnough
  <2> QED BY <2>5 DEF T
<1>11. ASSUME NEW d \in Clients
       PROVE  /\ client'[d].received \subseteq Executors(Request(d, client'[d].lastReqId))
              /\ \A n \in 1 .. client'[d].lastReqId :
                   (n = client'[d].lastReqId => ~client'[d].pending) =>
                     Cardinality(Executors(Request(d, n))) >= 2 * f + 1
  <2>1. CASE d # c
    BY <1>7, <2>1 DEF IInv, ClientInv
  <2>2. CASE d = c
    <3>1. \A n \in 1 .. k : n # k => Cardinality(Executors(Request(c, n))) >= 2 * f + 1
      BY DEF IInv, ClientInv
    <3> QED BY <1>4, <1>6, <1>7, <1>10, <2>2, <3>1
  <2> QED BY <2>1, <2>2
<1>12. ClientInv'
  BY <1>9, <1>11 DEF ClientInv
<1> QED BY <1>8, <1>12 DEF IInv

\* The sequencer numbers a request that a client has sent.
LEMMA SequenceStepKeeps ==
  ASSUME Group, IInv, NEW c \in Clients, NEW n \in 1 .. client[c].lastReqId, Sequence(c, n)
  PROVE  IInv'
<1>1. Request(c, n) \in Requests /\ UNCHANGED <<replica, client, hmac, msgs>>
  <2>1. client[c].lastReqId \in Nat
    BY DEF IInv, TypeInv, ClientState
  <2> QED BY <2>1 DEF Request, Requests, Sequence
<1>2. PICK packet \in Packets :
        sequencer' = [sequencer EXCEPT !.packets = Append(@, packet),
                                       !.ordered = Append(@, packet.request)]
  <2> DEFINE req == Request(c, n)
  <2> HIDE DEF req
  <2>1. PICK signed \in BOOLEAN :
          sequencer' = [sequencer EXCEPT !.packets = Append(@, Packet(req, signed)),
                                         !.ordered = Append(@, req)]
    BY DEF Sequence, HMACPacket, req
  <2>2. Packet(req, signed) \in Packets /\ Packet(req, signed).request = req
    BY <1>1 DEF Packet, Packets, req
  <2> QED BY <2>1, <2>2
<1>3. /\ SequencerOK(sequencer') /\ sequencer'.session = sequencer.session
      /\ \A r \in Replicas : Good(r, replica[r], sequencer')
  <2>1. SequencerOK(sequencer) /\ \A r \in Replicas : Good(r, replica[r], sequencer)
    BY DEF IInv, OrderInv
  <2>2. \A p : p = [sequencer EXCEPT !.packets = Append(@, packet),
                                    !.ordered = Append(@, packet.request)] =>
          /\ SequencerOK(p) /\ p.session = sequencer.session
          /\ \A r, s : Good(r, s, sequencer) => Good(r, s, p)
    BY <2>1, SequenceKeeps
  <2> QED BY <1>2, <2>1, <2>2, Zenon
<1>4. OrderInv'
  BY <1>1, <1>3 DEF IInv, OrderInv
<1>5. TypeInv' /\ ClientInv' /\ \A m \in msgs' : SoundMessage(m)'
  BY <1>1, <1>3 DEF IInv, TypeInv, ClientInv, SoundMessage, SoundVote, Executors
<1> QED BY <1>4, <1>5 DEF IInv

\* A new session begins when all replicas have executed the last one.
LEMMA NewSessionStepKeeps == ASSUME Group, IInv, NewSession PROVE IInv'
<1>1. /\ hmac /\ UNCHANGED <<replica, client, hmac, msgs>>
      /\ sequencer' = [sequencer EXCEPT !.session = @ + 1, !.packets = << >>]
      /\ \A r \in Replicas : /\ replica[r].status = "normal"
                             /\ replica[r].session = sequencer.session
                             /\ replica[r].offset + Len(replica[r].log) = Len(sequencer.packets)
  BY DEF NewSession
<1>2. /\ SequencerOK(sequencer) /\ sequencer.session \in Nat \ {0}
      /\ \A r \in Replicas : Good(r, replica[r], sequencer)
  BY DEF IInv, OrderInv, SequencerOK, Sequencer
<1>3. /\ SequencerOK(sequencer') /\ sequencer'.session = sequencer.session + 1
      /\ \A r \in Replicas : Good(r, replica[r], sequencer')
  <2>1. \A p : p = [sequencer EXCEPT !.session = @ + 1, !.packets = << >>] =>
          /\ SequencerOK(p) /\ p.session = sequencer.session + 1
          /\ \A r, s : /\ Good(r, s, sequencer) /\ s.status = "normal"
                       /\ s.session = sequencer.session
                       /\ s.offset + Len(s.log) = Len(sequencer.packets)
                       => Good(r, s, p)
    BY <1>2, NewSessionKeeps
  <2> QED BY <1>1, <1>2, <2>1, Zenon
<1>4. OrderInv'
  BY <1>1, <1>3 DEF IInv, OrderInv
<1>5. \A m \in msgs' : SoundMessage(m)'
  <2>1. \A m \in msgs : m.type # "reply" => sequencer'.session > 2
    <3>1. \A m \in msgs : m.type # "reply" => sequencer.session > 2 \/ sequencer.session = 2
      BY <1>2 DEF IInv, SoundMessage, SoundVote
    <3> QED BY <1>2, <1>3, <3>1
  <2> QED BY <1>1, <1>2, <1>3, <2>1 DEF IInv, SoundMessage
<1>6. TypeInv' /\ ClientInv'
  BY <1>1 DEF IInv, TypeInv, ClientInv, Executors
<1> QED BY <1>4, <1>5, <1>6 DEF IInv

\* The handlers of a replica, each with all that it calls.
LEMMA ReceiveRequestKeeps ==
  ASSUME Group, IInv, NEW r \in Replicas, NEW n \in DOMAIN sequencer.packets, ReceiveRequest(r, n)
  PROVE  IInv'
<1> DEFINE s == replica[r]
           q == sequencer
           t == IF hmac THEN HandleHMAC(r, s, q.session, n, q.packets[n])
                ELSE HandleSigned(r, s, q.session, n, q.packets[n])
<1>1. SequencerOK(q) /\ Good(r, s, q) /\ (~hmac => q.session = 1)
  BY DEF IInv, OrderInv
<1>2. n \in 1 .. Len(q.packets)
  BY <1>1 DEF SequencerOK, Sequencer
<1>3. Finish(r, t)
  BY DEF ReceiveRequest
<1>4. Step(r, s, t, q)
  BY <1>1, <1>2, HMACSteps, SignedSteps
<1> HIDE DEF t
<1> QED BY <1>3, <1>4, FinishKeeps

\* A vote that a replica receives while its epoch changes.
LEMMA ReceivedVote ==
  ASSUME IInv, NEW r \in Replicas, NEW m \in msgs, m.type # "reply", Changing(r)
  PROVE  VoteFor(replica[r], m.session, sequencer) /\ m.from \in Replicas
<1>1. m.session \in Nat /\ m.from \in Replicas
  BY DEF IInv, TypeInv, Message, Replies, Votes
<1> QED BY <1>1 DEF IInv, SoundMessage, VoteFor, Changing

\* The messages of an epoch change.
LEMMA VotesKeep ==
  ASSUME Group, IInv, NEW r \in Replicas, NEW m \in msgs,
         HandleViewChange(r, m) \/ HandleViewStart(r, m) \/ HandleEpochStart(r, m)
  PROVE  IInv'
<1> DEFINE s == replica[r]
<1>1. SequencerOK(sequencer) /\ Good(r, s, sequencer)
  BY DEF IInv, OrderInv
<1>2. VoteFor(s, m.session, sequencer) /\ m.from \in Replicas
  BY ReceivedVote DEF HandleViewChange, HandleViewStart, HandleEpochStart
<1>3. CASE HandleViewChange(r, m)
  <2>1. Finish(r, InsertViewChange(r, s, m.from, m.session))
    BY <1>3 DEF HandleViewChange
  <2>2. Step(r, s, InsertViewChange(r, s, m.from, m.session), sequencer)
    BY <1>1, <1>2, ViewChangeSteps
  <2> QED BY <2>1, <2>2, FinishKeeps
<1>4. CASE HandleViewStart(r, m)
  <2>1. Finish(r, SendEpochStart(r, s, m.session))
    BY <1>4 DEF HandleViewStart
  <2>2. Step(r, s, SendEpochStart(r, s, m.session), sequencer)
    BY <1>1, <1>2, SendEpochStartSteps
  <2> QED BY <2>1, <2>2, FinishKeeps
<1>5. CASE HandleEpochStart(r, m)
  <2>1. Finish(r, InsertEpochStart(r, s, m.from, m.session))
    BY <1>5 DEF HandleEpochStart
  <2>2. Step(r, s, InsertEpochStart(r, s, m.from, m.session), sequencer)
    BY <1>1, <1>2, EpochStartSteps
  <2> QED BY <2>1, <2>2, FinishKeeps
<1> QED BY <1>3, <1>4, <1>5

\* The invariant holds of all states.
LEMMA Inductive == ASSUME Group PROVE Spec => []IInv
<1>1. Init => IInv
  BY InitHolds
<1>2. IInv /\ [Next]_vars => IInv'
  <2> SUFFICES ASSUME IInv, [Next]_vars PROVE IInv'
    OBVIOUS
  <2>1. CASE UNCHANGED vars
    BY <2>1 DEF vars, IInv, TypeInv, OrderInv, ClientInv, SoundMessage, Executors
  <2>2. ASSUME NEW c \in Clients, Invoke(c) PROVE IInv'
    BY <2>2, InvokeKeeps
  <2>3. ASSUME NEW c \in Clients, NEW m \in msgs, ReceiveReply(c, m) PROVE IInv'
    BY <2>3, ReceiveReplyKeeps
  <2>4. ASSUME NEW c \in Clients, NEW n \in 1 .. client[c].lastReqId, Sequence(c, n) PROVE IInv'
    BY <2>4, SequenceStepKeeps
  <2>5. ASSUME NewSession PROVE IInv'
    BY <2>5, NewSessionStepKeeps
  <2>6. ASSUME NEW r \in Replicas, NEW n \in DOMAIN sequencer.packets, ReceiveRequest(r, n)
        PROVE  IInv'
    BY <2>6, ReceiveRequestKeeps
  <2>7. ASSUME NEW r \in Replicas, NEW m \in msgs,
               HandleViewChange(r, m) \/ HandleViewStart(r, m) \/ HandleEpochStart(r, m)
        PROVE  IInv'
    BY <2>7, VotesKeep
  <2> QED BY <2>1, <2>2, <2>3, <2>4, <2>5, <2>6, <2>7 DEF Next
<1> QED BY <1>1, <1>2, PTL DEF Spec

-----------------------------------------------------------------------------
(* What clients rely on. *)

\* However often a request is sent and numbered, in however many sessions, a replica
\* executes it once (ExecuteOne).
THEOREM ExecutedOnceHolds == ASSUME Group PROVE Spec => []ExecutedOnce
<1>1. IInv => ExecutedOnce
  BY DEF IInv, OrderInv, Good, Sound, ExecutedOnce
<1> QED BY <1>1, Inductive, PTL

\* 2f+1 replicas executed what a client saw completed, although it counts replies
\* whatever their results are (HandleReply).
THEOREM CompletedIsExecutedHolds == ASSUME Group PROVE Spec => []CompletedIsExecuted
<1>1. IInv => CompletedIsExecuted
  <2> SUFFICES ASSUME IInv PROVE CompletedIsExecuted
    OBVIOUS
  <2>1. \A request : Executors(request) =
          {r \in Replicas : \E i \in 1 .. Len(replica[r].executed) : replica[r].executed[i] = request}
    BY DEF Executors, Done
  <2>2. ClientInv
    BY DEF IInv
  <2> HIDE DEF Executors
  <2> QED BY <2>1, <2>2 DEF CompletedIsExecuted, ClientInv
<1> QED BY <1>1, Inductive, PTL

\* Up to the second session a replica's log is a piece of the order without a gap: the
\* first session, a first packet anywhere in it, and one change of the epoch
\* (FirstPacket, TryExecute, InsertEpochStart).
THEOREM LogsAreOfTheOrderHolds ==
  ASSUME Group PROVE Spec => [](sequencer.session <= 2 => LogsAreOfTheOrder)
<1>1. IInv => (sequencer.session <= 2 => LogsAreOfTheOrder)
  <2> SUFFICES ASSUME IInv, sequencer.session <= 2, NEW r \in Replicas
               PROVE  \E skipped \in 0 .. Len(sequencer.ordered) - Len(replica[r].log) :
                        \A i \in 1 .. Len(replica[r].log) :
                          replica[r].log[i] = sequencer.ordered[skipped + i]
    BY DEF LogsAreOfTheOrder
  <2> DEFINE s == replica[r]
             n == Len(sequencer.ordered)
             k == Len(s.log)
  <2>1. Placed(s, sequencer) /\ s \in ReplicaState /\ n \in Nat
    BY DEF IInv, OrderInv, Good, Sound, SequencerOK, Sequencer
  <2>2. k \in Nat
    BY <2>1, FieldTypes
  <2>3. CASE s.session = 0
    <3>1. k = 0
      BY <2>1, <2>3 DEF Placed
    <3> HIDE DEF n, k
    <3>2. 0 \in 0 .. n - k /\ \A i \in 1 .. k : FALSE
      BY <2>1, <3>1
    <3> QED BY <3>2 DEF n, k
  <2>4. CASE s.session # 0
    <3> DEFINE base == Base(s, sequencer)
    <3>1. base \in Nat /\ base + k <= n /\ \A i \in 1 .. k : s.log[i] = sequencer.ordered[base + i]
      BY <2>1, <2>4 DEF Placed, PieceAt
    <3> HIDE DEF base, n, k
    <3>2. base \in 0 .. n - k
      BY <2>1, <2>2, <3>1
    <3> QED BY <3>1, <3>2 DEF n, k
  <2> QED BY <2>3, <2>4
<1> QED BY <1>1, Inductive, PTL
=============================================================================
