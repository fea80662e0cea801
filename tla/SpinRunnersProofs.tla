------------------------- MODULE SpinRunnersProofs --------------------------
(***************************************************************************)
(* SpinOrderedRunner and SpinRunner lose no task, run one solo at a time    *)
(* and, if every prologue returns a solo, run the solos of an ordered       *)
(* runner in the order of the RunPrologue calls: for any number of workers, *)
(* of slots and of tasks.                                                   *)
(*                                                                          *)
(* The ring is used without a lock, so the argument is about who may touch  *)
(* a slot.  Workers own disjoint sets of slots (OwnSlots).  slot_ready says *)
(* whether the driver or the owner may write a slot (SlotIsHanded), hence a *)
(* task is in at most one slot or held by at most one worker (TaskInSlot,   *)
(* TaskHeld).  A worker that holds a task has given its slot back, and the  *)
(* driver may have refilled it, but only with a later task (Placed): that   *)
(* is why the worker next_solo admits holds the first task not yet started  *)
(* (StartedInOrder).                                                        *)
(***************************************************************************)
EXTENDS SpinRunners, ProofFacts

\* The constructor is called with at least one thread, and n_slot is 4 times that.
Sizes ==
  /\ n_worker \in Nat \ {0}
  /\ SlotsPerWorker \in Nat \ {0}
  /\ MaxTask \in Nat

Locations == {"wait", "prologue", "clear", "ready", "solospin", "solo", "epilogue", "exited"}

TypeOK ==
  /\ ordered \in BOOLEAN /\ shutdown \in BOOLEAN
  /\ prologue_slots \in [Slots -> Nat]
  /\ epilogue_slots \in [Slots -> Nat]
  /\ slot_ready \in [Slots -> BOOLEAN]
  /\ next_prologue \in Slots
  /\ next_solo \in Slots \cup {-1}
  /\ driver \in {"idle", "publish", "join"}
  /\ submitted \in Nat
  /\ pc \in [WorkerIds -> Locations]
  /\ slot_id \in [WorkerIds -> Slots]
  /\ task \in [WorkerIds -> 0 .. submitted]
  /\ started \subseteq 1 .. submitted /\ dropped \subseteq 1 .. submitted

\* Worker w only ever serves the slots w, w + n_worker, w + 2 n_worker, ...
OwnSlots == \A w \in WorkerIds : slot_id[w] % n_worker = w

\* A worker is in its solo only while next_solo names its slot; only an
\* unordered runner ever leaves next_solo free.
SoloIsNext ==
  /\ \A w \in WorkerIds : pc[w] = "solo" => next_solo = slot_id[w]
  /\ ordered => next_solo # -1

\* The driver has filled slot s and not yet handed it to the worker.
Publishing(s) == driver = "publish" /\ s = next_prologue

\* slot_ready tells who may write a slot: a ready slot is empty but for the
\* driver that fills it; one that is not ready is full until its owner clears it.
SlotIsHanded ==
  /\ driver = "publish" => /\ slot_ready[next_prologue]
                           /\ prologue_slots[next_prologue] = submitted + 1
  /\ \A s \in Slots : slot_ready[s] => prologue_slots[s] = 0 \/ Publishing(s)
  /\ \A s \in Slots : ~slot_ready[s] =>
       prologue_slots[s] # 0 \/ \E w \in WorkerIds : slot_id[w] = s /\ pc[w] = "ready"
  /\ \A w \in WorkerIds : pc[w] \in {"prologue", "clear", "ready"} => ~slot_ready[slot_id[w]]
  /\ \A w \in WorkerIds : pc[w] \in {"prologue", "clear"} => prologue_slots[slot_id[w]] # 0
  /\ \A w \in WorkerIds : pc[w] = "ready" => prologue_slots[slot_id[w]] = 0

\* A task in a slot is nowhere else, but with the owner that is about to clear it.
TaskInSlot ==
  \A s \in Slots : prologue_slots[s] # 0 =>
    /\ prologue_slots[s] <= submitted \/ Publishing(s)
    /\ \A z \in Slots : prologue_slots[z] = prologue_slots[s] => z = s
    /\ \A w \in WorkerIds : task[w] = prologue_slots[s] => slot_id[w] = s /\ pc[w] = "clear"
    /\ prologue_slots[s] \notin started
    /\ prologue_slots[s] \in dropped =>
         \E w \in WorkerIds : slot_id[w] = s /\ pc[w] = "clear"

\* A task held by a worker is held by no other, and started once the worker has
\* been admitted.
TaskHeld ==
  \A w \in WorkerIds :
    /\ task[w] # 0 =>
         /\ pc[w] \notin {"wait", "prologue"}
         /\ \A v \in WorkerIds : task[v] = task[w] => v = w
         /\ task[w] \notin dropped
         /\ task[w] \in started <=> pc[w] \in {"solo", "epilogue"}
    /\ pc[w] \in {"solospin", "solo", "epilogue"} => task[w] # 0
    /\ pc[w] = "clear" => IF task[w] = 0 THEN prologue_slots[slot_id[w]] \in dropped
                                         ELSE task[w] = prologue_slots[slot_id[w]]

\* Every submitted task is in a slot, held or dealt with.
Accounted ==
  \A t \in 1 .. submitted :
    \/ t \in started \cup dropped
    \/ \E s \in Slots : prologue_slots[s] = t
    \/ \E w \in WorkerIds : task[w] = t

\* An ordered runner puts task t into slot (t - 1) % n_slot, and refills a slot
\* only with later tasks than the one its worker still holds.
Placed ==
  ordered =>
    /\ next_prologue = submitted % n_slot
    /\ \A s \in Slots : prologue_slots[s] # 0 => (prologue_slots[s] - 1) % n_slot = s
    /\ \A w \in WorkerIds : task[w] # 0 =>
         /\ (task[w] - 1) % n_slot = slot_id[w]
         /\ prologue_slots[slot_id[w]] # 0 => task[w] <= prologue_slots[slot_id[w]]

SoloOf == {w \in WorkerIds : pc[w] = "solo"}

\* next_solo is the slot of the task started last while its solo runs, and of
\* the first task not started otherwise.
StartedInOrder ==
  ordered /\ dropped = {} =>
    \E d \in 0..submitted :
      /\ started = 1 .. d
      /\ \/ SoloOf = {} /\ next_solo = d % n_slot
         \/ SoloOf # {} /\ d > 0 /\ next_solo = (d - 1) % n_slot

\* The inductive invariant.
IInv == /\ Sizes /\ TypeOK /\ OwnSlots /\ SoloIsNext /\ SlotIsHanded /\ TaskInSlot /\ TaskHeld
        /\ Accounted /\ Placed /\ StartedInOrder
-----------------------------------------------------------------------------
(***************************************************************************)
(* Arithmetic of the ring.                                                  *)
(***************************************************************************)

\* Division with remainder, by a divisor that is not a numeral.
LEMMA Remainder ==
  ASSUME NEW N \in Nat \ {0}, NEW b \in 0 .. N - 1, NEW q \in Int
  PROVE  (q * N + b) % N = b
  OBVIOUS

\* Quotient and remainder of a slot number.
LEMMA Division ==
  ASSUME NEW N \in Nat \ {0}, NEW a \in Nat
  PROVE  /\ a = (a \div N) * N + (a % N)
         /\ a \div N \in Int
         /\ a % N \in 0 .. N - 1
  OBVIOUS

\* Steps round the ring stay in step with the count of tasks.
LEMMA NextInRing ==
  ASSUME NEW N \in Nat \ {0}, NEW a \in Nat
  PROVE  ((a % N) + 1) % N = (a + 1) % N
<1> DEFINE q == a \div N
           r == a % N
<1>1. a = q * N + r /\ q \in Int /\ r \in 0 .. N - 1
  BY Division
<1> HIDE DEF q, r
<1>2. CASE r + 1 < N
  <2>1. a + 1 = q * N + (r + 1)
    BY <1>1
  <2>2. (a + 1) % N = r + 1
    BY <2>1, <1>1, <1>2, Remainder
  <2>3. (r + 1) % N = r + 1
    BY <1>1, <1>2
  <2> QED BY <2>2, <2>3 DEF r
<1>3. CASE r + 1 = N
  <2>1. a + 1 = (q + 1) * N + 0
    BY <1>1, <1>3
  <2>2. (a + 1) % N = 0
    BY <2>1, <1>1, <1>3, Remainder
  <2>3. N % N = 0
    OBVIOUS
  <2> QED BY <2>2, <2>3, <1>3 DEF r
<1> QED BY <1>1, <1>2, <1>3

\* Whole turns do not change a remainder.
LEMMA WholeTurns ==
  ASSUME NEW N \in Nat \ {0}, NEW a \in Nat, NEW k \in Int, a + (k * N) \in Nat
  PROVE  (a + (k * N)) % N = a % N
<1> DEFINE q == a \div N
           r == a % N
<1>1. a = q * N + r /\ q \in Int /\ r \in 0 .. N - 1
  BY Division
<1> HIDE DEF q, r
<1>2. a + (k * N) = (q + k) * N + r
  BY <1>1
<1>3. ((q + k) * N + r) % N = r
  BY <1>1, Remainder
<1> QED BY <1>2, <1>3 DEF r

\* The ring has at least one slot for each worker.
LEMMA RingSize ==
  ASSUME Sizes, ordered \in BOOLEAN
  PROVE  /\ n_worker \in Nat \ {0}
         /\ n_slot \in Nat \ {0} /\ n_worker <= n_slot
         /\ Slots = 0 .. n_slot - 1 /\ WorkerIds \subseteq Slots
<1>1. n_worker \in Nat \ {0} /\ SlotsPerWorker \in Nat \ {0}
  BY DEF Sizes
<1>2. n_worker * SlotsPerWorker \in Nat \ {0} /\ n_worker <= n_worker * SlotsPerWorker
  BY <1>1
<1>3. n_slot \in Nat \ {0} /\ n_worker <= n_slot
  BY <1>1, <1>2 DEF n_slot
<1> QED BY <1>1, <1>3 DEF Slots, WorkerIds

\* A worker goes on to another of its own slots.
LEMMA OwnNext ==
  ASSUME Sizes, ordered \in BOOLEAN, NEW s \in Slots
  PROVE  /\ (s + n_worker) % n_slot \in Slots
         /\ ((s + n_worker) % n_slot) % n_worker = s % n_worker
<1> DEFINE n == n_worker
           N == n_slot
<1>1. n \in Nat \ {0} /\ N \in Nat \ {0} /\ n <= N /\ s \in 0 .. N - 1 /\ Slots = 0 .. N - 1
  BY RingSize
<1>2. PICK k \in Nat : N = k * n
  <2>1. CASE ordered
    BY <2>1 DEF n_slot, Sizes
  <2>2. CASE ~ordered
    <3>1. N = 1 * n
      BY <2>2, <1>1 DEF n_slot
    <3> QED BY <3>1
  <2> QED BY <2>1, <2>2
<1> HIDE DEF n, N
<1>3. CASE s + n < N
  <2>1. (s + n) % N = s + n
    BY <1>1, <1>3
  <2>2. (s + (1 * n)) % n = s % n
    <3>1. 1 \in Int /\ s \in Nat /\ s + (1 * n) \in Nat
      BY <1>1
    <3> QED BY <3>1, <1>1, WholeTurns
  <2> QED BY <2>1, <2>2, <1>1, <1>3 DEF n, N
<1>4. CASE s + n >= N
  <2> DEFINE z == s + n - N
  <2>1. z \in Nat /\ z < N /\ s + n = 1 * N + z
    BY <1>1, <1>4
  <2>2. (s + n) % N = z
    BY <2>1, <1>1, Remainder
  <2>3. z = s + ((1 - k) * n)
    BY <1>1, <1>2
  <2>4. z % n = s % n
    <3>1. 1 - k \in Int
      BY <1>2
    <3>2. s + ((1 - k) * n) \in Nat /\ s \in Nat
      BY <2>1, <2>3, <1>1
    <3>3. (s + ((1 - k) * n)) % n = s % n
      BY <3>1, <3>2, <1>1, WholeTurns
    <3> QED BY <2>3, <3>3
  <2> QED BY <2>1, <2>2, <2>4, <1>1 DEF n, N
<1> QED BY <1>1, <1>3, <1>4

\* Two workers are never at the same slot.
LEMMA SlotsApart ==
  ASSUME OwnSlots, NEW v \in WorkerIds, NEW w \in WorkerIds, slot_id[v] = slot_id[w]
  PROVE  v = w
  BY DEF OwnSlots

-----------------------------------------------------------------------------
(***************************************************************************)
(* The invariant holds initially and is preserved by every step.            *)
(***************************************************************************)

\* The constructor establishes the invariant.
LEMMA InitInv == ASSUME Sizes, Init PROVE IInv
<1>1. ordered \in BOOLEAN
  BY DEF Init
<1>2. /\ n_slot \in Nat \ {0} /\ n_worker \in Nat \ {0} /\ n_worker <= n_slot
      /\ Slots = 0 .. n_slot - 1 /\ WorkerIds \subseteq Slots
  BY <1>1, RingSize
<1>3. TypeOK
  BY <1>2 DEF Init, TypeOK, Locations
<1>4. OwnSlots
  <2>1. \A w \in WorkerIds : w \in 0 .. n_worker - 1 /\ w % n_worker = w
    BY <1>2 DEF WorkerIds
  <2> QED BY <2>1 DEF Init, OwnSlots
<1>5. SoloIsNext /\ SlotIsHanded /\ TaskInSlot /\ TaskHeld /\ Accounted
  BY <1>2 DEF Init, SoloIsNext, SlotIsHanded, TaskInSlot, TaskHeld, Accounted
<1>6. Placed /\ StartedInOrder
  <2>1. 0 % n_slot = 0
    BY <1>2
  <2>2. SoloOf = {}
    BY DEF Init, SoloOf
  <2>3. started = 1 .. 0
    BY DEF Init
  <2> QED BY <1>2, <2>1, <2>2, <2>3 DEF Init, Placed, StartedInOrder
<1> QED BY <1>3, <1>4, <1>5, <1>6 DEF IInv

\* The dynamic type of the runner, and with it the ring, never changes.
LEMMA RingStays ==
  ASSUME ordered' = ordered
  PROVE  n_slot' = n_slot /\ Slots' = Slots
  BY DEF n_slot, Slots

\* SpinRunner's driver passes over a slot that is not ready.
LEMMA DriverSpinInv == ASSUME IInv, DriverSpin PROVE IInv'
<1>1. /\ n_slot' = n_slot /\ Slots' = Slots /\ ordered' = ordered
      /\ UNCHANGED <<slots, driver, submitted, next_solo, shutdown, working, history>>
      /\ ~ordered /\ driver = "idle"
      /\ next_prologue' = (next_prologue + 1) % n_slot
  BY RingStays DEF DriverSpin
<1>2. n_slot \in Nat \ {0} /\ Slots = 0 .. n_slot - 1 /\ next_prologue \in Nat
  BY RingSize DEF IInv, TypeOK
<1>3. next_prologue' \in Slots
  BY <1>1, <1>2, Division
<1>4. TypeOK'
  BY <1>1, <1>3 DEF IInv, TypeOK, slots, working, history
<1>5. OwnSlots' /\ SoloIsNext' /\ TaskHeld' /\ Accounted'
  BY <1>1 DEF IInv, OwnSlots, SoloIsNext, TaskHeld, Accounted, slots, working, history
<1>6. SlotIsHanded' /\ TaskInSlot'
  BY <1>1 DEF IInv, SlotIsHanded, TaskInSlot, Publishing, slots, working, history
<1>7. Placed' /\ StartedInOrder'
  BY <1>1 DEF Placed, StartedInOrder
<1> QED BY <1>4, <1>5, <1>6, <1>7 DEF IInv

\* RunPrologue fills only a slot that is empty, with a task no one has.
LEMMA FillInv == ASSUME IInv, Fill PROVE IInv'
<1> DEFINE np == next_prologue
<1>1. /\ n_slot' = n_slot /\ Slots' = Slots /\ ordered' = ordered
      /\ UNCHANGED <<epilogue_slots, slot_ready, next_prologue, submitted,
                     next_solo, shutdown, working, history>>
      /\ driver = "idle" /\ driver' = "publish" /\ slot_ready[np]
      /\ np \in Slots /\ submitted \in Nat
  BY RingStays DEF Fill, IInv, TypeOK
<1>2. /\ \A s \in Slots : s # np => prologue_slots'[s] = prologue_slots[s]
      /\ prologue_slots'[np] = submitted + 1
      /\ prologue_slots' \in [Slots -> Nat]
  BY <1>1 DEF Fill, IInv, TypeOK
<1>3. prologue_slots[np] = 0
  BY <1>1 DEF IInv, SlotIsHanded, Publishing
<1>4. /\ \A s \in Slots : prologue_slots[s] \in Nat /\ prologue_slots[s] <= submitted
      /\ \A w \in WorkerIds : task[w] \in 0 .. submitted
      /\ \A w \in WorkerIds : slot_id[w] \in Slots
      /\ started \subseteq 1 .. submitted /\ dropped \subseteq 1 .. submitted
  BY <1>1, <1>3 DEF IInv, TypeOK, TaskInSlot, Publishing
<1>5. TypeOK'
  BY <1>1, <1>2 DEF IInv, TypeOK, working, history
<1>6. OwnSlots' /\ SoloIsNext'
  BY <1>1 DEF IInv, OwnSlots, SoloIsNext, working
<1>7. SlotIsHanded'
  BY <1>1, <1>2, <1>3, <1>4 DEF IInv, SlotIsHanded, Publishing, working
<1>8. TaskInSlot'
  BY <1>1, <1>2, <1>3, <1>4 DEF IInv, TaskInSlot, Publishing, working, history
<1>9. TaskHeld'
  <2>1. \A w \in WorkerIds : pc[w] = "clear" => prologue_slots'[slot_id[w]] = prologue_slots[slot_id[w]]
    BY <1>1, <1>2, <1>4 DEF IInv, SlotIsHanded
  <2> QED BY <1>1, <2>1 DEF IInv, TaskHeld, working, history
<1>10. Accounted'
  BY <1>1, <1>2, <1>3, <1>4 DEF IInv, Accounted, working, history
<1>11. Placed'
  <2>1. ordered => (prologue_slots'[np] - 1) % n_slot = np
    BY <1>1, <1>2 DEF IInv, Placed
  <2> QED BY <1>1, <1>2, <1>4, <2>1 DEF IInv, Placed, working
<1>12. StartedInOrder'
  BY <1>1 DEF IInv, StartedInOrder, SoloOf, working, history
<1> QED BY <1>1, <1>5, <1>6, <1>7, <1>8, <1>9, <1>10, <1>11, <1>12 DEF IInv

\* Handing over the slot makes the task a submitted one.
LEMMA PublishInv == ASSUME IInv, Publish PROVE IInv'
<1> DEFINE np == next_prologue
<1>1. /\ n_slot' = n_slot /\ Slots' = Slots /\ ordered' = ordered
      /\ UNCHANGED <<prologue_slots, epilogue_slots, next_solo, shutdown, working, history>>
      /\ driver = "publish" /\ driver' = "idle"
      /\ submitted' = submitted + 1 /\ submitted \in Nat
      /\ next_prologue' = (np + 1) % n_slot
      /\ n_slot \in Nat \ {0} /\ Slots = 0 .. n_slot - 1 /\ np \in Slots /\ np \in Nat
  <2>1. n_slot' = n_slot /\ Slots' = Slots
    BY RingStays DEF Publish
  <2>2. n_slot \in Nat \ {0} /\ Slots = 0 .. n_slot - 1 /\ np \in Slots /\ submitted \in Nat
    BY RingSize DEF IInv, TypeOK
  <2> QED BY <2>1, <2>2 DEF Publish
<1>2. /\ \A s \in Slots : s # np => slot_ready'[s] = slot_ready[s]
      /\ slot_ready'[np] = FALSE
      /\ slot_ready' \in [Slots -> BOOLEAN]
  BY <1>1 DEF Publish, IInv, TypeOK
<1>3. slot_ready[np] /\ prologue_slots[np] = submitted + 1
  BY <1>1 DEF IInv, SlotIsHanded
<1>4. next_prologue' \in Slots
  BY <1>1, Division
<1>5. TypeOK'
  BY SMTT(30), <1>1, <1>2, <1>4 DEF IInv, TypeOK, working, history
<1>6. OwnSlots' /\ SoloIsNext' /\ TaskHeld'
  BY <1>1 DEF IInv, OwnSlots, SoloIsNext, TaskHeld, working, history
<1>7. SlotIsHanded'
  <2>1. \A w \in WorkerIds : slot_id[w] \in Slots
    BY DEF IInv, TypeOK
  <2> QED BY <1>1, <1>2, <1>3, <2>1 DEF IInv, SlotIsHanded, Publishing, working
<1>8. TaskInSlot'
  <2>1. \A s \in Slots : prologue_slots[s] \in Nat
    BY DEF IInv, TypeOK
  <2>2. \A s \in Slots : prologue_slots[s] # 0 => prologue_slots[s] <= submitted'
    BY <1>1, <1>3, <2>1 DEF IInv, TaskInSlot, Publishing
  <2> QED BY <1>1, <2>2 DEF IInv, TaskInSlot, working, history
<1>9. Accounted'
  BY <1>1, <1>3 DEF IInv, Accounted, working, history
<1>10. Placed'
  <2>1. ordered => next_prologue' = (submitted + 1) % n_slot
    BY <1>1, NextInRing DEF IInv, Placed
  <2> QED BY <1>1, <2>1 DEF IInv, Placed, working
<1>11. StartedInOrder'
  BY <1>1 DEF IInv, StartedInOrder, SoloOf, working, history
<1> QED BY <1>1, <1>5, <1>6, <1>7, <1>8, <1>9, <1>10, <1>11 DEF IInv

\* The destructor and the steps in which a worker only changes its place.
LEMMA DestroyInv == ASSUME IInv, Destroy PROVE IInv'
<1>1. /\ n_slot' = n_slot /\ Slots' = Slots /\ ordered' = ordered
      /\ UNCHANGED <<slots, next_prologue, submitted, next_solo, working, history>>
      /\ driver = "idle" /\ driver' = "join" /\ shutdown' = TRUE
  BY RingStays DEF Destroy
<1>2. TypeOK'
  BY <1>1 DEF IInv, TypeOK, slots, working, history
<1>3. OwnSlots' /\ SoloIsNext' /\ TaskHeld' /\ Accounted'
  BY <1>1 DEF IInv, OwnSlots, SoloIsNext, TaskHeld, Accounted, slots, working, history
<1>4. SlotIsHanded' /\ TaskInSlot'
  BY <1>1 DEF IInv, SlotIsHanded, TaskInSlot, Publishing, slots, working, history
<1>5. Placed' /\ StartedInOrder'
  BY <1>1 DEF IInv, Placed, StartedInOrder, SoloOf, slots, working, history
<1> QED BY <1>1, <1>2, <1>3, <1>4, <1>5 DEF IInv

\* Take and Exit only change the worker's place.
LEMMA MoveInv ==
  ASSUME IInv, NEW w \in WorkerIds, NEW to,
         \/ Goto(w, "wait", to) /\ to \in {"prologue", "exited"}
         \/ Goto(w, "solospin", to) /\ to = "exited",
         to = "prologue" => ~slot_ready[slot_id[w]],
         UNCHANGED <<ordered, slots, driving, next_solo, shutdown, slot_id, task, history>>
  PROVE  IInv'
<1>1. /\ n_slot' = n_slot /\ Slots' = Slots
      /\ UNCHANGED <<ordered, slots, driving, next_solo, shutdown, slot_id, task, history>>
  BY RingStays
<1>2. /\ pc[w] \in {"wait", "solospin"} /\ to \in {"prologue", "exited"} /\ pc'[w] = to
      /\ \A v \in WorkerIds : v # w => pc'[v] = pc[v]
      /\ pc' \in [WorkerIds -> Locations]
      /\ pc[w] = "solospin" => to = "exited"
  BY DEF Goto, IInv, TypeOK, Locations
<1>3. TypeOK'
  BY <1>1, <1>2 DEF IInv, TypeOK, slots, driving, history
<1>4. OwnSlots' /\ SoloIsNext' /\ Accounted' /\ Placed'
  BY <1>1, <1>2 DEF IInv, OwnSlots, SoloIsNext, Accounted, Placed, slots, driving, history
<1>5. SlotIsHanded'
  <2>1. slot_id[w] \in Slots /\ \A v \in WorkerIds : slot_id[v] = slot_id[w] => v = w
    BY SlotsApart DEF IInv, TypeOK
  <2>2. ~slot_ready[slot_id[w]] => prologue_slots[slot_id[w]] # 0
    BY <1>2, <2>1 DEF IInv, SlotIsHanded
  <2>3. to = "prologue" => ~slot_ready[slot_id[w]] /\ prologue_slots[slot_id[w]] # 0
    BY <2>2
  <2> QED BY <1>1, <1>2, <2>3 DEF IInv, SlotIsHanded, Publishing, slots, driving
<1>6. TaskInSlot'
  BY <1>1, <1>2 DEF IInv, TaskInSlot, Publishing, slots, driving, history
<1>7. TaskHeld'
  BY <1>1, <1>2 DEF IInv, TaskHeld, slots, history
<1>8. StartedInOrder'
  <2>1. SoloOf' = SoloOf
    BY <1>2 DEF SoloOf
  <2> QED BY <1>1, <2>1 DEF IInv, StartedInOrder, driving, history
<1> QED BY <1>1, <1>3, <1>4, <1>5, <1>6, <1>7, <1>8 DEF IInv

\* Running a prologue: the worker holds the task that is still in its slot, or
\* the task is dropped.
LEMMA PrologueInv == ASSUME IInv, NEW w \in WorkerIds, Prologue(w) PROVE IInv'
<1> DEFINE s == slot_id[w]
           t == prologue_slots[slot_id[w]]
<1>1. /\ n_slot' = n_slot /\ Slots' = Slots
      /\ UNCHANGED <<ordered, slots, driving, next_solo, shutdown, slot_id, started>>
  BY RingStays DEF Prologue
<1>2. /\ pc[w] = "prologue" /\ pc'[w] = "clear"
      /\ \A v \in WorkerIds : v # w => pc'[v] = pc[v]
      /\ pc' \in [WorkerIds -> Locations]
  BY DEF Prologue, Goto, IInv, TypeOK, Locations
<1>3. /\ \A v \in WorkerIds : v # w => task'[v] = task[v]
      /\ \/ task'[w] = t /\ dropped' = dropped
         \/ task'[w] = 0 /\ dropped' = dropped \cup {t}
      /\ task' = [task EXCEPT ![w] = task'[w]]
  BY DEF Prologue, IInv, TypeOK
<1>4. s \in Slots /\ \A v \in WorkerIds : slot_id[v] = s => v = w
  BY SlotsApart DEF IInv, TypeOK
<1>5. t \in 1 .. submitted /\ submitted \in Nat
  BY <1>2, <1>4 DEF IInv, TypeOK, SlotIsHanded, TaskInSlot, Publishing
<1>6. task[w] = 0
  BY <1>2 DEF IInv, TaskHeld
<1>7. /\ t \notin started /\ t \notin dropped
      /\ \A v \in WorkerIds : task[v] # t
      /\ \A z \in Slots : prologue_slots[z] = t => z = s
  <2>1. \A v \in WorkerIds : task[v] = t => slot_id[v] = s /\ pc[v] = "clear"
    BY <1>4, <1>5 DEF IInv, TaskInSlot
  <2>2. t \in dropped => \E v \in WorkerIds : slot_id[v] = s /\ pc[v] = "clear"
    BY <1>4, <1>5 DEF IInv, TaskInSlot
  <2>3. t \notin started /\ \A z \in Slots : prologue_slots[z] = t => z = s
    BY <1>4, <1>5 DEF IInv, TaskInSlot
  <2> QED BY <2>1, <2>2, <2>3, <1>2, <1>4
<1> HIDE DEF t
<1>8. TypeOK'
  <2>1. task' \in [WorkerIds -> 0 .. submitted]
    BY <1>3, <1>5 DEF IInv, TypeOK
  <2>2. dropped' \subseteq 1 .. submitted
    BY <1>3, <1>5 DEF IInv, TypeOK
  <2> QED BY <1>1, <1>2, <2>1, <2>2 DEF IInv, TypeOK, slots, driving
<1>9. OwnSlots' /\ SoloIsNext'
  BY <1>1, <1>2 DEF IInv, OwnSlots, SoloIsNext
<1>10. SlotIsHanded'
  BY <1>1, <1>2 DEF IInv, SlotIsHanded, Publishing, slots, driving
<1>11. TaskInSlot'
  <2>1. \A z \in Slots : \A v \in WorkerIds :
           prologue_slots[z] # 0 /\ task'[v] = prologue_slots[z] => slot_id[v] = z /\ pc'[v] = "clear"
    BY <1>2, <1>3, <1>4, <1>7 DEF IInv, TaskInSlot, t
  <2>2. \A z \in Slots : prologue_slots[z] # 0 /\ prologue_slots[z] \in dropped' =>
           \E v \in WorkerIds : slot_id[v] = z /\ pc'[v] = "clear"
    BY <1>2, <1>3, <1>4, <1>7 DEF IInv, TaskInSlot
  <2> QED BY <1>1, <2>1, <2>2 DEF IInv, TaskInSlot, Publishing, slots, driving
<1>12. TaskHeld'
  BY <1>1, <1>2, <1>3, <1>5, <1>6, <1>7 DEF IInv, TaskHeld, slots, t
<1>13. Accounted'
  BY <1>1, <1>3, <1>6 DEF IInv, Accounted, slots, driving
<1>14. Placed'
  <2>1. ordered /\ task'[w] # 0 => (task'[w] - 1) % n_slot = s /\ task'[w] <= prologue_slots[s]
    BY <1>3, <1>4, <1>5 DEF IInv, Placed, t
  <2>2. \A v \in WorkerIds : v # w => task'[v] = task[v]
    BY <1>3
  <2> QED BY <1>1, <2>1, <2>2 DEF IInv, Placed, slots, driving
<1>15. StartedInOrder'
  <2>1. SoloOf' = SoloOf
    BY <1>2 DEF SoloOf
  <2>2. dropped' = {} => dropped = {}
    BY <1>3
  <2> QED BY <1>1, <2>1, <2>2 DEF IInv, StartedInOrder, driving
<1> QED BY <1>1, <1>8, <1>9, <1>10, <1>11, <1>12, <1>13, <1>14, <1>15 DEF IInv

\* Clearing the slot: its task stays with the worker, or has been dropped.
LEMMA ClearInv == ASSUME IInv, NEW w \in WorkerIds, Clear(w) PROVE IInv'
<1> DEFINE s == slot_id[w]
<1>1. /\ n_slot' = n_slot /\ Slots' = Slots
      /\ UNCHANGED <<ordered, epilogue_slots, slot_ready, driving, next_solo, shutdown,
                     slot_id, task, history>>
  BY RingStays DEF Clear
<1>2. /\ pc[w] = "clear" /\ pc'[w] = "ready"
      /\ \A v \in WorkerIds : v # w => pc'[v] = pc[v]
      /\ pc' \in [WorkerIds -> Locations]
  BY DEF Clear, Goto, IInv, TypeOK, Locations
<1>3. s \in Slots /\ \A v \in WorkerIds : slot_id[v] = s => v = w
  BY SlotsApart DEF IInv, TypeOK
<1>4. /\ \A z \in Slots : z # s => prologue_slots'[z] = prologue_slots[z]
      /\ prologue_slots'[s] = 0
      /\ prologue_slots' \in [Slots -> Nat]
  BY <1>3 DEF Clear, IInv, TypeOK
<1>5. ~slot_ready[s] /\ prologue_slots[s] # 0
  BY <1>2 DEF IInv, SlotIsHanded
<1>6. IF task[w] = 0 THEN prologue_slots[s] \in dropped ELSE task[w] = prologue_slots[s]
  BY <1>2 DEF IInv, TaskHeld
<1>7. \A v \in WorkerIds : slot_id[v] \in Slots
  BY DEF IInv, TypeOK
<1> HIDE DEF s
<1>8. TypeOK'
  BY <1>1, <1>2, <1>4 DEF IInv, TypeOK, driving, history
<1>9. OwnSlots' /\ SoloIsNext'
  BY <1>1, <1>2 DEF IInv, OwnSlots, SoloIsNext
<1>10. SlotIsHanded'
  <2>1. driver = "publish" => next_prologue # s
    BY <1>5 DEF IInv, SlotIsHanded
  <2>2. \A v \in WorkerIds : v # w => slot_id[v] # s
    BY <1>3
  <2>3. next_prologue \in Slots /\ slot_id[w] = s
    BY DEF IInv, TypeOK, s
  <2> QED BY <1>1, <1>2, <1>3, <1>4, <1>5, <1>7, <2>1, <2>2, <2>3
          DEF IInv, SlotIsHanded, Publishing, driving
<1>11. TaskInSlot'
  <2>1. slot_id[w] = s
    BY DEF s
  <2> QED BY <1>1, <1>2, <1>4, <2>1 DEF IInv, TaskInSlot, Publishing, driving, history
<1>12. TaskHeld'
  <2>1. \A v \in WorkerIds : pc'[v] = "clear" =>
           v # w /\ prologue_slots'[slot_id[v]] = prologue_slots[slot_id[v]]
    BY <1>2, <1>3, <1>4, <1>7
  <2> QED BY <1>1, <1>2, <2>1 DEF IInv, TaskHeld, history
<1>13. Accounted'
  BY <1>1, <1>4, <1>6 DEF IInv, Accounted, driving, history
<1>14. Placed'
  BY <1>1, <1>4, <1>7 DEF IInv, Placed, driving
<1>15. StartedInOrder'
  <2>1. SoloOf' = SoloOf
    BY <1>2 DEF SoloOf
  <2> QED BY <1>1, <2>1 DEF IInv, StartedInOrder, driving, history
<1> QED BY <1>1, <1>8, <1>9, <1>10, <1>11, <1>12, <1>13, <1>14, <1>15 DEF IInv

\* Giving the slot back, with a solo to run or to go on to the next slot.
LEMMA ReadyInv == ASSUME IInv, NEW w \in WorkerIds, Ready(w) PROVE IInv'
<1> DEFINE s == slot_id[w]
<1>1. /\ n_slot' = n_slot /\ Slots' = Slots
      /\ UNCHANGED <<ordered, prologue_slots, epilogue_slots, driving, next_solo,
                     shutdown, task, history>>
  BY RingStays DEF Ready
<1>2. s \in Slots /\ \A v \in WorkerIds : slot_id[v] = s => v = w
  BY SlotsApart DEF IInv, TypeOK
<1>3. /\ \A z \in Slots : z # s => slot_ready'[z] = slot_ready[z]
      /\ slot_ready'[s] = TRUE
      /\ slot_ready' \in [Slots -> BOOLEAN]
  BY <1>2 DEF Ready, IInv, TypeOK
<1>4. /\ pc[w] = "ready"
      /\ \A v \in WorkerIds : v # w => pc'[v] = pc[v] /\ slot_id'[v] = slot_id[v]
      /\ pc' \in [WorkerIds -> Locations]
      /\ \/ task[w] # 0 /\ pc'[w] = "solospin" /\ slot_id'[w] = s
         \/ task[w] = 0 /\ pc'[w] = "wait" /\ slot_id'[w] = (s + n_worker) % n_slot
  BY DEF Ready, Goto, NextSlot, IInv, TypeOK, Locations
<1>5. slot_id'[w] \in Slots /\ slot_id'[w] % n_worker = s % n_worker
  BY <1>2, <1>4, OwnNext DEF IInv, TypeOK
<1>6. slot_id' \in [WorkerIds -> Slots]
  BY <1>5 DEF Ready, NextSlot, IInv, TypeOK
<1>7. ~slot_ready[s] /\ prologue_slots[s] = 0
  BY <1>4 DEF IInv, SlotIsHanded
<1>8. \A v \in WorkerIds : slot_id[v] \in Slots
  BY DEF IInv, TypeOK
<1>9. slot_id[w] = s
  OBVIOUS
<1> HIDE DEF s
<1>10. TypeOK'
  BY <1>1, <1>3, <1>4, <1>6 DEF IInv, TypeOK, driving, history
<1>11. OwnSlots'
  BY <1>4, <1>5, <1>9 DEF IInv, OwnSlots
<1>12. SoloIsNext'
  BY <1>1, <1>4 DEF IInv, SoloIsNext
<1>13. SlotIsHanded'
  <2>1. \A v \in WorkerIds : pc'[v] \in {"prologue", "clear", "ready"} =>
           v # w /\ slot_id'[v] = slot_id[v] /\ slot_id[v] # s /\ pc[v] = pc'[v]
    BY <1>2, <1>4
  <2>2. \A z \in Slots : z # s =>
          \A v \in WorkerIds : slot_id[v] = z /\ pc[v] = "ready" =>
            slot_id'[v] = z /\ pc'[v] = "ready"
    BY <1>4, <1>9
  <2>3. next_prologue \in Slots
    BY DEF IInv, TypeOK
  <2>4. \A z \in Slots : ~slot_ready'[z] =>
          prologue_slots[z] # 0 \/ \E v \in WorkerIds : slot_id'[v] = z /\ pc'[v] = "ready"
    BY <1>3, <2>2 DEF IInv, SlotIsHanded
  <2>5. \A z \in Slots : slot_ready'[z] => prologue_slots[z] = 0 \/ Publishing(z)
    BY <1>3, <1>7 DEF IInv, SlotIsHanded
  <2>6. \A v \in WorkerIds : pc'[v] \in {"prologue", "clear", "ready"} => ~slot_ready'[slot_id'[v]]
    BY <1>3, <1>8, <2>1 DEF IInv, SlotIsHanded
  <2> QED BY <1>1, <1>3, <2>1, <2>3, <2>4, <2>5, <2>6 DEF IInv, SlotIsHanded, Publishing, driving
<1>14. TaskInSlot'
  BY <1>1, <1>4 DEF IInv, TaskInSlot, Publishing, driving, history
<1>15. TaskHeld'
  BY <1>1, <1>4 DEF IInv, TaskHeld, history
<1>16. Accounted'
  BY <1>1 DEF IInv, Accounted, driving, history
<1>17. Placed'
  <2>1. \A v \in WorkerIds : task[v] # 0 => slot_id'[v] = slot_id[v]
    BY <1>4, <1>9
  <2> QED BY <1>1, <2>1 DEF IInv, Placed, driving
<1>18. StartedInOrder'
  <2>1. SoloOf' = SoloOf
    BY <1>4 DEF SoloOf
  <2> QED BY <1>1, <2>1 DEF IInv, StartedInOrder, driving, history
<1> QED BY <1>1, <1>10, <1>11, <1>12, <1>13, <1>14, <1>15, <1>16, <1>17, <1>18 DEF IInv

\* Claiming next_solo, in an unordered runner, while no solo runs.
LEMMA ClaimInv == ASSUME IInv, NEW w \in WorkerIds, Claim(w) PROVE IInv'
<1>1. /\ n_slot' = n_slot /\ Slots' = Slots
      /\ UNCHANGED <<ordered, slots, driving, shutdown, working, history>>
      /\ ~ordered /\ next_solo = -1 /\ next_solo' = slot_id[w] /\ slot_id[w] \in Slots
  BY RingStays DEF Claim, IInv, TypeOK
<1>2. TypeOK'
  BY <1>1 DEF IInv, TypeOK, slots, driving, working, history
<1>3. SoloIsNext'
  <2>1. \A v \in WorkerIds : slot_id[v] # -1
    BY RingSize DEF IInv, TypeOK
  <2> QED BY <1>1, <2>1 DEF IInv, SoloIsNext, working
<1>4. OwnSlots' /\ TaskHeld' /\ Accounted'
  BY <1>1 DEF IInv, OwnSlots, TaskHeld, Accounted, slots, driving, working, history
<1>5. SlotIsHanded' /\ TaskInSlot'
  BY <1>1 DEF IInv, SlotIsHanded, TaskInSlot, Publishing, slots, driving, working, history
<1>6. Placed' /\ StartedInOrder'
  BY <1>1 DEF Placed, StartedInOrder
<1> QED BY <1>1, <1>2, <1>3, <1>4, <1>5, <1>6 DEF IInv

\* The worker that next_solo admits holds the first task not started: that task
\* is in the same slot, and a worker holds no later task than its slot.
LEMMA EnterInv == ASSUME IInv, NEW w \in WorkerIds, Enter(w) PROVE IInv'
<1>1. /\ n_slot' = n_slot /\ Slots' = Slots
      /\ UNCHANGED <<ordered, slots, driving, next_solo, shutdown, slot_id, task, dropped>>
      /\ next_solo = slot_id[w] /\ started' = started \cup {task[w]}
  BY RingStays DEF Enter
<1>2. /\ pc[w] = "solospin" /\ pc'[w] = "solo"
      /\ \A v \in WorkerIds : v # w => pc'[v] = pc[v]
      /\ pc' \in [WorkerIds -> Locations]
  BY DEF Enter, Goto, IInv, TypeOK, Locations
<1>3. /\ task[w] \in 1 .. submitted /\ submitted \in Nat
      /\ \A v \in WorkerIds : task[v] = task[w] => v = w
      /\ task[w] \notin started /\ task[w] \notin dropped
  BY <1>2 DEF IInv, TypeOK, TaskHeld
<1>4. slot_id[w] \in Slots /\ \A v \in WorkerIds : slot_id[v] = slot_id[w] => v = w
  BY SlotsApart DEF IInv, TypeOK
<1>5. \A z \in Slots : prologue_slots[z] # task[w]
  BY <1>2, <1>3 DEF IInv, TaskInSlot
<1>6. TypeOK'
  BY <1>1, <1>2, <1>3 DEF IInv, TypeOK, slots, driving
<1>7. OwnSlots' /\ SoloIsNext' /\ Accounted' /\ Placed'
  BY <1>1, <1>2 DEF IInv, OwnSlots, SoloIsNext, Accounted, Placed, slots, driving
<1>8. SlotIsHanded'
  BY <1>1, <1>2 DEF IInv, SlotIsHanded, Publishing, slots, driving
<1>9. TaskInSlot'
  BY <1>1, <1>2, <1>5 DEF IInv, TaskInSlot, Publishing, slots, driving
<1>10. TaskHeld'
  BY <1>1, <1>2, <1>3 DEF IInv, TaskHeld, slots
<1>11. StartedInOrder'
  <2> SUFFICES ASSUME ordered, dropped = {} PROVE StartedInOrder'
    BY <1>1 DEF StartedInOrder
  <2>1. PICK d \in 0 .. submitted :
          /\ started = 1 .. d
          /\ \/ SoloOf = {} /\ next_solo = d % n_slot
             \/ SoloOf # {} /\ d > 0 /\ next_solo = (d - 1) % n_slot
    BY DEF IInv, StartedInOrder
  <2>2. SoloOf = {}
    BY <1>1, <1>2, <1>4 DEF IInv, SoloIsNext, SoloOf
  <2>3. d % n_slot = slot_id[w] /\ (d + 1) - 1 = d
    BY <1>1, <2>1, <2>2
  <2>4. task[w] > d /\ d + 1 \in 1 .. submitted /\ d + 1 \notin started \cup dropped
    BY <1>3, <2>1
  <2>5. task[w] = d + 1
    <3>1. CASE \E z \in Slots : prologue_slots[z] = d + 1
      <4>1. PICK z \in Slots : prologue_slots[z] = d + 1
        BY <3>1
      <4>2. z = slot_id[w]
        <5>1. prologue_slots[z] # 0
          BY <2>4, <4>1
        <5>2. (prologue_slots[z] - 1) % n_slot = z
          BY <5>1 DEF IInv, Placed
        <5> QED BY <4>1, <2>3, <5>2
      <4>3. task[w] <= d + 1
        BY <1>3, <2>4, <4>1, <4>2 DEF IInv, Placed
      <4> QED BY <1>3, <2>4, <4>3
    <3>2. CASE \E v \in WorkerIds : task[v] = d + 1
      <4>1. PICK v \in WorkerIds : task[v] = d + 1
        BY <3>2
      <4>2. slot_id[v] = slot_id[w]
        <5>1. task[v] # 0
          BY <2>4, <4>1
        <5>2. (task[v] - 1) % n_slot = slot_id[v]
          BY <5>1 DEF IInv, Placed
        <5> QED BY <4>1, <2>3, <5>2
      <4> QED BY <1>4, <4>1, <4>2
    <3> QED BY <2>4, <3>1, <3>2 DEF IInv, Accounted
  <2>6. started' = 1 .. d + 1
    BY <1>1, <2>1, <2>5
  <2>7. SoloOf' # {} /\ next_solo' = ((d + 1) - 1) % n_slot' /\ d + 1 > 0 /\ d + 1 \in 0 .. submitted'
    <3>1. w \in SoloOf'
      BY <1>2 DEF SoloOf
    <3>2. submitted' = submitted
      BY <1>1 DEF driving
    <3> QED BY <1>1, <2>1, <2>3, <2>4, <3>1, <3>2
  <2> QED BY <2>6, <2>7 DEF StartedInOrder
<1> QED BY <1>1, <1>6, <1>7, <1>8, <1>9, <1>10, <1>11 DEF IInv

\* A solo registers its epilogue in its own slot.
LEMMA RunEpilogueInv == ASSUME IInv, NEW w \in WorkerIds, RunEpilogue(w) PROVE IInv'
<1>1. /\ n_slot' = n_slot /\ Slots' = Slots
      /\ UNCHANGED <<ordered, prologue_slots, slot_ready, driving, next_solo, shutdown,
                     working, history>>
  BY RingStays DEF RunEpilogue
<1>2. epilogue_slots' \in [Slots -> Nat]
  <2>1. next_solo \in Slots /\ task[w] \in Nat
    BY DEF RunEpilogue, IInv, TypeOK, SoloIsNext
  <2> QED BY <2>1 DEF RunEpilogue, IInv, TypeOK
<1>3. TypeOK'
  BY <1>1, <1>2 DEF IInv, TypeOK, driving, working, history
<1>4. OwnSlots' /\ SoloIsNext' /\ TaskHeld' /\ Accounted'
  BY <1>1 DEF IInv, OwnSlots, SoloIsNext, TaskHeld, Accounted, driving, working, history
<1>5. SlotIsHanded' /\ TaskInSlot'
  BY <1>1 DEF IInv, SlotIsHanded, TaskInSlot, Publishing, driving, working, history
<1>6. Placed' /\ StartedInOrder'
  BY <1>1 DEF IInv, Placed, StartedInOrder, SoloOf, driving, working, history
<1> QED BY <1>1, <1>3, <1>4, <1>5, <1>6 DEF IInv

\* The solo that ends was the only one; next_solo moves on to the next task.
LEMMA SoloDoneInv == ASSUME IInv, NEW w \in WorkerIds, SoloDone(w) PROVE IInv'
<1>1. /\ n_slot' = n_slot /\ Slots' = Slots
      /\ UNCHANGED <<ordered, slots, driving, shutdown, slot_id, task, history>>
      /\ next_solo' = IF ordered THEN (next_solo + 1) % n_slot ELSE -1
  BY RingStays DEF SoloDone
<1>2. /\ pc[w] = "solo" /\ pc'[w] = "epilogue"
      /\ \A v \in WorkerIds : v # w => pc'[v] = pc[v]
      /\ pc' \in [WorkerIds -> Locations]
  BY DEF SoloDone, Goto, IInv, TypeOK, Locations
<1>3. \A v \in WorkerIds : pc[v] = "solo" => v = w
  BY <1>2, SlotsApart DEF IInv, SoloIsNext
<1>4. /\ n_slot \in Nat \ {0} /\ Slots = 0 .. n_slot - 1
      /\ next_solo = slot_id[w] /\ next_solo \in Slots
  BY <1>2, RingSize DEF IInv, TypeOK, SoloIsNext
<1>5. IF ordered THEN next_solo' \in Slots /\ next_solo' # -1 ELSE next_solo' = -1
  <2>1. next_solo + 1 \in Nat
    BY <1>4
  <2>2. (next_solo + 1) % n_slot \in 0 .. n_slot - 1
    BY <1>4, <2>1, Division
  <2>3. \A x \in 0 .. n_slot - 1 : x # -1
    BY <1>4
  <2> QED BY <1>1, <1>4, <2>2, <2>3
<1>6. TypeOK'
  BY <1>1, <1>2, <1>5 DEF IInv, TypeOK, slots, driving, history
<1>7. SoloIsNext'
  BY <1>1, <1>2, <1>3, <1>5 DEF IInv, SoloIsNext
<1>8. OwnSlots' /\ Accounted' /\ Placed'
  BY <1>1, <1>2 DEF IInv, OwnSlots, Accounted, Placed, slots, driving, history
<1>9. SlotIsHanded' /\ TaskInSlot'
  BY <1>1, <1>2 DEF IInv, SlotIsHanded, TaskInSlot, Publishing, slots, driving, history
<1>10. TaskHeld'
  BY <1>1, <1>2 DEF IInv, TaskHeld, slots, history
<1>11. StartedInOrder'
  <2> SUFFICES ASSUME ordered, dropped = {} PROVE StartedInOrder'
    BY <1>1 DEF StartedInOrder, history
  <2>1. SoloOf # {} /\ SoloOf' = {}
    BY <1>2, <1>3 DEF SoloOf
  <2>2. PICK d \in 0 .. submitted :
          started = 1 .. d /\ d > 0 /\ next_solo = (d - 1) % n_slot
    BY <2>1 DEF IInv, StartedInOrder
  <2>3. d - 1 \in Nat /\ (d - 1) + 1 = d
    BY <2>2 DEF IInv, TypeOK
  <2>4. next_solo' = ((d - 1) + 1) % n_slot
    BY <1>1, <1>4, <2>2, <2>3, NextInRing
  <2> QED BY <1>1, <2>1, <2>2, <2>3, <2>4 DEF StartedInOrder, driving, history
<1> QED BY <1>1, <1>6, <1>7, <1>8, <1>9, <1>10, <1>11 DEF IInv

\* After the epilogue the worker holds nothing and goes on to its next slot.
LEMMA EpilogueInv == ASSUME IInv, NEW w \in WorkerIds, Epilogue(w) PROVE IInv'
<1> DEFINE s == slot_id[w]
<1>1. /\ n_slot' = n_slot /\ Slots' = Slots
      /\ UNCHANGED <<ordered, prologue_slots, slot_ready, driving, next_solo, shutdown,
                     started, dropped>>
  BY RingStays DEF Epilogue
<1>2. /\ pc[w] = "epilogue" /\ pc'[w] = "wait" /\ task'[w] = 0
      /\ \A v \in WorkerIds : v # w => /\ pc'[v] = pc[v] /\ slot_id'[v] = slot_id[v]
                                       /\ task'[v] = task[v]
      /\ pc' \in [WorkerIds -> Locations]
      /\ task' \in [WorkerIds -> 0 .. submitted]
  <2>1. submitted \in Nat
    BY DEF IInv, TypeOK
  <2> QED BY <2>1 DEF Epilogue, Goto, NextSlot, IInv, TypeOK, Locations
<1>3. s \in Slots /\ slot_id'[w] = (s + n_worker) % n_slot
  BY DEF Epilogue, NextSlot, IInv, TypeOK
<1>4. slot_id'[w] \in Slots /\ slot_id'[w] % n_worker = s % n_worker
  BY <1>3, OwnNext DEF IInv, TypeOK
<1>5. slot_id' \in [WorkerIds -> Slots]
  BY <1>4 DEF Epilogue, NextSlot, IInv, TypeOK
<1>6. epilogue_slots' \in [Slots -> Nat]
  BY <1>3 DEF Epilogue, IInv, TypeOK
<1>7. slot_id[w] = s /\ (task[w] # 0 => task[w] \in started)
  BY <1>2 DEF IInv, TaskHeld
<1> HIDE DEF s
<1>8. TypeOK'
  BY <1>1, <1>2, <1>5, <1>6 DEF IInv, TypeOK, driving
<1>9. OwnSlots'
  BY <1>2, <1>4, <1>7 DEF IInv, OwnSlots
<1>10. SoloIsNext'
  BY <1>1, <1>2 DEF IInv, SoloIsNext
<1>11. SlotIsHanded'
  BY <1>1, <1>2 DEF IInv, SlotIsHanded, Publishing, driving
<1>12. TaskInSlot'
  BY <1>1, <1>2 DEF IInv, TaskInSlot, Publishing, driving
<1>13. TaskHeld'
  BY <1>1, <1>2 DEF IInv, TaskHeld
<1>14. Accounted'
  BY <1>1, <1>2, <1>7 DEF IInv, Accounted, driving
<1>15. Placed'
  BY <1>1, <1>2 DEF IInv, Placed, driving
<1>16. StartedInOrder'
  <2>1. SoloOf' = SoloOf
    BY <1>2 DEF SoloOf
  <2> QED BY <1>1, <2>1 DEF IInv, StartedInOrder, driving
<1> QED BY <1>1, <1>8, <1>9, <1>10, <1>11, <1>12, <1>13, <1>14, <1>15, <1>16 DEF IInv

\* Steps that change no variable of the runner.
LEMMA StutterInv == ASSUME IInv, UNCHANGED vars PROVE IInv'
<1>1. /\ n_slot' = n_slot /\ Slots' = Slots
      /\ UNCHANGED <<ordered, slots, driving, next_solo, shutdown, working, history>>
  BY RingStays DEF vars
<1>2. TypeOK' /\ OwnSlots' /\ SoloIsNext' /\ TaskHeld' /\ Accounted'
  BY <1>1 DEF IInv, TypeOK, OwnSlots, SoloIsNext, TaskHeld, Accounted, slots, driving,
              working, history
<1>3. SlotIsHanded' /\ TaskInSlot' /\ Placed' /\ StartedInOrder'
  BY <1>1 DEF IInv, SlotIsHanded, TaskInSlot, Publishing, Placed, StartedInOrder, SoloOf,
              slots, driving, working, history
<1> QED BY <1>1, <1>2, <1>3 DEF IInv

\* Every step of the driver or of a worker preserves the invariant.
LEMMA NextInv == ASSUME IInv, [Next]_vars PROVE IInv'
<1>1. ASSUME NEW w \in WorkerIds, Take(w) PROVE IInv'
  BY <1>1, MoveInv DEF Take
<1>2. ASSUME NEW w \in WorkerIds, Exit(w) PROVE IInv'
  BY <1>2, MoveInv DEF Exit
<1>3. ASSUME NEW w \in WorkerIds, Step(w) PROVE IInv'
  BY <1>1, <1>2, <1>3, PrologueInv, ClearInv, ReadyInv, ClaimInv, EnterInv, SoloDoneInv,
     EpilogueInv DEF Step
<1> QED BY <1>3, DriverSpinInv, FillInv, PublishInv, DestroyInv, RunEpilogueInv, StutterInv
        DEF Next

\* The invariant holds in every state of a runner with at least one worker.
THEOREM Inductive == ASSUME Sizes PROVE Spec => []IInv
<1>1. Init => IInv
  BY InitInv
<1>2. IInv /\ [Next]_vars => IInv'
  BY NextInv
<1> QED BY <1>1, <1>2, PTL DEF Spec

-----------------------------------------------------------------------------
(***************************************************************************)
(* What it means for the replicas.                                          *)
(***************************************************************************)

\* At most one worker is inside the handlers of a replica, which use no lock:
\* next_solo names the slot of every worker in its solo.
THEOREM SpinOneSoloHolds == ASSUME Sizes PROVE Spec => []SpinOneSolo
<1>1. IInv => SpinOneSolo
  BY SlotsApart DEF IInv, SoloIsNext, SpinOneSolo
<1> QED BY <1>1, Inductive, PTL

\* The slots that hold a task, and the workers that do, are at most one: no task
\* is overwritten in the ring and none is run twice.
THEOREM SpinNoTaskLostHolds == ASSUME Sizes PROVE Spec => []SpinNoTaskLost
<1>1. ASSUME IInv PROVE SpinNoTaskLost
  <2> SUFFICES ASSUME NEW t \in 1 .. submitted
               PROVE  LET inSlots == {s \in Slots : prologue_slots[s] = t}
                          taken == {w \in WorkerIds : task[w] = t}
                      IN  /\ Cardinality(taken) <= 1
                          /\ inSlots \cup taken = {} => t \in started \cup dropped
                          /\ \A w \in taken : pc[w] \in {"clear", "ready", "solospin", "exited"} =>
                               t \notin started
                          /\ t \in started \cup dropped =>
                               \A s \in inSlots : \E w \in WorkerIds :
                                 slot_id[w] = s /\ pc[w] = "clear"
    BY DEF SpinNoTaskLost
  <2> DEFINE inSlots == {s \in Slots : prologue_slots[s] = t}
             taken == {w \in WorkerIds : task[w] = t}
  <2>1. t # 0
    BY <1>1 DEF IInv, TypeOK
  <2>2. \A v, w \in taken : v = w
    BY <1>1, <2>1 DEF IInv, TaskHeld
  <2>3. Cardinality(taken) <= 1
    <3>1. CASE taken = {}
      BY <3>1, FS_EmptySet
    <3>2. CASE taken # {}
      <4>1. PICK w \in taken : taken = {w}
        BY <2>2, <3>2
      <4> HIDE DEF taken
      <4>2. Cardinality(taken) = 1
        BY <4>1, FS_Singleton
      <4> QED BY <4>2
    <3> QED BY <3>1, <3>2
  <2>4. inSlots \cup taken = {} => t \in started \cup dropped
    BY <1>1 DEF IInv, Accounted
  <2>5. \A w \in taken : pc[w] \in {"clear", "ready", "solospin", "exited"} => t \notin started
    BY <1>1, <2>1 DEF IInv, TaskHeld
  <2>6. t \in started \cup dropped =>
          \A s \in inSlots : \E w \in WorkerIds : slot_id[w] = s /\ pc[w] = "clear"
    BY <1>1, <2>1 DEF IInv, TaskInSlot
  <2> QED BY <2>3, <2>4, <2>5, <2>6
<1>2. IInv => SpinNoTaskLost
  BY <1>1
<1> QED BY <1>2, Inductive, PTL

\* Solos of an ordered runner start in the order of the RunPrologue calls, as
\* long as no prologue has returned nullptr: what has been started is 1 .. d.
THEOREM SpinInOrderIfSolosHolds == ASSUME Sizes PROVE Spec => []SpinInOrderIfSolos
<1>1. IInv => SpinInOrderIfSolos
  <2> SUFFICES ASSUME IInv, ordered, dropped = {} PROVE InOrder
    BY DEF SpinInOrderIfSolos, InOrder
  <2>1. PICK d \in 0 .. submitted : started = 1 .. d
    BY DEF IInv, StartedInOrder
  <2> QED BY <2>1 DEF InOrder
<1> QED BY <1>1, Inductive, PTL
=============================================================================
