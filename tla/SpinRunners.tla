---------------------------- MODULE SpinRunners -----------------------------
(***************************************************************************)
(* SpinOrderedRunner and its subclass SpinRunner of common/runner.h and     *)
(* runner.cc, the runners of the HotStuff, MinBFT, TomBFT and signed        *)
(* unreplicated replicas.  The transport's thread, the driver, puts each    *)
(* task into the next slot of a ring; worker i serves the slots i,          *)
(* i + n_worker, i + 2 n_worker, ... in turn.  No lock is used: slot_ready  *)
(* hands a slot from driver to worker and back, next_solo admits one worker *)
(* at a time to its solo.  Each access to shared state is a step.           *)
(*                                                                          *)
(* ordered is the dynamic type of the object, which the virtual functions   *)
(* n_slot, SoloSpin, SoloDone and DriverSpin dispatch on.                   *)
(***************************************************************************)
EXTENDS Integers, FiniteSets

CONSTANTS
  n_worker,        \* the number of worker threads, at least 1
  SlotsPerWorker,  \* 4 in SpinOrderedRunner::n_slot
  MaxTask          \* bound: tasks submitted

WorkerIds == 0 .. n_worker - 1

VARIABLES
  ordered,         \* TRUE: SpinOrderedRunner, FALSE: SpinRunner
  prologue_slots,  \* prologue_slots[s]: the task in slot s, 0 for nullptr
  epilogue_slots,  \* epilogue_slots[s]: the task whose epilogue is in slot s, or 0
  slot_ready,      \* slot_ready[s]: the driver may fill slot s
  next_prologue,   \* the driver's next slot
  next_solo,       \* the slot whose worker may run its solo, -1 if free
  shutdown,        \* set by the destructor
  driver,          \* "idle", "publish" inside RunPrologue, "join" in the destructor
  submitted,       \* the number of RunPrologue calls that have returned
  pc,              \* pc[w]: where worker w is
  slot_id,         \* slot_id[w]: w's current slot
  task,            \* task[w]: the task whose solo w holds, 0 if none
  started,         \* the tasks whose solo has been started
  dropped          \* the tasks whose prologue returned no solo

slots   == <<prologue_slots, epilogue_slots, slot_ready>>
driving == <<next_prologue, driver, submitted>>
working == <<pc, slot_id, task>>
history == <<started, dropped>>
vars == <<ordered, slots, driving, next_solo, shutdown, working, history>>

n_slot == IF ordered THEN n_worker * SlotsPerWorker ELSE n_worker
Slots  == 0 .. n_slot - 1

\* The constructor.  It does not initialize shutdown, a std::atomic<bool> that
\* the compiler leaves indeterminate in C++14.
Init ==
  /\ ordered \in BOOLEAN
  /\ prologue_slots = [s \in Slots |-> 0]
  /\ epilogue_slots = [s \in Slots |-> 0]
  /\ slot_ready = [s \in Slots |-> TRUE]
  /\ next_prologue = 0
  /\ next_solo = IF ordered THEN 0 ELSE -1
  /\ shutdown \in BOOLEAN
  /\ driver = "idle"
  /\ submitted = 0
  /\ pc = [w \in WorkerIds |-> "wait"]
  /\ slot_id = [w \in WorkerIds |-> w]
  /\ task = [w \in WorkerIds |-> 0]
  /\ started = {} /\ dropped = {}

-----------------------------------------------------------------------------
(***************************************************************************)
(* The driver.                                                              *)
(***************************************************************************)

\* SpinRunner::DriverSpin looks for a ready slot; SpinOrderedRunner's waits.
DriverSpin ==
  /\ ~ordered /\ driver = "idle" /\ submitted < MaxTask
  /\ ~slot_ready[next_prologue]
  /\ next_prologue' = (next_prologue + 1) % n_slot
  /\ UNCHANGED <<ordered, slots, driver, submitted, next_solo, shutdown, working, history>>

FillNoWait ==
  /\ driver = "idle" /\ submitted < MaxTask
  /\ prologue_slots' = [prologue_slots EXCEPT ![next_prologue] = submitted + 1]
  /\ driver' = "publish"
  /\ UNCHANGED <<ordered, epilogue_slots, slot_ready, next_prologue, submitted,
                 next_solo, shutdown, working, history>>

\* RunPrologue, past DriverSpin: write the prologue into the slot ...
Fill ==
  /\ driver = "idle" /\ submitted < MaxTask
  /\ slot_ready[next_prologue]
  /\ prologue_slots' = [prologue_slots EXCEPT ![next_prologue] = submitted + 1]
  /\ driver' = "publish"
  /\ UNCHANGED <<ordered, epilogue_slots, slot_ready, next_prologue, submitted,
                 next_solo, shutdown, working, history>>

\* ... and hand the slot to its worker.
Publish ==
  /\ driver = "publish"
  /\ slot_ready' = [slot_ready EXCEPT ![next_prologue] = FALSE]
  /\ next_prologue' = (next_prologue + 1) % n_slot
  /\ submitted' = submitted + 1
  /\ driver' = "idle"
  /\ UNCHANGED <<ordered, prologue_slots, epilogue_slots, next_solo, shutdown,
                 working, history>>

\* The destructor, up to the joins.
Destroy ==
  /\ driver = "idle"
  /\ shutdown' = TRUE
  /\ driver' = "join"
  /\ UNCHANGED <<ordered, slots, next_prologue, submitted, next_solo, working, history>>

-----------------------------------------------------------------------------
(***************************************************************************)
(* RunWorkerThread.                                                         *)
(***************************************************************************)

Goto(w, from, to) == pc[w] = from /\ pc' = [pc EXCEPT ![w] = to]

NextSlot(w) == slot_id' = [slot_id EXCEPT ![w] = (@ + n_worker) % n_slot]

\* The worker finds its slot filled.
Take(w) ==
  /\ Goto(w, "wait", "prologue")
  /\ ~slot_ready[slot_id[w]] /\ ~shutdown
  /\ UNCHANGED <<ordered, slots, driving, next_solo, shutdown, slot_id, task, history>>

ExitIdle(w) ==
  /\ shutdown /\ Goto(w, "wait", "exited")
  /\ UNCHANGED <<ordered, slots, driving, next_solo, shutdown, slot_id, task, history>>

\* Both loops in which a worker waits end when shutdown is set.
Exit(w) ==
  /\ shutdown
  /\ Goto(w, "wait", "exited") \/ Goto(w, "solospin", "exited")
  /\ UNCHANGED <<ordered, slots, driving, next_solo, shutdown, slot_id, task, history>>

\* Run the prologue in the slot; it returns a solo or nullptr.
Prologue(w) ==
  /\ Goto(w, "prologue", "clear")
  /\ \E solo \in BOOLEAN :
       LET t == prologue_slots[slot_id[w]]
       IN  /\ task' = [task EXCEPT ![w] = IF solo THEN t ELSE 0]
           /\ dropped' = IF solo THEN dropped ELSE dropped \cup {t}
  /\ UNCHANGED <<ordered, slots, driving, next_solo, shutdown, slot_id, started>>

Clear(w) ==
  /\ Goto(w, "clear", "ready")
  /\ prologue_slots' = [prologue_slots EXCEPT ![slot_id[w]] = 0]
  /\ UNCHANGED <<ordered, epilogue_slots, slot_ready, driving, next_solo, shutdown,
                 slot_id, task, history>>

\* Give the slot back; without a solo go on to the next slot, leaving next_solo
\* where it is.
Ready(w) ==
  /\ slot_ready' = [slot_ready EXCEPT ![slot_id[w]] = TRUE]
  /\ \/ /\ task[w] # 0
        /\ Goto(w, "ready", "solospin")
        /\ UNCHANGED slot_id
     \/ /\ task[w] = 0
        /\ Goto(w, "ready", "wait")
        /\ NextSlot(w)
  /\ UNCHANGED <<ordered, prologue_slots, epilogue_slots, driving, next_solo,
                 shutdown, task, history>>

ClaimStore(w) ==
  /\ ~ordered /\ pc[w] = "solospin"
  /\ next_solo' = slot_id[w]
  /\ UNCHANGED <<ordered, slots, driving, shutdown, working, history>>

\* SpinRunner::SoloSpin claims next_solo with a compare-and-swap; a failed one,
\* spurious or not, changes nothing.
Claim(w) ==
  /\ ~ordered /\ pc[w] = "solospin"
  /\ next_solo = -1
  /\ next_solo' = slot_id[w]
  /\ UNCHANGED <<ordered, slots, driving, shutdown, working, history>>

EnterAny(w) ==
  /\ Goto(w, "solospin", "solo")
  /\ next_solo <= slot_id[w] /\ ~shutdown
  /\ started' = started \cup {task[w]}
  /\ UNCHANGED <<ordered, slots, driving, next_solo, shutdown, slot_id, task, dropped>>

\* SoloSpin ends: the worker enters its solo.
Enter(w) ==
  /\ Goto(w, "solospin", "solo")
  /\ next_solo = slot_id[w] /\ ~shutdown
  /\ started' = started \cup {task[w]}
  /\ UNCHANGED <<ordered, slots, driving, next_solo, shutdown, slot_id, task, dropped>>

\* RunEpilogue, called by the solo: it finds its slot in next_solo.
RunEpilogue(w) ==
  /\ pc[w] = "solo"
  /\ epilogue_slots' = [epilogue_slots EXCEPT ![next_solo] = task[w]]
  /\ UNCHANGED <<ordered, prologue_slots, slot_ready, driving, next_solo, shutdown,
                 working, history>>

SoloDoneStuck(w) ==
  /\ Goto(w, "solo", "epilogue")
  /\ next_solo' = IF ordered THEN next_solo ELSE -1
  /\ UNCHANGED <<ordered, slots, driving, shutdown, slot_id, task, history>>

\* Admit the worker of the next slot, or any worker.
SoloDone(w) ==
  /\ Goto(w, "solo", "epilogue")
  /\ next_solo' = IF ordered THEN (next_solo + 1) % n_slot ELSE -1
  /\ UNCHANGED <<ordered, slots, driving, shutdown, slot_id, task, history>>

\* Run the epilogue in the slot, if any, clear it, go on to the next slot.
Epilogue(w) ==
  /\ Goto(w, "epilogue", "wait")
  /\ epilogue_slots' = [epilogue_slots EXCEPT ![slot_id[w]] = 0]
  /\ task' = [task EXCEPT ![w] = 0]
  /\ NextSlot(w)
  /\ UNCHANGED <<ordered, prologue_slots, slot_ready, driving, next_solo, shutdown,
                 started, dropped>>

Step(w) == \/ Take(w) \/ Exit(w) \/ Prologue(w) \/ Clear(w) \/ Ready(w)
           \/ Claim(w) \/ Enter(w) \/ SoloDone(w) \/ Epilogue(w)

Next ==
  \/ DriverSpin \/ Fill \/ Publish \/ Destroy
  \/ \E w \in WorkerIds : Step(w) \/ RunEpilogue(w)

Spec == Init /\ [][Next]_vars

\* The operating system schedules every thread; prologues, solos and epilogues
\* return.  Nothing is assumed of how the compare-and-swap is won.
Fairness == WF_vars(Publish) /\ \A w \in WorkerIds : WF_vars(Step(w))

FairSpec == Spec /\ Fairness

-----------------------------------------------------------------------------
\* At most one thread is inside the replica's handlers, which use no lock.
SpinOneSolo ==
  \A v, w \in WorkerIds : pc[v] = "solo" /\ pc[w] = "solo" => v = w

\* SpinOrderedRunner runs solos in the order of the RunPrologue calls: the
\* comment on SpinRunner says that only the subclass relaxes the order.
InOrder ==
  ordered => \A t \in started : \A u \in 1 .. t - 1 : u \in started \cup dropped

\* The same as long as every prologue returns a solo, also when the ring wraps
\* around and slots are refilled while their workers still run.
SpinInOrderIfSolos == dropped = {} => InOrder

\* A submitted task is in a slot that its worker has not emptied, held by one
\* worker, or dealt with, and only one of these: the driver overwrites no task
\* and no worker runs one twice, although slots are given back before the solo.
SpinNoTaskLost ==
  \A t \in 1 .. submitted :
    LET inSlots == {s \in Slots : prologue_slots[s] = t}
        taken == {w \in WorkerIds : task[w] = t}
    IN  /\ Cardinality(taken) <= 1
        /\ inSlots \cup taken = {} => t \in started \cup dropped
        /\ \A w \in taken : pc[w] \in {"clear", "ready", "solospin", "exited"} =>
             t \notin started
        /\ t \in started \cup dropped =>
             \A s \in inSlots : \E w \in WorkerIds : slot_id[w] = s /\ pc[w] = "clear"

\* SpinOrderedRunner gets to every task that was submitted, unless the runner is
\* shut down or an earlier prologue returned nullptr.
EveryTaskRuns ==
  ordered ~> \A t \in 1 .. submitted :
               t \in started \cup dropped \/ shutdown \/ dropped \cap (1 .. t) # {}

\* The joins of the destructor return: no worker stays in a loop.
JoinReturns ==
  driver = "join" ~> \A w \in WorkerIds : pc[w] = "exited"
=============================================================================
