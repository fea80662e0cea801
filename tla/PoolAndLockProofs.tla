------------------------- MODULE PoolAndLockProofs --------------------------
(***************************************************************************)
(* Two ways to make threads or transactions wait for their turn.           *)
(*                                                                         *)
(* CTPLOrderedRunner implements SoloOrder, for any pool of threads and any *)
(* number of tasks.  The lock server keeps its queue, and its writers      *)
(* exclusive, for any number of requesters, with retryLock and without.    *)
(***************************************************************************)
EXTENDS OrderedPool, LockServer, ProofFacts

(***************************************************************************)
(* The pool.                                                               *)
(***************************************************************************)

\* The invariant holds at the start.
LEMMA InitInv == Init => Inv
  BY MaxTaskAssumption, WorkersAssumption
  DEF Init, Inv, TypeOK, Places, QueueInOrder, Popped, TasksOfThreads, MutexIsHeld,
      TasksAccounted, EpilogueInMutex, EpilogueIsOwn

USE DEF Places

\* RunPrologue keeps it.
LEMMA RunPrologueInv == Inv /\ RunPrologue => Inv'
<1> SUFFICES ASSUME Inv, RunPrologue PROVE Inv'
  OBVIOUS
<1>1. /\ prologue_id' = prologue_id + 1 /\ prologue_id \in Nat
      /\ queue' = Append(queue, prologue_id + 1)
      /\ queue \in Seq(1 .. prologue_id)
  BY DEF Inv, TypeOK, RunPrologue
<1>2. queue' \in Seq(1 .. prologue_id')
  <2>1. queue \in Seq(1 .. prologue_id')
    BY <1>1
  <2> QED
    BY <1>1, <2>1
<1>3. TypeOK'
  BY <1>1, <1>2 DEF Inv, TypeOK, RunPrologue, locals, history
<1>4. QueueInOrder' /\ Popped' = Popped
  BY <1>1 DEF Inv, QueueInOrder, Popped
<1>5. UNCHANGED <<last_task, replica_mutex, epilogue, pc, task, solo, mine, started, dropped, finished>>
  BY DEF RunPrologue, locals, history
<1> QED
  BY <1>3, <1>4, <1>5 DEF Inv, TasksOfThreads, MutexIsHeld, TasksAccounted,
     EpilogueInMutex, EpilogueIsOwn

\* A worker that takes a task keeps it.
LEMMA PopInv == ASSUME Inv, NEW w \in Workers, Pop(w) PROVE Inv'
<1>1. /\ pc[w] = "idle" /\ pc' = [pc EXCEPT ![w] = "prologue"]
      /\ task' = [task EXCEPT ![w] = Head(queue)]
      /\ queue # <<>> /\ queue' = Tail(queue)
      /\ UNCHANGED <<prologue_id, last_task, replica_mutex, epilogue, solo, mine,
                     started, dropped, finished>>
  BY DEF Pop, Goto, history
<1>2. /\ queue \in Seq(1 .. prologue_id) /\ prologue_id \in Nat
      /\ Len(queue) \in Nat /\ Len(queue) > 0
  BY <1>1 DEF Inv, TypeOK
<1>3. Head(queue) = Popped + 1 /\ Popped' = Popped + 1
  BY <1>1, <1>2 DEF Inv, QueueInOrder, Popped
<1>4. Popped \in Nat /\ Popped + 1 <= prologue_id
  BY <1>2 DEF Inv, QueueInOrder, Popped
<1>5. QueueInOrder'
  BY <1>1, <1>2, <1>3 DEF Inv, QueueInOrder, Popped
<1>6. TypeOK'
  BY <1>1, <1>2, <1>3, <1>4 DEF Inv, TypeOK
<1>7. TasksOfThreads'
  <2>1. \A v \in Workers : v # w => task'[v] = task[v] /\ pc'[v] = pc[v]
    BY <1>1 DEF Inv, TypeOK
  <2>2. task'[w] = Popped + 1 /\ pc'[w] = "prologue"
    BY <1>1, <1>3 DEF Inv, TypeOK
  <2> QED
    BY SMTT(30), <1>1, <1>3, <1>4, <2>1, <2>2 DEF Inv, TypeOK, TasksOfThreads
<1>8. MutexIsHeld'
  BY <1>1 DEF Inv, TypeOK, MutexIsHeld
<1>9. TasksAccounted'
  <2>1. \A v \in Workers : v # w => task'[v] = task[v] /\ pc'[v] = pc[v]
    BY <1>1 DEF Inv, TypeOK
  <2>2. task'[w] = Popped + 1 /\ pc'[w] = "prologue"
    BY <1>1, <1>3 DEF Inv, TypeOK
  <2> QED
    BY <1>1, <1>3, <1>4, <2>1, <2>2 DEF Inv, TypeOK, TasksAccounted
<1> QED
  BY <1>1, <1>5, <1>6, <1>7, <1>8, <1>9 DEF Inv, TypeOK, EpilogueInMutex, EpilogueIsOwn

\* A prologue that ends keeps it.
LEMMA PrologueInv == ASSUME Inv, NEW w \in Workers, Prologue(w) PROVE Inv'
<1>1. PICK s \in BOOLEAN :
        /\ solo' = [solo EXCEPT ![w] = s]
        /\ dropped' = IF s THEN dropped ELSE dropped \cup {task[w]}
  BY DEF Prologue
<1>2. /\ pc[w] = "prologue" /\ pc' = [pc EXCEPT ![w] = "lock"]
      /\ UNCHANGED <<prologue_id, last_task, replica_mutex, epilogue, queue, task,
                     mine, started, finished>>
  BY DEF Prologue, Goto, shared
<1>3. task[w] \in 1 .. Popped /\ Popped' = Popped /\ Popped <= prologue_id
      /\ prologue_id \in Nat
  BY <1>2 DEF Inv, TypeOK, TasksOfThreads, Popped, QueueInOrder
<1>4. /\ pc'[w] = "lock" /\ solo'[w] = s
      /\ \A v \in Workers : v # w => solo'[v] = solo[v] /\ pc'[v] = pc[v]
  BY <1>1, <1>2 DEF Inv, TypeOK
<1>5. TypeOK'
  <2>1. dropped' \subseteq 1 .. prologue_id
    <3>1. dropped \subseteq 1 .. prologue_id
      BY DEF Inv, TypeOK
    <3>2. task[w] \in 1 .. prologue_id
      BY <1>3 DEF Popped, Inv, TypeOK
    <3> QED
      BY <1>1, <3>1, <3>2
  <2>2. solo' \in [Workers -> BOOLEAN]
    BY <1>1 DEF Inv, TypeOK
  <2> QED
    BY <1>2, <2>1, <2>2 DEF Inv, TypeOK
<1>6. QueueInOrder' /\ TasksOfThreads' /\ MutexIsHeld'
  BY <1>2, <1>3, <1>4 DEF Inv, TypeOK, QueueInOrder, TasksOfThreads, MutexIsHeld
<1>7. TasksAccounted'
  <2>1. /\ \A t \in 1 .. last_task : t \in started \cup dropped
        /\ \A t \in started :
             t <= last_task \/ \E v \in Workers : pc[v] = "solo" /\ task[v] = t
        /\ \A t \in dropped : t <= Popped
        /\ \A v \in Workers :
             /\ pc[v] = "prologue" => task[v] \notin dropped
             /\ pc[v] \in {"lock", "sleep", "turn", "solo"} =>
                  (task[v] \in dropped <=> solo[v] = FALSE)
             /\ pc[v] = "solo" => solo[v] = TRUE /\ task[v] \in started
    BY DEF Inv, TasksAccounted
  <2>2. \A v \in Workers : v # w /\ pc[v] # "idle" => task[v] # task[w]
    BY <1>2 DEF Inv, TasksOfThreads
  <2>3. task[w] \notin dropped
    BY <1>2, <2>1
  <2>4. dropped \subseteq dropped' /\ dropped' \subseteq dropped \cup {task[w]}
        /\ (task[w] \in dropped' <=> s = FALSE)
    BY <1>1, <2>3
  <2>5. \A t \in dropped' : t <= Popped
    BY <1>3, <2>1, <2>4
  <2>6. \A t \in 1 .. last_task : t \in started \cup dropped'
    BY <2>1, <2>4
  <2>7. \A t \in started :
           t <= last_task \/ \E v \in Workers : pc'[v] = "solo" /\ task[v] = t
    BY <1>2, <1>4, <2>1
  <2>8. ASSUME NEW v \in Workers
        PROVE  /\ pc'[v] = "prologue" => task[v] \notin dropped'
               /\ pc'[v] \in {"lock", "sleep", "turn", "solo"} =>
                    (task[v] \in dropped' <=> solo'[v] = FALSE)
               /\ pc'[v] = "solo" => solo'[v] = TRUE /\ task[v] \in started
    <3>1. CASE v = w
      BY <1>4, <2>4, <3>1
    <3>2. CASE v # w
      BY <1>4, <2>1, <2>2, <2>4, <3>2
    <3> QED
      BY <3>1, <3>2
  <2> QED
    BY <1>2, <1>3, <2>5, <2>6, <2>7, <2>8 DEF TasksAccounted
<1> QED
  BY <1>2, <1>4, <1>5, <1>6, <1>7 DEF Inv, EpilogueInMutex, EpilogueIsOwn

\* Taking the lock keeps it.
LEMMA LockInv == ASSUME Inv, NEW w \in Workers, Lock(w) PROVE Inv'
<1>1. /\ replica_mutex = NoWorker /\ pc[w] = "lock"
      /\ UNCHANGED <<prologue_id, last_task, queue, task, solo, mine, started, dropped, finished>>
  BY DEF Lock, Goto, locals, history
<1>2. Popped' = Popped
  BY <1>1 DEF Popped
<1>3. CASE /\ pc' = [pc EXCEPT ![w] = "sleep"]
           /\ UNCHANGED <<replica_mutex, epilogue>>
  BY <1>1, <1>2, <1>3 DEF Inv, TypeOK, QueueInOrder, TasksOfThreads, MutexIsHeld,
     TasksAccounted, EpilogueInMutex, EpilogueIsOwn
<1>4. CASE /\ Turn(w) /\ pc' = [pc EXCEPT ![w] = "turn"]
           /\ replica_mutex' = w /\ epilogue' = 0
  <2>1. TypeOK' /\ QueueInOrder' /\ TasksOfThreads'
    BY <1>1, <1>2, <1>4 DEF Inv, TypeOK, QueueInOrder, TasksOfThreads
  <2>2. MutexIsHeld'
    BY <1>1, <1>4, WorkersAssumption DEF Inv, TypeOK, MutexIsHeld, Turn
  <2> QED
    BY <1>1, <1>2, <1>4, <2>1, <2>2 DEF Inv, TypeOK, TasksAccounted, EpilogueInMutex,
       EpilogueIsOwn
<1> QED
  BY <1>3, <1>4 DEF Lock, Goto

\* A spurious wakeup keeps it.
LEMMA SpuriousWakeupInv == ASSUME Inv, NEW w \in Workers, SpuriousWakeup(w) PROVE Inv'
  BY SMTT(30) DEF Inv, TypeOK, QueueInOrder, Popped, TasksOfThreads, MutexIsHeld, TasksAccounted,
     EpilogueInMutex, EpilogueIsOwn, SpuriousWakeup, Goto, shared, locals, history

\* A solo keeps it.
LEMMA SoloInv == ASSUME Inv, NEW w \in Workers, Solo(w) PROVE Inv'
<1>1. /\ pc[w] = "turn" /\ pc' = [pc EXCEPT ![w] = "solo"] /\ solo[w]
      /\ started' = started \cup {task[w]}
      /\ UNCHANGED <<prologue_id, last_task, replica_mutex, epilogue, queue, task, solo,
                     mine, dropped, finished>>
  BY DEF Solo, Goto, shared, locals
<1>2. /\ Popped' = Popped /\ task[w] \in 1 .. Popped /\ Popped <= prologue_id
      /\ prologue_id \in Nat
  BY <1>1 DEF Inv, TypeOK, TasksOfThreads, Popped, QueueInOrder
<1>3. TypeOK' /\ QueueInOrder' /\ TasksOfThreads' /\ MutexIsHeld'
  <2>1. started' \subseteq 1 .. prologue_id
    <3>1. started \subseteq 1 .. prologue_id
      BY DEF Inv, TypeOK
    <3>2. task[w] \in 1 .. prologue_id
      BY <1>2 DEF Popped, Inv, TypeOK
    <3> QED
      BY <1>1, <3>1, <3>2
  <2>2. TypeOK'
    BY <1>1, <2>1 DEF Inv, TypeOK
  <2> QED
    BY <1>1, <1>2, <2>2 DEF Inv, TypeOK, QueueInOrder, TasksOfThreads, MutexIsHeld
<1>4. solo[w] = TRUE
  BY <1>1 DEF Inv, TypeOK
<1>5. TasksAccounted'
  BY <1>1, <1>2, <1>4 DEF Inv, TypeOK, TasksAccounted, TasksOfThreads
<1> QED
  BY <1>1, <1>3, <1>5 DEF Inv, TypeOK, EpilogueInMutex, EpilogueIsOwn

\* An epilogue that starts keeps it.
LEMMA RunEpilogueInv == ASSUME Inv, NEW w \in Workers, RunEpilogue(w) PROVE Inv'
<1>1. /\ pc[w] = "solo" /\ epilogue' = task[w]
      /\ UNCHANGED <<prologue_id, last_task, replica_mutex, queue, pc, task, solo, mine,
                     started, dropped, finished>>
  BY DEF RunEpilogue, locals, history
<1>2. \A v \in Workers : pc[v] \in {"turn", "solo"} => v = w
  BY <1>1 DEF Inv, MutexIsHeld
<1> QED
  BY <1>1, <1>2 DEF Inv, TypeOK, QueueInOrder, Popped, TasksOfThreads, MutexIsHeld,
     TasksAccounted, EpilogueInMutex, EpilogueIsOwn

\* The end of a solo keeps it.
LEMMA DoneInv == ASSUME Inv, NEW w \in Workers, Done(w) PROVE Inv'
<1>1. /\ pc[w] = "solo" \/ (pc[w] = "turn" /\ ~solo[w])
      /\ pc' = [pc EXCEPT ![w] = "notify"]
      /\ mine' = [mine EXCEPT ![w] = epilogue]
      /\ last_task' = task[w] /\ replica_mutex' = NoWorker
      /\ UNCHANGED <<prologue_id, epilogue, queue, task, solo, started, dropped, finished>>
  BY DEF Done, Goto, history
<1>2. /\ Popped' = Popped /\ task[w] \in 1 .. Popped /\ Popped <= prologue_id
      /\ prologue_id \in Nat /\ last_task \in Nat /\ last_task + 1 = task[w]
  BY <1>1 DEF Inv, TypeOK, TasksOfThreads, Popped, QueueInOrder, MutexIsHeld
<1>3. /\ replica_mutex = w
      /\ \A v \in Workers : pc[v] \in {"turn", "solo"} => v = w
  BY <1>1 DEF Inv, MutexIsHeld
<1>4. TypeOK' /\ QueueInOrder'
  BY <1>1, <1>2 DEF Inv, TypeOK, QueueInOrder
<1>5. TasksOfThreads'
  BY <1>1, <1>2 DEF Inv, TypeOK, TasksOfThreads
<1>6. MutexIsHeld'
  BY <1>1, <1>3, WorkersAssumption DEF Inv, TypeOK, MutexIsHeld
<1>7. task[w] \in started \cup dropped
  <2>1. CASE pc[w] = "solo"
    BY <2>1 DEF Inv, TasksAccounted
  <2>2. CASE pc[w] = "turn" /\ ~solo[w]
    <3>1. solo[w] = FALSE
      BY <2>2
    <3> QED
      BY <2>2, <3>1 DEF Inv, TasksAccounted
  <2> QED
    BY <1>1, <2>1, <2>2
<1>8. TasksAccounted'
  BY <1>1, <1>2, <1>3, <1>7 DEF Inv, TypeOK, TasksAccounted
<1> QED
  BY <1>1, <1>3, <1>4, <1>5, <1>6, <1>8 DEF Inv, TypeOK, EpilogueInMutex, EpilogueIsOwn

\* A notification keeps it.
LEMMA NotifyInv == ASSUME Inv, NEW w \in Workers, Notify(w) PROVE Inv'
<1>1. /\ pc[w] = "notify"
      /\ pc' = [v \in Workers |-> IF v = w THEN "epilogue"
                                  ELSE IF pc[v] = "sleep" THEN "lock" ELSE pc[v]]
      /\ UNCHANGED <<prologue_id, last_task, replica_mutex, epilogue, queue, task, solo,
                     mine, started, dropped, finished>>
  BY DEF Notify, shared, locals, history
<1>2. pc' \in [Workers -> Places]
  BY <1>1 DEF Inv, TypeOK
<1>3. TypeOK' /\ QueueInOrder' /\ Popped' = Popped
  BY <1>1, <1>2 DEF Inv, TypeOK, QueueInOrder, Popped
<1>4. TasksOfThreads' /\ MutexIsHeld'
  BY <1>1, <1>3 DEF Inv, TypeOK, TasksOfThreads, MutexIsHeld
<1>5. TasksAccounted'
  BY <1>1, <1>3 DEF Inv, TypeOK, TasksAccounted
<1> QED
  BY <1>1, <1>3, <1>4, <1>5 DEF Inv, TypeOK, EpilogueInMutex, EpilogueIsOwn

\* An epilogue that ends keeps it.
LEMMA EpilogueInv == ASSUME Inv, NEW w \in Workers, Epilogue(w) PROVE Inv'
<1>1. /\ pc[w] = "epilogue" /\ pc' = [pc EXCEPT ![w] = "idle"]
      /\ finished' = finished \cup ({mine[w]} \ {0})
      /\ task' = [task EXCEPT ![w] = 0] /\ solo' = [solo EXCEPT ![w] = FALSE]
      /\ mine' = [mine EXCEPT ![w] = 0]
      /\ UNCHANGED <<prologue_id, last_task, replica_mutex, epilogue, queue, started, dropped>>
  BY DEF Epilogue, Goto, shared
<1>2. /\ pc'[w] = "idle"
      /\ \A v \in Workers : v # w => /\ pc'[v] = pc[v] /\ task'[v] = task[v]
                                     /\ solo'[v] = solo[v] /\ mine'[v] = mine[v]
  BY <1>1 DEF Inv, TypeOK
<1>3. TypeOK' /\ QueueInOrder' /\ Popped' = Popped
  <2>1. mine[w] \in 0 .. prologue_id /\ prologue_id \in Nat
    BY DEF Inv, TypeOK
  <2>2. finished' \subseteq 1 .. prologue_id
    <3>1. finished \subseteq 1 .. prologue_id
      BY DEF Inv, TypeOK
    <3>2. {mine[w]} \ {0} \subseteq 1 .. prologue_id
      BY <2>1
    <3> QED
      BY <1>1, <3>1, <3>2
  <2>3. solo' \in [Workers -> BOOLEAN]
    BY <1>1 DEF Inv, TypeOK
  <2>4. TypeOK'
    BY <1>1, <2>1, <2>2, <2>3 DEF Inv, TypeOK
  <2> QED
    BY <1>1, <2>4 DEF Inv, QueueInOrder, Popped
<1>4. TasksOfThreads' /\ MutexIsHeld'
  BY <1>1, <1>2, <1>3 DEF Inv, TasksOfThreads, MutexIsHeld
<1>5. TasksAccounted'
  BY <1>1, <1>2, <1>3 DEF Inv, TasksAccounted
<1> QED
  BY <1>1, <1>2, <1>3, <1>4, <1>5 DEF Inv, EpilogueInMutex, EpilogueIsOwn

\* Inv is an inductive invariant of CTPLOrderedRunner.
THEOREM Inductive == Spec => []Inv
<1>1. Inv /\ [Next]_vars => Inv'
  <2> SUFFICES ASSUME Inv, [Next]_vars PROVE Inv'
    OBVIOUS
  <2>1. CASE UNCHANGED vars
    BY <2>1 DEF vars, shared, locals, history, Inv, TypeOK, QueueInOrder, Popped,
       TasksOfThreads, MutexIsHeld, TasksAccounted, EpilogueInMutex, EpilogueIsOwn
  <2>2. ASSUME NEW w \in Workers, Step(w) \/ SpuriousWakeup(w) \/ RunEpilogue(w)
        PROVE  Inv'
    BY <2>2, PopInv, PrologueInv, LockInv, SoloInv, DoneInv, NotifyInv, EpilogueInv,
       SpuriousWakeupInv, RunEpilogueInv DEF Step
  <2> QED
    BY <2>1, <2>2, RunPrologueInv DEF Next
<1> QED
  BY InitInv, <1>1, PTL DEF Spec

\* A thread only ever runs the epilogue of its own task.
THEOREM OwnEpilogue == Spec => []EpilogueIsOwn
<1>1. Inv => EpilogueIsOwn
  BY DEF Inv
<1> QED
  BY Inductive, <1>1, PTL

-----------------------------------------------------------------------------
(***************************************************************************)
(* The refinement.  RunPrologue maps to Submit, Prologue to Drop when there *)
(* is no solo, Solo to Start, Done to Finish after a solo; every other step *)
(* leaves the mapped variables unchanged.                                   *)
(***************************************************************************)

LEMMA RunningOfSolo ==
  ASSUME Inv, NEW w \in Workers, pc[w] = "solo" PROVE Running = task[w]
  BY WorkersAssumption DEF Inv, MutexIsHeld, Running

\* Only the worker whose turn it is runs a solo.
LEMMA RunningOfTurn ==
  ASSUME Inv, NEW w \in Workers, pc[w] = "turn" PROVE Running = 0
  BY DEF Inv, MutexIsHeld, Running

\* A step that moves no thread into or out of "solo" leaves Running alone.
LEMMA RunningKept ==
  ASSUME Inv, UNCHANGED <<replica_mutex, task>>, NEW w \in Workers,
         pc[w] # "solo", pc'[w] # "solo", \A v \in Workers : v # w => pc'[v] = pc[v]
  PROVE  Running' = Running
<1>1. CASE replica_mutex = NoWorker
  BY <1>1 DEF Running
<1>2. CASE replica_mutex \in Workers
  BY <1>2 DEF Running
<1> QED
  BY <1>1, <1>2 DEF Inv, TypeOK

\* A solo that starts is a step of the ordered runner.
LEMMA SoloStarts ==
  ASSUME Inv, Inv', NEW w \in Workers, Solo(w) PROVE Order!Start(task[w])
<1>1. /\ pc[w] = "turn" /\ pc'[w] = "solo" /\ solo[w] = TRUE /\ task' = task
      /\ started' = started \cup {task[w]}
      /\ UNCHANGED <<prologue_id, dropped>>
  BY DEF Solo, Goto, shared, locals, Inv, TypeOK
<1>2. Running = 0 /\ Running' = task[w]
  <2>1. replica_mutex' = w
    BY <1>1 DEF Inv, MutexIsHeld
  <2>2. w # NoWorker
    BY WorkersAssumption
  <2> QED
    BY <1>1, <2>1, <2>2, RunningOfTurn DEF Running
<1>3. /\ prologue_id \in Nat /\ last_task \in Nat
      /\ task[w] \in 1 .. Popped /\ Popped <= prologue_id /\ Popped \in Int
      /\ last_task + 1 = task[w]
  BY SMTT(30), <1>1 DEF Inv, TypeOK, TasksOfThreads, Popped, QueueInOrder, MutexIsHeld
<1>4. task[w] \in 1 .. prologue_id
  BY <1>3
<1>5. task[w] \notin dropped
  BY <1>1 DEF Inv, TasksAccounted
<1>6. \A v \in Workers : pc[v] # "solo"
  BY <1>1 DEF Inv, MutexIsHeld
<1>7. task[w] \notin started
  BY <1>3, <1>6 DEF Inv, TasksAccounted
<1>8. \A u \in 1 .. task[w] - 1 : u \in started \cup dropped
  BY <1>3 DEF Inv, TasksAccounted
<1> QED
  BY <1>1, <1>2, <1>4, <1>5, <1>7, <1>8 DEF Order!Start

\* A prologue without a solo drops its task.
LEMMA PrologueDrops ==
  ASSUME Inv, NEW w \in Workers, Prologue(w), dropped' # dropped
  PROVE  Order!Drop(task[w])
<1>1. /\ pc[w] = "prologue" /\ pc' = [pc EXCEPT ![w] = "lock"]
      /\ dropped' = dropped \cup {task[w]}
      /\ UNCHANGED <<prologue_id, replica_mutex, task, started>>
  BY DEF Prologue, Goto, shared
<1>2. Running' = Running
  BY <1>1, RunningKept DEF Inv, TypeOK
<1>3. /\ prologue_id \in Nat /\ task[w] \in 1 .. Popped /\ Popped <= prologue_id
      /\ Popped \in Int /\ last_task < task[w] /\ last_task \in Nat
  BY <1>1 DEF Inv, TypeOK, TasksOfThreads, Popped, QueueInOrder
<1>4. task[w] \in 1 .. prologue_id
  BY <1>3
<1>5. task[w] \notin dropped
  BY <1>1 DEF Inv, TasksAccounted
<1>6. \A v \in Workers : pc[v] = "solo" => task[v] # task[w]
  BY <1>1 DEF Inv, TasksOfThreads
<1>7. task[w] \notin started
  BY <1>3, <1>6 DEF Inv, TasksAccounted
<1> QED
  BY <1>1, <1>2, <1>4, <1>5, <1>7 DEF Order!Drop

\* The end of a solo is a step of the ordered runner.
LEMMA DoneFinishes ==
  ASSUME Inv, NEW w \in Workers, Done(w) PROVE [Order!Next]_(Order!vars)
<1>1. /\ pc[w] = "solo" \/ pc[w] = "turn"
      /\ replica_mutex' = NoWorker
      /\ UNCHANGED <<prologue_id, started, dropped>>
  BY DEF Done, Goto, history
<1>2. Running' = 0
  BY <1>1 DEF Running
<1>3. CASE pc[w] = "solo"
  <2>1. Running = task[w] /\ task[w] # 0
    BY <1>3, RunningOfSolo DEF Inv, TasksOfThreads
  <2>2. Order!Finish
    BY <1>1, <1>2, <2>1 DEF Order!Finish
  <2> QED
    BY <2>2 DEF Order!Next
<1>4. CASE pc[w] = "turn"
  BY <1>1, <1>2, <1>4, RunningOfTurn DEF Order!vars
<1> QED
  BY <1>1, <1>3, <1>4

\* Every step is one of the ordered runner, or none.
LEMMA StepRefines ==
  ASSUME Inv, Inv', NEW w \in Workers, Step(w) \/ SpuriousWakeup(w) \/ RunEpilogue(w)
  PROVE  [Order!Next]_(Order!vars)
<1>1. CASE Solo(w)
  <2>1. task[w] \in 1 .. prologue_id
    BY <1>1, SoloStarts DEF Order!Start
  <2> QED
    BY <1>1, <2>1, SoloStarts DEF Order!Next
<1>2. CASE Prologue(w)
  <2>1. CASE dropped' # dropped
    <3>1. task[w] \in 1 .. prologue_id
      BY <1>2, <2>1, PrologueDrops DEF Order!Drop
    <3> QED
      BY <1>2, <2>1, <3>1, PrologueDrops DEF Order!Next
  <2>2. CASE dropped' = dropped
    <3>1. /\ pc[w] = "prologue" /\ pc' = [pc EXCEPT ![w] = "lock"]
          /\ UNCHANGED <<prologue_id, replica_mutex, task, started>>
      BY <1>2 DEF Prologue, Goto, shared
    <3>2. Running' = Running
      BY <3>1, RunningKept DEF Inv, TypeOK
    <3> QED
      BY <2>2, <3>1, <3>2 DEF Order!vars
  <2> QED
    BY <2>1, <2>2
<1>3. CASE Done(w)
  BY <1>3, DoneFinishes
<1>4. CASE Pop(w)
  <2>1. /\ pc[w] = "idle" /\ pc' = [pc EXCEPT ![w] = "prologue"]
        /\ task' = [task EXCEPT ![w] = Head(queue)]
        /\ UNCHANGED <<prologue_id, replica_mutex, started, dropped>>
    BY <1>4 DEF Pop, Goto, history
  <2>2. replica_mutex # w
    BY <2>1 DEF Inv, MutexIsHeld
  <2>3. CASE replica_mutex \in Workers
    BY <2>1, <2>2, <2>3 DEF Running, Inv, TypeOK, Order!vars
  <2>4. CASE replica_mutex = NoWorker
    BY <2>1, <2>4 DEF Running, Order!vars
  <2> QED
    BY <2>3, <2>4 DEF Inv, TypeOK
<1>5. CASE Lock(w)
  <2>1. /\ replica_mutex = NoWorker /\ pc[w] = "lock" /\ w # NoWorker
        /\ UNCHANGED <<prologue_id, started, dropped>>
    BY <1>5, WorkersAssumption DEF Lock, Goto, history
  <2>2. \/ replica_mutex' = NoWorker
        \/ replica_mutex' = w /\ pc'[w] = "turn"
    BY <1>5, <2>1 DEF Lock, Goto, Inv, TypeOK
  <2>3. Running = 0 /\ Running' = 0
    BY <2>1, <2>2 DEF Running
  <2> QED
    BY <2>1, <2>3 DEF Order!vars
<1>6. CASE Notify(w)
  <2>1. /\ pc[w] = "notify"
        /\ pc' = [v \in Workers |-> IF v = w THEN "epilogue"
                                    ELSE IF pc[v] = "sleep" THEN "lock" ELSE pc[v]]
        /\ UNCHANGED <<prologue_id, replica_mutex, task, started, dropped>>
    BY <1>6 DEF Notify, shared, locals, history
  <2>2. CASE replica_mutex \in Workers
    BY <2>1, <2>2 DEF Running, Order!vars
  <2>3. CASE replica_mutex = NoWorker
    BY <2>1, <2>3 DEF Running, Order!vars
  <2> QED
    BY <2>2, <2>3 DEF Inv, TypeOK
<1>7. CASE Epilogue(w)
  <2>1. /\ pc[w] = "epilogue" /\ pc' = [pc EXCEPT ![w] = "idle"]
        /\ task' = [task EXCEPT ![w] = 0]
        /\ UNCHANGED <<prologue_id, replica_mutex, started, dropped>>
    BY <1>7 DEF Epilogue, Goto, shared
  <2>2. replica_mutex # w
    BY <2>1 DEF Inv, MutexIsHeld
  <2>3. CASE replica_mutex \in Workers
    BY <2>1, <2>2, <2>3 DEF Running, Inv, TypeOK, Order!vars
  <2>4. CASE replica_mutex = NoWorker
    BY <2>1, <2>4 DEF Running, Order!vars
  <2> QED
    BY <2>3, <2>4 DEF Inv, TypeOK
<1>8. CASE SpuriousWakeup(w)
  <2>1. /\ pc[w] = "sleep" /\ pc' = [pc EXCEPT ![w] = "lock"]
        /\ UNCHANGED <<prologue_id, replica_mutex, task, started, dropped>>
    BY <1>8 DEF SpuriousWakeup, Goto, shared, locals, history
  <2>2. Running' = Running
    BY <2>1, RunningKept DEF Inv, TypeOK
  <2> QED
    BY <2>1, <2>2 DEF Order!vars
<1>9. CASE RunEpilogue(w)
  BY <1>9 DEF RunEpilogue, locals, history, Running, Order!vars
<1> QED
  BY <1>1, <1>2, <1>3, <1>4, <1>5, <1>6, <1>7, <1>8, <1>9 DEF Step

\* Solos run one at a time and in the order of the RunPrologue calls, for any
\* number of threads: the promise on which the PBFT replica's unlocked state
\* rests.
THEOREM RunsInOrderHolds == Spec => RunsInOrder
<1>1. Init => Order!Init
  BY DEF Init, Order!Init, Running
<1>2. Inv /\ Inv' /\ [Next]_vars => [Order!Next]_(Order!vars)
  <2> SUFFICES ASSUME Inv, Inv', [Next]_vars PROVE [Order!Next]_(Order!vars)
    OBVIOUS
  <2>1. CASE UNCHANGED vars
    BY <2>1 DEF vars, shared, locals, history, Running, Order!vars
  <2>2. CASE RunPrologue
    <3>1. Order!Submit
      BY <2>2 DEF RunPrologue, locals, history, Running, Order!Submit
    <3> QED
      BY <3>1 DEF Order!Next
  <2>3. ASSUME NEW w \in Workers, Step(w) \/ SpuriousWakeup(w) \/ RunEpilogue(w)
        PROVE  [Order!Next]_(Order!vars)
    BY <2>3, StepRefines
  <2> QED
    BY <2>1, <2>2, <2>3 DEF Next
<1> QED
  BY Inductive, <1>1, <1>2, PTL DEF Spec, RunsInOrder, Order!Spec

HIDE DEF Places

-----------------------------------------------------------------------------
(***************************************************************************)
(* The lock server.                                                        *)
(***************************************************************************)

Whats == {"read", "write"}

LockRecord == [state : LockStates, holders : SUBSET Txns, waitQ : Seq(Txns),
               waiters : [Txns -> SUBSET Whats]]

\* Exclusive of any lock.
ExclusiveLock(l) ==
  /\ l.state \in {"WRITE", "READ_WRITE"} => \E t \in Txns : l.holders = {t}
  /\ l.state = "UNLOCKED" => l.holders = {}
  /\ l.state = "READ" => l.holders # {}

\* QueueIsOfWaiters of any lock.
QueueOf(q, waiters) ==
  /\ \A t \in Txns : waiters[t] # {} <=> \E i \in DOMAIN q : q[i] = t
  /\ \A i, j \in DOMAIN q : q[i] = q[j] => i = j

GoodLock(l) == l \in LockRecord /\ ExclusiveLock(l) /\ QueueOf(l.waitQ, l.waiters)

\* The inductive invariant.
IInv == retryLock \in BOOLEAN /\ dead \in BOOLEAN /\ GoodLock(lock)

-----------------------------------------------------------------------------
(* Queues. *)

\* A requester that has no place gets the last one.
LEMMA AppendKeepsQueue ==
  ASSUME NEW q \in Seq(Txns), NEW w \in [Txns -> SUBSET Whats], QueueOf(q, w),
         NEW t \in Txns, NEW what \in Whats, w[t] = {}
  PROVE  /\ Append(q, t) \in Seq(Txns)
         /\ [w EXCEPT ![t] = @ \cup {what}] \in [Txns -> SUBSET Whats]
         /\ QueueOf(Append(q, t), [w EXCEPT ![t] = @ \cup {what}])
<1> DEFINE p == Append(q, t)
           v == [w EXCEPT ![t] = @ \cup {what}]
<1>1. /\ p \in Seq(Txns) /\ v \in [Txns -> SUBSET Whats]
      /\ Len(p) = Len(q) + 1 /\ Len(q) \in Nat
      /\ DOMAIN p = 1 .. Len(q) + 1 /\ DOMAIN q = 1 .. Len(q)
      /\ \A i \in 1 .. Len(q) : p[i] = q[i]
      /\ p[Len(q) + 1] = t
  BY DEF Whats
<1>2. \A i \in DOMAIN q : q[i] # t
  BY DEF QueueOf
<1>3. \A s \in Txns : v[s] # {} <=> \E i \in DOMAIN p : p[i] = s
  <2> SUFFICES ASSUME NEW s \in Txns PROVE v[s] # {} <=> \E i \in DOMAIN p : p[i] = s
    OBVIOUS
  <2>1. CASE s = t
    BY <1>1, <2>1
  <2>2. CASE s # t
    <3>1. v[s] = w[s]
      BY <2>2
    <3>2. (\E i \in DOMAIN p : p[i] = s) <=> (\E i \in DOMAIN q : q[i] = s)
      BY <1>1, <2>2
    <3> QED BY <3>1, <3>2 DEF QueueOf
  <2> QED BY <2>1, <2>2
<1>4. \A i, j \in DOMAIN p : p[i] = p[j] => i = j
  BY <1>1, <1>2 DEF QueueOf
<1> QED BY <1>1, <1>3, <1>4 DEF QueueOf

\* Only what a requester waits for grows.
LEMMA GrowKeepsQueue ==
  ASSUME NEW q \in Seq(Txns), NEW w \in [Txns -> SUBSET Whats], QueueOf(q, w),
         NEW t \in Txns, NEW what \in Whats, w[t] # {}
  PROVE  /\ [w EXCEPT ![t] = @ \cup {what}] \in [Txns -> SUBSET Whats]
         /\ QueueOf(q, [w EXCEPT ![t] = @ \cup {what}])
BY DEF QueueOf, Whats

\* The head of the queue leaves it.
LEMMA TailKeepsQueue ==
  ASSUME NEW q \in Seq(Txns), NEW w \in [Txns -> SUBSET Whats], QueueOf(q, w), q # << >>
  PROVE  /\ Tail(q) \in Seq(Txns)
         /\ [w EXCEPT ![Head(q)] = {}] \in [Txns -> SUBSET Whats]
         /\ QueueOf(Tail(q), [w EXCEPT ![Head(q)] = {}])
<1> DEFINE p == Tail(q)
           t == Head(q)
           v == [w EXCEPT ![t] = {}]
<1>1. /\ p \in Seq(Txns) /\ v \in [Txns -> SUBSET Whats]
      /\ Len(q) \in Nat \ {0} /\ Len(p) = Len(q) - 1
      /\ DOMAIN p = 1 .. Len(q) - 1 /\ DOMAIN q = 1 .. Len(q)
      /\ \A i \in 1 .. Len(q) - 1 : p[i] = q[i + 1]
      /\ t = q[1] /\ t \in Txns
  BY DEF Whats
<1>2. \A i \in DOMAIN p : p[i] # t
  BY <1>1 DEF QueueOf
<1>3. \A s \in Txns : v[s] # {} <=> \E i \in DOMAIN p : p[i] = s
  <2> SUFFICES ASSUME NEW s \in Txns PROVE v[s] # {} <=> \E i \in DOMAIN p : p[i] = s
    OBVIOUS
  <2>1. CASE s = t
    BY <1>1, <1>2, <2>1
  <2>2. CASE s # t
    <3>1. v[s] = w[s]
      BY <2>2
    <3>2. ASSUME NEW i \in DOMAIN q, q[i] = s
          PROVE  \E j \in DOMAIN p : p[j] = s
      <4>1. i # 1
        BY <1>1, <2>2, <3>2
      <4>2. i - 1 \in DOMAIN p /\ p[i - 1] = s
        BY <1>1, <3>2, <4>1
      <4> QED BY <4>2
    <3>3. ASSUME NEW j \in DOMAIN p, p[j] = s
          PROVE  \E i \in DOMAIN q : q[i] = s
      <4>1. j + 1 \in DOMAIN q /\ q[j + 1] = s
        BY <1>1, <3>3
      <4> QED BY <4>1
    <3> QED BY <3>1, <3>2, <3>3 DEF QueueOf
  <2> QED BY <2>1, <2>2
<1>4. ASSUME NEW i \in DOMAIN p, NEW j \in DOMAIN p, p[i] = p[j] PROVE i = j
  <2>1. i + 1 \in DOMAIN q /\ j + 1 \in DOMAIN q /\ q[i + 1] = q[j + 1]
    BY <1>1, <1>4
  <2>2. i + 1 = j + 1
    BY <2>1 DEF QueueOf
  <2> QED BY <1>1, <2>2
<1> QED BY <1>1, <1>3, <1>4 DEF QueueOf

-----------------------------------------------------------------------------
(* The operations.  A lock is shown good field by field. *)

\* The four fields of a good lock make a good lock.
LEMMA RecordIsGood ==
  ASSUME NEW st \in LockStates, NEW hs \in SUBSET Txns, NEW q \in Seq(Txns),
         NEW w \in [Txns -> SUBSET Whats], QueueOf(q, w),
         ExclusiveLock([state |-> st, holders |-> hs, waitQ |-> q, waiters |-> w])
  PROVE  GoodLock([state |-> st, holders |-> hs, waitQ |-> q, waiters |-> w])
BY DEF GoodLock, LockRecord

\* A lock has four fields.
LEMMA RecordShape ==
  ASSUME NEW l, GoodLock(l)
  PROVE  l = [state |-> l.state, holders |-> l.holders, waitQ |-> l.waitQ,
              waiters |-> l.waiters]
BY DEF GoodLock, LockRecord

\* A request that waits keeps the shape of the lock and its queue.
LEMMA WaitIsGood ==
  ASSUME NEW l, GoodLock(l), NEW t \in Txns, NEW what \in Whats
  PROVE  GoodLock(WaitForLock(l, t, what))
<1> DEFINE q == IF l.waiters[t] = {} THEN Append(l.waitQ, t) ELSE l.waitQ
           w == [l.waiters EXCEPT ![t] = @ \cup {what}]
<1>1. /\ l.state \in LockStates /\ l.holders \in SUBSET Txns
      /\ l.waitQ \in Seq(Txns) /\ l.waiters \in [Txns -> SUBSET Whats]
      /\ QueueOf(l.waitQ, l.waiters) /\ ExclusiveLock(l)
  BY DEF GoodLock, LockRecord
<1>2. q \in Seq(Txns) /\ w \in [Txns -> SUBSET Whats] /\ QueueOf(q, w)
  <2>1. CASE l.waiters[t] = {}
    BY <1>1, <2>1, AppendKeepsQueue
  <2>2. CASE l.waiters[t] # {}
    BY <1>1, <2>2, GrowKeepsQueue
  <2> QED BY <2>1, <2>2
<1>3. WaitForLock(l, t, what) =
        [state |-> l.state, holders |-> l.holders, waitQ |-> q, waiters |-> w]
  <2> HIDE DEF q
  <2>1. WaitForLock(l, t, what) = [l EXCEPT !.waitQ = q, !.waiters = w]
    BY RecordShape DEF q, WaitForLock
  <2> HIDE DEF w
  <2> QED BY <2>1, RecordShape
<1>4. ExclusiveLock([state |-> l.state, holders |-> l.holders, waitQ |-> q, waiters |-> w])
  BY <1>1 DEF ExclusiveLock
<1> HIDE DEF q, w
<1> QED BY <1>1, <1>2, <1>3, <1>4, RecordIsGood

\* A free lock goes to the head of the queue or to a requester that nobody is before.
LEMMA TryAcquireIsGood ==
  ASSUME NEW l, GoodLock(l), l.state = "UNLOCKED", NEW t \in Txns,
         NEW what \in Whats, NEW st \in {"READ", "WRITE"}
  PROVE  GoodLock(TryAcquireLock(l, t, what, st))
<1>1. /\ l.waitQ \in Seq(Txns) /\ l.waiters \in [Txns -> SUBSET Whats]
      /\ QueueOf(l.waitQ, l.waiters) /\ l.holders = {}
      /\ st \in LockStates
  BY DEF GoodLock, LockRecord, ExclusiveLock, LockStates
<1>2. CASE l.waitQ = << >>
  <2>1. TryAcquireLock(l, t, what, st) =
          [state |-> st, holders |-> {t}, waitQ |-> l.waitQ, waiters |-> l.waiters]
    BY <1>1, <1>2 DEF TryAcquireLock, GoodLock, LockRecord
  <2>2. ExclusiveLock([state |-> st, holders |-> {t}, waitQ |-> l.waitQ, waiters |-> l.waiters])
    BY DEF ExclusiveLock
  <2> QED BY <1>1, <2>1, <2>2, RecordIsGood
<1>3. CASE l.waitQ # << >> /\ Head(l.waitQ) = t
  <2> DEFINE q == Tail(l.waitQ)
             w == [l.waiters EXCEPT ![t] = {}]
  <2>1. TryAcquireLock(l, t, what, st) =
          [state |-> st, holders |-> {t}, waitQ |-> q, waiters |-> w]
    BY <1>1, <1>3 DEF TryAcquireLock, GoodLock, LockRecord
  <2>2. q \in Seq(Txns) /\ w \in [Txns -> SUBSET Whats] /\ QueueOf(q, w)
    BY <1>1, <1>3, TailKeepsQueue
  <2>3. ExclusiveLock([state |-> st, holders |-> {t}, waitQ |-> q, waiters |-> w])
    BY DEF ExclusiveLock
  <2> HIDE DEF q, w
  <2>4. GoodLock([state |-> st, holders |-> {t}, waitQ |-> q, waiters |-> w])
    BY <1>1, <2>2, <2>3, RecordIsGood
  <2> QED BY <2>1, <2>4
<1>4. CASE l.waitQ # << >> /\ Head(l.waitQ) # t
  BY <1>4, WaitIsGood DEF TryAcquireLock
<1> QED BY <1>2, <1>3, <1>4

\* A lock record with another state and other holders.
LEMMA HoldersShape ==
  ASSUME NEW l \in LockRecord, NEW st \in LockStates, NEW hs \in SUBSET Txns
  PROVE  [l EXCEPT !.state = st, !.holders = hs]
           = [state |-> st, holders |-> hs, waitQ |-> l.waitQ, waiters |-> l.waiters]
<1> DEFINE m == [l EXCEPT !.state = st, !.holders = hs]
<1>1. m \in LockRecord
  BY DEF LockRecord
<1>2. m.state = st /\ m.holders = hs /\ m.waitQ = l.waitQ /\ m.waiters = l.waiters
  BY DEF LockRecord
<1>3. m = [state |-> m.state, holders |-> m.holders, waitQ |-> m.waitQ, waiters |-> m.waiters]
  <2> HIDE DEF m
  <2> QED BY <1>1 DEF LockRecord
<1> QED BY <1>2, <1>3

\* Other holders and states, the same queue.
LEMMA HoldersAreGood ==
  ASSUME NEW l, GoodLock(l), NEW st \in LockStates, NEW hs \in SUBSET Txns,
         ExclusiveLock([state |-> st, holders |-> hs, waitQ |-> l.waitQ, waiters |-> l.waiters]),
         NEW m, m = [l EXCEPT !.state = st, !.holders = hs]
  PROVE  GoodLock(m)
<1>1. m = [state |-> st, holders |-> hs, waitQ |-> l.waitQ, waiters |-> l.waiters]
  BY HoldersShape DEF GoodLock
<1>2. /\ l.waitQ \in Seq(Txns) /\ l.waiters \in [Txns -> SUBSET Whats]
      /\ QueueOf(l.waitQ, l.waiters)
  BY DEF GoodLock, LockRecord
<1>3. GoodLock([state |-> st, holders |-> hs, waitQ |-> l.waitQ, waiters |-> l.waiters])
  BY <1>2, RecordIsGood
<1> QED BY <1>1, <1>3

\* lockForRead keeps the shape.
LEMMA LockForReadIsGood ==
  ASSUME NEW l, GoodLock(l), NEW t \in Txns
  PROVE  GoodLock(LockForRead(l, t))
<1>1. /\ l.state \in LockStates /\ l.holders \in SUBSET Txns /\ ExclusiveLock(l)
      /\ l \in LockRecord /\ "read" \in Whats
  BY DEF GoodLock, LockRecord, Whats
<1>2. CASE l.state = "UNLOCKED"
  BY <1>1, <1>2, TryAcquireIsGood DEF LockForRead
<1>3. CASE l.state # "UNLOCKED" /\ t \in l.holders
  <2> DEFINE st == IF l.state = "WRITE" THEN "READ_WRITE" ELSE l.state
  <2>1. st \in LockStates
    BY <1>1 DEF LockStates
  <2>2. LockForRead(l, t) = [l EXCEPT !.state = st, !.holders = l.holders]
    BY <1>1, <1>3 DEF LockForRead, LockRecord
  <2>3. ExclusiveLock([state |-> st, holders |-> l.holders, waitQ |-> l.waitQ,
                       waiters |-> l.waiters])
    BY <1>1, <1>3 DEF ExclusiveLock
  <2> HIDE DEF st
  <2> QED BY <1>1, <2>1, <2>2, <2>3, HoldersAreGood
<1>4. CASE l.state = "READ" /\ t \notin l.holders /\ ~IsWriteNext(l)
  <2> DEFINE hs == l.holders \cup {t}
  <2>1. hs \in SUBSET Txns
    BY <1>1
  <2>2. LockForRead(l, t) = [l EXCEPT !.state = "READ", !.holders = hs]
    BY <1>1, <1>4 DEF LockForRead, LockRecord
  <2>3. ExclusiveLock([state |-> "READ", holders |-> hs, waitQ |-> l.waitQ,
                       waiters |-> l.waiters])
    BY DEF ExclusiveLock
  <2> HIDE DEF hs
  <2> QED BY <2>1, <2>2, <2>3, HoldersAreGood DEF LockStates
<1>5. CASE /\ l.state # "UNLOCKED" /\ t \notin l.holders
           /\ ~(l.state = "READ" /\ ~IsWriteNext(l))
  BY <1>1, <1>5, WaitIsGood DEF LockForRead
<1> QED BY <1>2, <1>3, <1>4, <1>5

\* lockForWrite keeps the shape.
LEMMA LockForWriteIsGood ==
  ASSUME NEW l, GoodLock(l), NEW t \in Txns
  PROVE  GoodLock(LockForWrite(l, t))
<1>1. /\ l.state \in LockStates /\ l.holders \in SUBSET Txns /\ ExclusiveLock(l)
      /\ l \in LockRecord /\ "write" \in Whats
  BY DEF GoodLock, LockRecord, Whats
<1>2. CASE l.state = "UNLOCKED"
  BY <1>1, <1>2, TryAcquireIsGood DEF LockForWrite
<1>3. CASE Upgrades(l, t)
  <2>1. LockForWrite(l, t) = [l EXCEPT !.state = "READ_WRITE", !.holders = l.holders]
    BY <1>1, <1>3 DEF LockForWrite, Upgrades, LockRecord
  <2>2. ExclusiveLock([state |-> "READ_WRITE", holders |-> l.holders, waitQ |-> l.waitQ,
                       waiters |-> l.waiters])
    BY <1>3 DEF ExclusiveLock, Upgrades
  <2> QED BY <1>1, <2>1, <2>2, HoldersAreGood DEF LockStates
<1>4. CASE l.state # "UNLOCKED" /\ ~Upgrades(l, t)
  BY <1>1, <1>4, WaitIsGood DEF LockForWrite
<1> QED BY <1>2, <1>3, <1>4 DEF Upgrades

\* releaseForRead keeps the shape.
LEMMA ReleaseReadIsGood ==
  ASSUME NEW l, GoodLock(l), NEW t \in Txns
  PROVE  GoodLock(ReleaseRead(l, t))
<1>1. /\ l.state \in LockStates /\ l.holders \in SUBSET Txns /\ ExclusiveLock(l)
      /\ l \in LockRecord
  BY DEF GoodLock, LockRecord
<1>2. CASE t \notin l.holders \/ l.state \notin {"READ", "READ_WRITE"}
  BY <1>2 DEF ReleaseRead
<1>3. CASE t \in l.holders /\ l.state = "READ_WRITE"
  <2>1. ReleaseRead(l, t) = [l EXCEPT !.state = "WRITE", !.holders = l.holders]
    BY <1>1, <1>3 DEF ReleaseRead, LockRecord
  <2>2. ExclusiveLock([state |-> "WRITE", holders |-> l.holders, waitQ |-> l.waitQ,
                       waiters |-> l.waiters])
    BY <1>1, <1>3 DEF ExclusiveLock
  <2> QED BY <1>1, <2>1, <2>2, HoldersAreGood DEF LockStates
<1>4. CASE t \in l.holders /\ l.state = "READ"
  <2> DEFINE st == IF l.holders = {t} THEN "UNLOCKED" ELSE "READ"
             hs == l.holders \ {t}
  <2>1. st \in LockStates /\ hs \in SUBSET Txns
    BY <1>1 DEF LockStates
  <2>2. ReleaseRead(l, t) = [l EXCEPT !.state = st, !.holders = hs]
    BY <1>1, <1>4 DEF ReleaseRead, LockRecord
  <2>3. ExclusiveLock([state |-> st, holders |-> hs, waitQ |-> l.waitQ, waiters |-> l.waiters])
    BY <1>4 DEF ExclusiveLock
  <2> HIDE DEF st, hs
  <2> QED BY <2>1, <2>2, <2>3, HoldersAreGood
<1> QED BY <1>2, <1>3, <1>4

\* releaseForWrite keeps the shape.
LEMMA ReleaseWriteIsGood ==
  ASSUME NEW l, GoodLock(l), NEW t \in Txns
  PROVE  GoodLock(ReleaseWrite(l, t))
<1>1. /\ l.state \in LockStates /\ l.holders \in SUBSET Txns /\ ExclusiveLock(l)
      /\ l \in LockRecord
  BY DEF GoodLock, LockRecord
<1>2. CASE ~HasWrite(l, t)
  BY <1>2 DEF ReleaseWrite
<1>3. CASE HasWrite(l, t)
  <2> DEFINE st == IF l.state = "READ_WRITE" THEN "READ" ELSE "UNLOCKED"
             hs == IF l.state = "READ_WRITE" THEN l.holders ELSE l.holders \ {t}
  <2>1. st \in LockStates /\ hs \in SUBSET Txns
    BY <1>1 DEF LockStates
  <2>2. ReleaseWrite(l, t) = [l EXCEPT !.state = st, !.holders = hs]
    BY <1>1, <1>3 DEF ReleaseWrite, HasWrite, LockRecord
  <2>3. ExclusiveLock([state |-> st, holders |-> hs, waitQ |-> l.waitQ, waiters |-> l.waiters])
    BY <1>1, <1>3 DEF ExclusiveLock, HasWrite
  <2> HIDE DEF st, hs
  <2> QED BY <2>1, <2>2, <2>3, HoldersAreGood
<1> QED BY <1>2, <1>3

\* The head of the queue leaves it, and what it waited for is forgotten.
LEMMA HeadLeavesIsGood ==
  ASSUME NEW l, GoodLock(l), l.waitQ # << >>
  PROVE  GoodLock([l EXCEPT !.waitQ = Tail(@), !.waiters[Head(l.waitQ)] = {}])
<1> DEFINE q == Tail(l.waitQ)
           w == [l.waiters EXCEPT ![Head(l.waitQ)] = {}]
           m == [l EXCEPT !.waitQ = q, !.waiters = w]
<1>1. /\ l.state \in LockStates /\ l.holders \in SUBSET Txns
      /\ l.waitQ \in Seq(Txns) /\ l.waiters \in [Txns -> SUBSET Whats]
      /\ QueueOf(l.waitQ, l.waiters) /\ ExclusiveLock(l)
  BY DEF GoodLock, LockRecord
<1>2. q \in Seq(Txns) /\ w \in [Txns -> SUBSET Whats] /\ QueueOf(q, w)
  BY <1>1, TailKeepsQueue
<1>3. [l EXCEPT !.waitQ = Tail(@), !.waiters[Head(l.waitQ)] = {}] = m
  OBVIOUS
<1> HIDE DEF q, w
<1>4. m = [state |-> l.state, holders |-> l.holders, waitQ |-> q, waiters |-> w]
  <2>1. m \in LockRecord
    BY <1>1, <1>2 DEF GoodLock, LockRecord
  <2>2. m.state = l.state /\ m.holders = l.holders /\ m.waitQ = q /\ m.waiters = w
    BY DEF GoodLock, LockRecord
  <2> HIDE DEF m
  <2>3. m = [state |-> m.state, holders |-> m.holders, waitQ |-> m.waitQ, waiters |-> m.waiters]
    BY <2>1 DEF LockRecord
  <2> QED BY <2>2, <2>3
<1>5. ExclusiveLock([state |-> l.state, holders |-> l.holders, waitQ |-> q, waiters |-> w])
  BY <1>1 DEF ExclusiveLock
<1> HIDE DEF m
<1>6. GoodLock(m)
  BY <1>1, <1>2, <1>4, <1>5, RecordIsGood
<1> QED BY <1>3, <1>6

-----------------------------------------------------------------------------
(* The loop of TryAcquireForWaiters. *)

\* The turns, one after the other.
LEMMA TurnsOfLoop ==
  ASSUME NEW l, GoodLock(l)
  PROVE  /\ Len(l.waitQ) \in Nat
         /\ \E x : /\ x[0] = [lock |-> l, going |-> TRUE, empty |-> FALSE]
                   /\ TryAcquireForWaiters(l) = x[Len(l.waitQ)]
                   /\ \A k \in 1 .. Len(l.waitQ) : x[k] = AcquireForHead(x[k - 1])
<1> DEFINE n == Len(l.waitQ)
           start == [lock |-> l, going |-> TRUE, empty |-> FALSE]
           Run(k, x) == x = [j \in 0 .. k |-> IF j = 0 THEN start ELSE AcquireForHead(x[j - 1])]
<1>1. n \in Nat
  BY DEF GoodLock, LockRecord
<1>2. TryAcquireForWaiters(l) = (CHOOSE x : Run(n, x))[n]
  BY DEF TryAcquireForWaiters
<1> HIDE DEF n, start
<1>3. \E x : Run(n, x)
  <2> DEFINE S == {k \in 0 .. n : \E x : Run(k, x)}
  <2>1. 0 \in S
    <3>1. Run(0, [j \in 0 .. 0 |-> start])
      OBVIOUS
    <3> HIDE DEF Run
    <3> QED BY <1>1, <3>1
  <2>2. ASSUME NEW k \in 1 .. n, k - 1 \in S PROVE k \in S
    <3>1. PICK g : Run(k - 1, g)
      BY <2>2
    <3> DEFINE h == [j \in 0 .. k |-> IF j = k THEN AcquireForHead(g[k - 1]) ELSE g[j]]
    <3>2. \A j \in 0 .. k : h[j] = IF j = 0 THEN start ELSE AcquireForHead(h[j - 1])
      BY <1>1, <3>1
    <3>3. Run(k, h)
      BY <3>2
    <3> HIDE DEF Run, h
    <3> QED BY <1>1, <3>3
  <2> HIDE DEF S
  <2>3. n \in S
    BY <1>1, <2>1, <2>2, RoundInduction DEF S
  <2> QED BY <2>3 DEF S
<1>4. PICK x : Run(n, x) /\ TryAcquireForWaiters(l) = x[n]
  BY <1>2, <1>3
<1>5. x[0] = start /\ \A k \in 1 .. n : x[k] = AcquireForHead(x[k - 1])
  BY <1>1, <1>4
<1> QED BY <1>1, <1>4, <1>5 DEF n, start

\* A turn asks for the locks that the head waits for, and may take it out of the queue.
LEMMA TurnIsGood ==
  ASSUME NEW x, GoodLock(x.lock)
  PROVE  GoodLock(AcquireForHead(x).lock)
<1> DEFINE w == Head(x.lock.waitQ)
           wants == x.lock.waiters[w]
           a == IF "write" \in wants THEN LockForWrite(x.lock, w) ELSE x.lock
           b == IF "read" \in wants THEN LockForRead(a, w) ELSE a
           acquired == /\ "write" \in wants => HasWrite(a, w)
                       /\ "read" \in wants => HasRead(b, w)
           left == IF b.waitQ # << >> /\ Head(b.waitQ) = w
                   THEN [b EXCEPT !.waitQ = Tail(@), !.waiters[w] = {}] ELSE b
<1>1. CASE ~x.going \/ x.lock.waitQ = << >>
  <2>1. AcquireForHead(x) = x
    BY <1>1 DEF AcquireForHead
  <2> QED BY <2>1
<1>2. CASE x.going /\ x.lock.waitQ # << >>
  <2>1. AcquireForHead(x) =
          IF acquired THEN [lock |-> left, going |-> TRUE, empty |-> x.empty \/ b.waitQ = << >>]
          ELSE [lock |-> b, going |-> FALSE, empty |-> x.empty]
    BY <1>2, Zenon DEF AcquireForHead
  <2>2. w \in Txns
    BY <1>2 DEF GoodLock, LockRecord
  <2> HIDE DEF w
  <2>3. GoodLock(a)
    BY <2>2, LockForWriteIsGood
  <2> HIDE DEF a
  <2>4. GoodLock(b)
    BY <2>2, <2>3, LockForReadIsGood
  <2> HIDE DEF b
  <2>5. GoodLock(left)
    BY <2>4, HeadLeavesIsGood
  <2> HIDE DEF left, acquired
  <2> QED BY <2>1, <2>4, <2>5
<1> QED BY <1>1, <1>2

\* Handing the lock on keeps its shape.
LEMMA LoopIsGood ==
  ASSUME NEW l, GoodLock(l)
  PROVE  GoodLock(TryAcquireForWaiters(l).lock)
<1> DEFINE n == Len(l.waitQ)
<1>1. n \in Nat
  BY TurnsOfLoop
<1>2. PICK x : /\ x[0] = [lock |-> l, going |-> TRUE, empty |-> FALSE]
               /\ TryAcquireForWaiters(l) = x[n]
               /\ \A k \in 1 .. n : x[k] = AcquireForHead(x[k - 1])
  BY TurnsOfLoop
<1> HIDE DEF n
<1> DEFINE S == {k \in 0 .. n : GoodLock(x[k].lock)}
<1>3. 0 \in S
  BY <1>1, <1>2
<1>4. ASSUME NEW k \in 1 .. n, k - 1 \in S PROVE k \in S
  BY <1>1, <1>2, <1>4, TurnIsGood
<1> HIDE DEF S
<1>5. n \in S
  BY <1>1, <1>3, <1>4, RoundInduction DEF S
<1> QED BY <1>2, <1>5 DEF S

-----------------------------------------------------------------------------
(* Who becomes a holder while a writer is the head of the queue. *)

\* Of the requesters only the first who waits to write is new.
NobodyPassed(l, m) == m.holders \subseteq l.holders \cup {Head(l.waitQ)}

\* Nobody gets a lock before the first who waits to write.
LEMMA NobodyPasses ==
  ASSUME NEW l, GoodLock(l), l.waitQ # << >>, "write" \in l.waiters[Head(l.waitQ)],
         NEW t \in Txns,
         NEW m \in {LockForRead(l, t), LockForWrite(l, t), ReleaseRead(l, t), ReleaseWrite(l, t)}
  PROVE  NobodyPassed(l, m)
<1>1. l \in LockRecord
  BY DEF GoodLock
<1>2. \A what : WaitForLock(l, t, what).holders = l.holders
  BY <1>1 DEF WaitForLock, LockRecord
<1>3. \A what, st : TryAcquireLock(l, t, what, st).holders \subseteq l.holders \cup {Head(l.waitQ)}
  BY <1>1, <1>2 DEF TryAcquireLock, LockRecord
<1>4. LockForRead(l, t).holders \subseteq l.holders \cup {Head(l.waitQ)}
  BY <1>1, <1>2, <1>3 DEF LockForRead, IsWriteNext, LockRecord
<1>5. LockForWrite(l, t).holders \subseteq l.holders \cup {Head(l.waitQ)}
  BY <1>1, <1>2, <1>3 DEF LockForWrite, LockRecord
<1>6. ReleaseRead(l, t).holders \subseteq l.holders
  BY <1>1 DEF ReleaseRead, LockRecord
<1>7. ReleaseWrite(l, t).holders \subseteq l.holders
  BY <1>1 DEF ReleaseWrite, LockRecord
<1> QED BY <1>4, <1>5, <1>6, <1>7 DEF NobodyPassed

\* A lock that is held for writing gets no holder, and stays held for writing.
LEMMA WriterStays ==
  ASSUME NEW l, GoodLock(l), l.state \in {"WRITE", "READ_WRITE"}, NEW t \in Txns,
         NEW m \in {LockForRead(l, t), LockForWrite(l, t)}
  PROVE  m.holders = l.holders /\ m.state \in {"WRITE", "READ_WRITE"}
<1>1. l \in LockRecord
  BY DEF GoodLock
<1>2. \A what : /\ WaitForLock(l, t, what).holders = l.holders
                /\ WaitForLock(l, t, what).state = l.state
  BY <1>1 DEF WaitForLock, LockRecord
<1>3. LockForRead(l, t).holders = l.holders /\ LockForRead(l, t).state \in {"WRITE", "READ_WRITE"}
  BY <1>1, <1>2 DEF LockForRead, LockRecord
<1>4. LockForWrite(l, t).holders = l.holders
      /\ LockForWrite(l, t).state \in {"WRITE", "READ_WRITE"}
  BY <1>1, <1>2 DEF LockForWrite, Upgrades, LockRecord
<1> QED BY <1>3, <1>4

\* Who asks for a lock is the only one that can get it.
LEMMA OnlyRequester ==
  ASSUME NEW l, GoodLock(l), NEW t \in Txns,
         NEW m \in {LockForRead(l, t), LockForWrite(l, t)}
  PROVE  m.holders \subseteq l.holders \cup {t}
<1>1. l \in LockRecord
  BY DEF GoodLock
<1>2. \A what : WaitForLock(l, t, what).holders = l.holders
  BY <1>1 DEF WaitForLock, LockRecord
<1>3. \A what, st : TryAcquireLock(l, t, what, st).holders \subseteq l.holders \cup {t}
  BY <1>1, <1>2 DEF TryAcquireLock, LockRecord
<1>4. LockForRead(l, t).holders \subseteq l.holders \cup {t}
  BY <1>1, <1>2, <1>3 DEF LockForRead, LockRecord
<1>5. LockForWrite(l, t).holders \subseteq l.holders \cup {t}
  BY <1>1, <1>2, <1>3 DEF LockForWrite, LockRecord
<1> QED BY <1>4, <1>5

\* The head that leaves the queue changes neither the state nor the holders.
LEMMA LeavingKeepsHolders ==
  ASSUME NEW l, GoodLock(l), NEW q, NEW w
  PROVE  /\ [l EXCEPT !.waitQ = q, !.waiters = w].holders = l.holders
         /\ [l EXCEPT !.waitQ = q, !.waiters = w].state = l.state
BY DEF GoodLock, LockRecord

\* A turn gives the lock to the head of the queue, for writing, or ends the loop.
LEMMA FirstTurn ==
  ASSUME NEW x, GoodLock(x.lock), x.going, x.lock.waitQ # << >>,
         "write" \in x.lock.waiters[Head(x.lock.waitQ)]
  PROVE  LET y == AcquireForHead(x) IN
         /\ NobodyPassed(x.lock, y.lock)
         /\ y.going => y.lock.state \in {"WRITE", "READ_WRITE"}
<1> DEFINE w == Head(x.lock.waitQ)
           wants == x.lock.waiters[w]
           a == IF "write" \in wants THEN LockForWrite(x.lock, w) ELSE x.lock
           b == IF "read" \in wants THEN LockForRead(a, w) ELSE a
           acquired == /\ "write" \in wants => HasWrite(a, w)
                       /\ "read" \in wants => HasRead(b, w)
           left == IF b.waitQ # << >> /\ Head(b.waitQ) = w
                   THEN [b EXCEPT !.waitQ = Tail(@), !.waiters[w] = {}] ELSE b
<1>1. AcquireForHead(x) =
        IF acquired THEN [lock |-> left, going |-> TRUE, empty |-> x.empty \/ b.waitQ = << >>]
        ELSE [lock |-> b, going |-> FALSE, empty |-> x.empty]
  BY Zenon DEF AcquireForHead
<1>2. w \in Txns /\ x.lock \in LockRecord /\ x.lock.holders \in SUBSET Txns
  BY DEF GoodLock, LockRecord
<1>3. a = LockForWrite(x.lock, w) /\ (acquired => HasWrite(a, w))
  BY Zenon
<1>4. GoodLock(a) /\ a.holders \subseteq x.lock.holders \cup {w}
  BY <1>2, <1>3, OnlyRequester, LockForWriteIsGood
<1>5. b \in {a, LockForRead(a, w)}
  BY Zenon
<1> HIDE DEF w, wants, a
<1>6. GoodLock(b) /\ b.holders \subseteq x.lock.holders \cup {w}
  BY <1>2, <1>4, <1>5, OnlyRequester, LockForReadIsGood
<1>7. HasWrite(a, w) => b.state \in {"WRITE", "READ_WRITE"}
  BY <1>2, <1>4, <1>5, WriterStays DEF HasWrite
<1> HIDE DEF b
<1>8. left.holders = b.holders /\ left.state = b.state
  BY <1>6, LeavingKeepsHolders
<1> HIDE DEF left, acquired
<1> DEFINE y == AcquireForHead(x)
<1>9. y.lock \in {left, b} /\ (y.going => acquired)
  BY <1>1
<1> HIDE DEF y
<1>10. y.lock.holders = b.holders /\ y.lock.state = b.state
  BY <1>8, <1>9
<1>11. y.going => y.lock.state \in {"WRITE", "READ_WRITE"}
  BY <1>3, <1>7, <1>9, <1>10
<1>12. NobodyPassed(x.lock, y.lock)
  BY <1>6, <1>10 DEF NobodyPassed, w
<1> QED BY <1>11, <1>12 DEF y

\* The other turns leave a lock that is held for writing to its holder.
LEMMA NextTurn ==
  ASSUME NEW x, GoodLock(x.lock), x.going => x.lock.state \in {"WRITE", "READ_WRITE"}
  PROVE  LET y == AcquireForHead(x) IN
         /\ y.lock.holders = x.lock.holders
         /\ y.going => y.lock.state \in {"WRITE", "READ_WRITE"}
<1> DEFINE w == Head(x.lock.waitQ)
           wants == x.lock.waiters[w]
           a == IF "write" \in wants THEN LockForWrite(x.lock, w) ELSE x.lock
           b == IF "read" \in wants THEN LockForRead(a, w) ELSE a
           acquired == /\ "write" \in wants => HasWrite(a, w)
                       /\ "read" \in wants => HasRead(b, w)
           left == IF b.waitQ # << >> /\ Head(b.waitQ) = w
                   THEN [b EXCEPT !.waitQ = Tail(@), !.waiters[w] = {}] ELSE b
<1>1. CASE ~x.going \/ x.lock.waitQ = << >>
  <2>1. AcquireForHead(x) = x
    BY <1>1 DEF AcquireForHead
  <2> QED BY <2>1
<1>2. CASE x.going /\ x.lock.waitQ # << >>
  <2>1. AcquireForHead(x) =
          IF acquired THEN [lock |-> left, going |-> TRUE, empty |-> x.empty \/ b.waitQ = << >>]
          ELSE [lock |-> b, going |-> FALSE, empty |-> x.empty]
    BY <1>2, Zenon DEF AcquireForHead
  <2>2. w \in Txns
    BY <1>2 DEF GoodLock, LockRecord
  <2> HIDE DEF w
  <2>3. GoodLock(a) /\ a.holders = x.lock.holders /\ a.state \in {"WRITE", "READ_WRITE"}
    BY <1>2, <2>2, LockForWriteIsGood, WriterStays
  <2> HIDE DEF a
  <2>4. GoodLock(b) /\ b.holders = x.lock.holders /\ b.state \in {"WRITE", "READ_WRITE"}
    BY <2>2, <2>3, LockForReadIsGood, WriterStays
  <2> HIDE DEF b
  <2>5. left.holders = b.holders /\ left.state = b.state
    BY <2>4, LeavingKeepsHolders
  <2> HIDE DEF left, acquired
  <2> QED BY <2>1, <2>4, <2>5
<1> QED BY <1>1, <1>2

\* The loop gives the lock to the head of the queue, if it waits to write, or to nobody.
LEMMA LoopPassesNobody ==
  ASSUME NEW l, GoodLock(l), l.waitQ # << >>, "write" \in l.waiters[Head(l.waitQ)]
  PROVE  NobodyPassed(l, TryAcquireForWaiters(l).lock)
<1> DEFINE n == Len(l.waitQ)
<1>1. n \in Nat /\ n # 0
  BY DEF GoodLock, LockRecord
<1>2. PICK x : /\ x[0] = [lock |-> l, going |-> TRUE, empty |-> FALSE]
               /\ TryAcquireForWaiters(l) = x[n]
               /\ \A k \in 1 .. n : x[k] = AcquireForHead(x[k - 1])
  BY TurnsOfLoop
<1> HIDE DEF n
<1> DEFINE P(y) == /\ GoodLock(y.lock) /\ NobodyPassed(l, y.lock)
                   /\ y.going => y.lock.state \in {"WRITE", "READ_WRITE"}
           S == {k \in 0 .. n : k = 0 \/ P(x[k])}
<1>3. x[1] = AcquireForHead(x[0]) /\ x[0].lock = l /\ x[0].going = TRUE
  BY <1>1, <1>2
<1>4. P(x[1])
  <2>1. GoodLock(AcquireForHead(x[0]).lock)
    BY <1>3, TurnIsGood
  <2>2. /\ NobodyPassed(x[0].lock, AcquireForHead(x[0]).lock)
        /\ AcquireForHead(x[0]).going =>
             AcquireForHead(x[0]).lock.state \in {"WRITE", "READ_WRITE"}
    BY <1>3, FirstTurn
  <2> QED BY <1>3, <2>1, <2>2
<1>5. ASSUME NEW y, P(y) PROVE P(AcquireForHead(y))
  <2>1. GoodLock(AcquireForHead(y).lock)
    BY <1>5, TurnIsGood
  <2>2. /\ AcquireForHead(y).lock.holders = y.lock.holders
        /\ AcquireForHead(y).going => AcquireForHead(y).lock.state \in {"WRITE", "READ_WRITE"}
    BY <1>5, NextTurn
  <2> QED BY <1>5, <2>1, <2>2 DEF NobodyPassed
<1> HIDE DEF P
<1>6. 0 \in S
  BY <1>1
<1>7. ASSUME NEW k \in 1 .. n, k - 1 \in S PROVE k \in S
  <2>1. CASE k = 1
    BY <1>1, <1>4, <2>1
  <2>2. CASE k # 1
    <3>1. P(x[k - 1]) /\ x[k] = AcquireForHead(x[k - 1])
      BY <1>1, <1>2, <1>7, <2>2
    <3> QED BY <1>1, <1>5, <3>1
  <2> QED BY <2>1, <2>2
<1> HIDE DEF S
<1>8. n \in S
  BY <1>1, <1>6, <1>7, RoundInduction DEF S
<1>9. P(x[n])
  BY <1>1, <1>8 DEF S
<1> QED BY <1>2, <1>9 DEF P

-----------------------------------------------------------------------------
(* The specification. *)

\* A lock is free when it is made.
LEMMA LockSetsInit ==
  ASSUME InitLock
  PROVE  IInv
<1>1. Free \in LockRecord /\ Free.state = "UNLOCKED" /\ Free.holders = {}
  BY DEF Free, LockRecord, LockStates, Whats
<1>2. ExclusiveLock(Free)
  BY <1>1 DEF ExclusiveLock
<1>3. QueueOf(Free.waitQ, Free.waiters)
  BY DEF QueueOf, Free
<1> QED BY <1>1, <1>2, <1>3 DEF InitLock, IInv, GoodLock

\* A step is one operation, and after a release that frees the lock, without retryLock,
\* the loop of TryAcquireForWaiters.
LEMMA LockStep ==
  ASSUME IInv, NextLock
  PROVE  /\ retryLock' = retryLock /\ dead' \in BOOLEAN
         /\ \E t \in Txns :
              \/ lock' \in {LockForRead(lock, t), LockForWrite(lock, t)}
              \/ \E l \in {ReleaseRead(lock, t), ReleaseWrite(lock, t)} :
                   lock' \in {l, TryAcquireForWaiters(l).lock}
<1>1. dead \in BOOLEAN
  BY DEF IInv
<1>2. PICK t \in Txns : \/ lockForRead(t) \/ lockForWrite(t)
                        \/ releaseForRead(t) \/ releaseForWrite(t)
  BY DEF NextLock
<1>3. CASE lockForRead(t)
  BY <1>1, <1>3 DEF lockForRead
<1>4. CASE lockForWrite(t)
  BY <1>1, <1>4 DEF lockForWrite
<1>5. ASSUME NEW l, HandOn(l)
      PROVE  dead' \in BOOLEAN /\ lock' \in {l, TryAcquireForWaiters(l).lock}
  BY <1>5 DEF HandOn
<1>6. CASE releaseForRead(t)
  <2> DEFINE l == ReleaseRead(lock, t)
  <2>1. retryLock' = retryLock /\ (HandOn(l) \/ (lock' = l /\ dead' = dead))
    BY <1>6 DEF releaseForRead
  <2> HIDE DEF l
  <2>2. dead' \in BOOLEAN /\ lock' \in {l, TryAcquireForWaiters(l).lock}
    BY <1>1, <1>5, <2>1
  <2> QED BY <2>1, <2>2 DEF l
<1>7. CASE releaseForWrite(t)
  <2> DEFINE l == ReleaseWrite(lock, t)
  <2>1. retryLock' = retryLock /\ (HandOn(l) \/ (lock' = l /\ dead' = dead))
    BY <1>7 DEF releaseForWrite
  <2> HIDE DEF l
  <2>2. dead' \in BOOLEAN /\ lock' \in {l, TryAcquireForWaiters(l).lock}
    BY <1>1, <1>5, <2>1
  <2> QED BY <2>1, <2>2 DEF l
<1> QED BY <1>2, <1>3, <1>4, <1>6, <1>7

\* Every step of the lock server keeps the invariant.
LEMMA LockInductive ==
  ASSUME IInv, [NextLock]_lockVars
  PROVE  IInv'
<1>1. CASE UNCHANGED lockVars
  BY <1>1 DEF lockVars, IInv, GoodLock
<1>2. CASE NextLock
  <2>1. GoodLock(lock) /\ retryLock \in BOOLEAN
    BY DEF IInv
  <2>2. PICK t \in Txns :
          \/ lock' \in {LockForRead(lock, t), LockForWrite(lock, t)}
          \/ \E l \in {ReleaseRead(lock, t), ReleaseWrite(lock, t)} :
               lock' \in {l, TryAcquireForWaiters(l).lock}
    BY <1>2, LockStep
  <2>3. GoodLock(lock')
    BY <2>1, <2>2, LockForReadIsGood, LockForWriteIsGood, ReleaseReadIsGood,
       ReleaseWriteIsGood, LoopIsGood
  <2>4. retryLock' \in BOOLEAN /\ dead' \in BOOLEAN
    BY <1>2, <2>1, LockStep
  <2> QED BY <2>3, <2>4 DEF IInv
<1> QED BY <1>1, <1>2

\* The fields of a lock keep their types.
THEOREM LockTypeHolds == SpecLock => []LockType
<1>1. IInv => LockType
  BY DEF IInv, GoodLock, LockRecord, Whats, LockType
<1> QED BY <1>1, LockSetsInit, LockInductive, PTL DEF SpecLock

\* lockserver.cc: a write lock has one holder, a free lock none, a read lock some.
THEOREM ExclusiveHolds == SpecLock => []Exclusive
<1>1. IInv => Exclusive
  BY DEF IInv, GoodLock, ExclusiveLock, Exclusive
<1> QED BY <1>1, LockSetsInit, LockInductive, PTL DEF SpecLock

\* lockserver.cc: a requester has one place in waitQ exactly if it has an entry in waiters.
THEOREM QueueIsOfWaitersHolds == SpecLock => []QueueIsOfWaiters
<1>1. IInv => QueueIsOfWaiters
  BY DEF IInv, GoodLock, QueueOf, QueueIsOfWaiters
<1> QED BY <1>1, LockSetsInit, LockInductive, PTL DEF SpecLock

\* A release leaves the queue, and adds no holder.
LEMMA ReleaseKeepsQueue ==
  ASSUME NEW l, GoodLock(l), NEW t \in Txns, NEW m \in {ReleaseRead(l, t), ReleaseWrite(l, t)}
  PROVE  m.waitQ = l.waitQ /\ m.waiters = l.waiters /\ m.holders \subseteq l.holders
<1>1. l \in LockRecord
  BY DEF GoodLock
<1>2. CASE m = ReleaseRead(l, t)
  BY <1>1, <1>2 DEF ReleaseRead, LockRecord
<1>3. CASE m = ReleaseWrite(l, t)
  BY <1>1, <1>3 DEF ReleaseWrite, LockRecord
<1> QED BY <1>2, <1>3

\* lockserver.cc: while a writer is the head of the queue (isWriteNext), nobody else gets
\* the lock, neither by asking (tryAcquireLock) nor from the loop of TryAcquireForWaiters.
THEOREM HeadIsNotOvertakenHolds == SpecLock => HeadIsNotOvertaken
<1> DEFINE Kept == lock.waitQ # << >> /\ "write" \in lock.waiters[Head(lock.waitQ)] =>
                     lock'.holders \subseteq lock.holders \cup {Head(lock.waitQ)}
<1>1. IInv /\ [NextLock]_lockVars => [Kept]_lockVars
  <2> SUFFICES ASSUME IInv, NextLock, lock.waitQ # << >>,
                      "write" \in lock.waiters[Head(lock.waitQ)]
               PROVE  NobodyPassed(lock, lock')
    BY DEF NobodyPassed
  <2>1. GoodLock(lock)
    BY DEF IInv
  <2>2. PICK t \in Txns :
          \/ lock' \in {LockForRead(lock, t), LockForWrite(lock, t)}
          \/ \E l \in {ReleaseRead(lock, t), ReleaseWrite(lock, t)} :
               lock' \in {l, TryAcquireForWaiters(l).lock}
    BY LockStep
  <2>3. CASE lock' \in {LockForRead(lock, t), LockForWrite(lock, t)}
    BY <2>1, <2>3, NobodyPasses
  <2>4. ASSUME NEW l \in {ReleaseRead(lock, t), ReleaseWrite(lock, t)},
               lock' \in {l, TryAcquireForWaiters(l).lock}
        PROVE  NobodyPassed(lock, lock')
    <3>1. l.waitQ = lock.waitQ /\ l.waiters = lock.waiters /\ l.holders \subseteq lock.holders
      BY <2>1, ReleaseKeepsQueue
    <3>2. GoodLock(l)
      BY <2>1, ReleaseReadIsGood, ReleaseWriteIsGood
    <3>3. NobodyPassed(l, TryAcquireForWaiters(l).lock)
      BY <3>1, <3>2, LoopPassesNobody
    <3> QED BY <2>4, <3>1, <3>3 DEF NobodyPassed
  <2> QED BY <2>2, <2>3, <2>4
<1> QED BY <1>1, LockSetsInit, LockInductive, PTL DEF SpecLock, HeadIsNotOvertaken
=============================================================================
