---------------------------- MODULE OrderedPool -----------------------------
(***************************************************************************)
(* CTPLOrderedRunner of common/runner.h and runner.cc, the runner of the    *)
(* PBFT replica.  The transport's thread submits tasks; the threads of a    *)
(* ctpl::thread_pool (lib/ctpl.h, third-party: a FIFO queue of functions)   *)
(* run them.  replica_mutex and the condition variable cv let a thread run  *)
(* the solo of its task only after the task before it is done.              *)
(*                                                                          *)
(* A thread that holds replica_mutex without its predicate being true only  *)
(* goes to sleep, so taking the mutex, testing and sleeping are one step.   *)
(* A sleeping thread may wake without a notification.                       *)
(***************************************************************************)
EXTENDS Naturals, Sequences

CONSTANTS
  Workers,  \* the threads of the pool
  NoWorker, \* replica_mutex is free
  MaxTask   \* bound: tasks submitted

ASSUME WorkersAssumption == NoWorker \notin Workers
ASSUME MaxTaskAssumption == MaxTask \in Nat

VARIABLES
  prologue_id,   \* the number of the last task submitted
  last_task,     \* the last task that is done with its solo
  replica_mutex, \* the thread that holds the mutex
  epilogue,      \* the task whose epilogue RunEpilogue registered, 0 if none
  queue,         \* the pool's queue of task numbers
  pc,            \* pc[w]: where thread w is
  task,          \* task[w]: the number of w's task (the lambda's prologue_id)
  solo,          \* solo[w]: the prologue returned a solo
  mine,          \* mine[w]: w's local copy of epilogue
  started,       \* the tasks whose solo has been started
  dropped,       \* the tasks whose prologue returned no solo
  finished       \* the tasks whose epilogue has run

shared == <<prologue_id, last_task, replica_mutex, epilogue, queue>>
locals == <<task, solo, mine>>
history == <<started, dropped, finished>>
vars == <<shared, pc, locals, history>>

Init ==
  /\ prologue_id = 0 /\ last_task = 0
  /\ replica_mutex = NoWorker
  /\ epilogue = 0
  /\ queue = <<>>
  /\ pc = [w \in Workers |-> "idle"]
  /\ task = [w \in Workers |-> 0]
  /\ solo = [w \in Workers |-> FALSE]
  /\ mine = [w \in Workers |-> 0]
  /\ started = {} /\ dropped = {} /\ finished = {}

Goto(w, from, to) == pc[w] = from /\ pc' = [pc EXCEPT ![w] = to]

RunPrologueNoCount ==
  /\ prologue_id < MaxTask
  /\ queue' = Append(queue, prologue_id + 1)
  /\ UNCHANGED <<prologue_id, last_task, replica_mutex, epilogue, pc, locals, history>>

\* RunPrologue, called by the transport's thread: number the task, push it.
RunPrologue ==
  /\ prologue_id < MaxTask
  /\ prologue_id' = prologue_id + 1
  /\ queue' = Append(queue, prologue_id + 1)
  /\ UNCHANGED <<last_task, replica_mutex, epilogue, pc, locals, history>>

\* An idle thread of the pool takes the oldest function of the queue.
Pop(w) ==
  /\ Goto(w, "idle", "prologue")
  /\ queue # <<>>
  /\ task' = [task EXCEPT ![w] = Head(queue)]
  /\ queue' = Tail(queue)
  /\ UNCHANGED <<prologue_id, last_task, replica_mutex, epilogue, solo, mine, history>>

\* The prologue verifies and parses the message: no solo when that fails.
Prologue(w) ==
  /\ Goto(w, "prologue", "lock")
  /\ \E s \in BOOLEAN :
       /\ solo' = [solo EXCEPT ![w] = s]
       /\ dropped' = IF s THEN dropped ELSE dropped \cup {task[w]}
  /\ UNCHANGED <<shared, task, mine, started, finished>>

TurnLate(w) == last_task >= task[w] - 2

\* The predicate of cv.wait.
Turn(w) == last_task + 1 = task[w]

\* Take replica_mutex and test the predicate: sleep, or go on with the mutex
\* held and the epilogue cleared.
Lock(w) ==
  /\ replica_mutex = NoWorker
  /\ \/ /\ ~Turn(w)
        /\ Goto(w, "lock", "sleep")
        /\ UNCHANGED <<replica_mutex, epilogue>>
     \/ /\ Turn(w)
        /\ Goto(w, "lock", "turn")
        /\ replica_mutex' = w
        /\ epilogue' = 0
  /\ UNCHANGED <<prologue_id, last_task, queue, locals, history>>

SpuriousWakeup(w) ==
  /\ Goto(w, "sleep", "lock")
  /\ UNCHANGED <<shared, locals, history>>

\* if (solo) solo();
Solo(w) ==
  /\ solo[w]
  /\ Goto(w, "turn", "solo")
  /\ started' = started \cup {task[w]}
  /\ UNCHANGED <<shared, locals, dropped, finished>>

\* The solo registers an epilogue; a later call replaces an earlier one.
RunEpilogue(w) ==
  /\ pc[w] = "solo"
  /\ epilogue' = task[w]
  /\ UNCHANGED <<prologue_id, last_task, replica_mutex, queue, pc, locals, history>>

\* Copy the epilogue, make way for the next task, unlock.
Done(w) ==
  /\ \/ Goto(w, "solo", "notify")
     \/ ~solo[w] /\ Goto(w, "turn", "notify")
  /\ mine' = [mine EXCEPT ![w] = epilogue]
  /\ last_task' = task[w]
  /\ replica_mutex' = NoWorker
  /\ UNCHANGED <<prologue_id, epilogue, queue, task, solo, history>>

NotifyOne(w) ==
  /\ pc[w] = "notify"
  /\ \/ \A v \in Workers : pc[v] # "sleep" /\ pc' = [pc EXCEPT ![w] = "epilogue"]
     \/ \E v \in Workers : /\ pc[v] = "sleep"
                           /\ pc' = [pc EXCEPT ![w] = "epilogue", ![v] = "lock"]
  /\ UNCHANGED <<shared, locals, history>>

\* cv.notify_all
Notify(w) ==
  /\ pc[w] = "notify"
  /\ pc' = [v \in Workers |-> IF v = w THEN "epilogue"
                              ELSE IF pc[v] = "sleep" THEN "lock" ELSE pc[v]]
  /\ UNCHANGED <<shared, locals, history>>

\* Run the copy of the epilogue, if there is one, without the mutex.  The
\* lambda ends, and its locals with it.
Epilogue(w) ==
  /\ Goto(w, "epilogue", "idle")
  /\ finished' = finished \cup ({mine[w]} \ {0})
  /\ task' = [task EXCEPT ![w] = 0]
  /\ solo' = [solo EXCEPT ![w] = FALSE]
  /\ mine' = [mine EXCEPT ![w] = 0]
  /\ UNCHANGED <<shared, started, dropped>>

Step(w) == \/ Pop(w) \/ Prologue(w) \/ Lock(w) \/ Solo(w)
           \/ Done(w) \/ Notify(w) \/ Epilogue(w)

Next ==
  \/ RunPrologue
  \/ \E w \in Workers : Step(w) \/ SpuriousWakeup(w) \/ RunEpilogue(w)

Spec == Init /\ [][Next]_vars

\* The operating system schedules every thread; prologues, solos and epilogues
\* return.  Weak fairness is enough for the mutex too: while it is a thread's
\* turn no other thread keeps the mutex.
Fairness == \A w \in Workers : WF_vars(Step(w))

FairSpec == Spec /\ Fairness

-----------------------------------------------------------------------------
Places == {"idle", "prologue", "lock", "sleep", "turn", "solo", "notify", "epilogue"}

\* The types of the fields of CTPLOrderedRunner and of the lambda's locals.
TypeOK ==
  /\ prologue_id \in Nat /\ last_task \in 0 .. prologue_id
  /\ epilogue \in 0 .. prologue_id
  /\ replica_mutex \in Workers \cup {NoWorker}
  /\ queue \in Seq(1 .. prologue_id)
  /\ pc \in [Workers -> Places]
  /\ task \in [Workers -> 0 .. prologue_id] /\ mine \in [Workers -> 0 .. prologue_id]
  /\ solo \in [Workers -> BOOLEAN]
  /\ started \subseteq 1 .. prologue_id /\ dropped \subseteq 1 .. prologue_id
  /\ finished \subseteq 1 .. prologue_id

\* The task whose solo runs, for the refinement below.
Running == IF replica_mutex # NoWorker /\ pc[replica_mutex] = "solo"
             THEN task[replica_mutex] ELSE 0

Order == INSTANCE SoloOrder WITH submitted <- prologue_id, running <- Running

\* Solos run one at a time and in the order of RunPrologue, which is what
\* TEST(Runner, SoloOrder) samples.
RunsInOrder == Order!Spec

\* A thread runs the epilogue of its own task or none, although all tasks
\* register theirs in one field: Done copies it before the mutex is free.
EpilogueIsOwn ==
  \A w \in Workers : pc[w] \in {"notify", "epilogue"} => mine[w] \in {0, task[w]}

\* Every task gets its turn, whatever the order in which the threads reach the
\* mutex: none sleeps through the notification of the task before its own.  Again and
\* again, all tasks submitted so far have had their turn.
EveryTaskRuns ==
  []<>(\A t \in 1 .. prologue_id : t \in started \cup dropped)

-----------------------------------------------------------------------------
(***************************************************************************)
(* The inductive invariant behind RunsInOrder and EpilogueIsOwn.            *)
(***************************************************************************)

\* The tasks that have left the queue are 1 .. Popped.
Popped == prologue_id - Len(queue)

\* The queue holds the tasks after Popped, in order.
QueueInOrder ==
  /\ Len(queue) <= prologue_id
  /\ \A i \in 1 .. Len(queue) : queue[i] = Popped + i

\* Busy threads have different tasks; last_task has not passed the task of a
\* thread that is not done with its solo.
TasksOfThreads ==
  /\ last_task <= Popped
  /\ \A w \in Workers :
       /\ pc[w] # "idle" => task[w] \in 1 .. Popped
       /\ pc[w] \in {"prologue", "lock", "sleep", "turn", "solo"} => last_task < task[w]
  /\ \A v, w \in Workers :
       v # w /\ pc[v] # "idle" /\ pc[w] # "idle" => task[v] # task[w]

\* The mutex is held from "turn" to Done, by the thread whose turn it is.
MutexIsHeld ==
  \A w \in Workers :
    /\ pc[w] \in {"turn", "solo"} <=> replica_mutex = w
    /\ pc[w] \in {"turn", "solo"} => last_task + 1 = task[w]

\* Which tasks have been started or dropped.
TasksAccounted ==
  /\ \A t \in 1 .. last_task : t \in started \cup dropped
  /\ \A t \in started :
       t <= last_task \/ \E w \in Workers : pc[w] = "solo" /\ task[w] = t
  /\ \A t \in dropped : t <= Popped
  /\ \A w \in Workers :
       /\ pc[w] = "prologue" => task[w] \notin dropped
       /\ pc[w] \in {"lock", "sleep", "turn", "solo"} =>
            (task[w] \in dropped <=> solo[w] = FALSE)
       /\ pc[w] = "solo" => solo[w] = TRUE /\ task[w] \in started

\* What a running solo can have left in the shared field.
EpilogueInMutex ==
  \A w \in Workers : pc[w] \in {"turn", "solo"} => epilogue \in {0, task[w]}

Inv == /\ TypeOK /\ QueueInOrder /\ TasksOfThreads /\ MutexIsHeld
       /\ TasksAccounted /\ EpilogueInMutex /\ EpilogueIsOwn
=============================================================================
