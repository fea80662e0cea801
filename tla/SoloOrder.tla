----------------------------- MODULE SoloOrder ------------------------------
(***************************************************************************)
(* What an ordered runner of common/runner.h promises to a replica.  A task *)
(* is what one call of RunPrologue submits; tasks are numbered in the order *)
(* of the calls.  The prologue of a task runs on any thread at any time and *)
(* may return no solo.  The solos, which are the replica's message handlers *)
(* and touch its state without a lock, run one at a time and in the order   *)
(* of submission.                                                           *)
(***************************************************************************)
EXTENDS Naturals

VARIABLES
  submitted,  \* the number of tasks submitted
  dropped,    \* the tasks whose prologue returned no solo
  started,    \* the tasks whose solo has been started
  running     \* the task whose solo runs, 0 if none

vars == <<submitted, dropped, started, running>>

Init == submitted = 0 /\ dropped = {} /\ started = {} /\ running = 0

Submit ==
  /\ submitted' = submitted + 1
  /\ UNCHANGED <<dropped, started, running>>

Drop(t) ==
  /\ t \in (1 .. submitted) \ (started \cup dropped)
  /\ dropped' = dropped \cup {t}
  /\ UNCHANGED <<submitted, started, running>>

Start(t) ==
  /\ running = 0
  /\ t \in (1 .. submitted) \ (started \cup dropped)
  /\ \A u \in 1 .. t - 1 : u \in started \cup dropped
  /\ started' = started \cup {t}
  /\ running' = t
  /\ UNCHANGED <<submitted, dropped>>

Finish ==
  /\ running # 0
  /\ running' = 0
  /\ UNCHANGED <<submitted, dropped, started>>

Next == Submit \/ Finish \/ \E t \in 1 .. submitted : Drop(t) \/ Start(t)

Spec == Init /\ [][Next]_vars
=============================================================================
