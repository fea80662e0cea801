------------------------------ MODULE Handlers ------------------------------
(***************************************************************************)
(* How the modules of this project write a message handler.  The object    *)
(* that handles messages is a record with the fields status, fault and     *)
(* out; a handler is an operator from the record it finds to the record it *)
(* leaves, with the messages it sent in out.  A failing ASSERT, a Panic, a *)
(* NOT_REACHABLE and a null dereference end the process: status becomes    *)
(* "crashed", fault names the place, and no later statement runs.          *)
(***************************************************************************)
EXTENDS Integers, Sequences, FiniteSets

Crash(s, where) == [s EXCEPT !.status = "crashed", !.fault = where]

\* Op(v), with v evaluated once.
With(v, Op(_)) == CHOOSE y \in {Op(x) : x \in {v}} : TRUE

\* Sequencing: the next statement runs only if the process is still there.
Then(s, Op(_)) == With(s, LAMBDA u : IF u.status = "crashed" THEN u ELSE Op(u))

\* ASSERT(cond): the rest of the handler follows with Then.
Require(s, cond, where) == IF cond THEN s ELSE Crash(s, where)

Send(s, m) == [s EXCEPT !.out = @ \cup {m}]

\* The numbers from a to b, in order.
Interval(a, b) == [k \in 1 .. b - a + 1 |-> a + k - 1]

\* QuorumSet keeps one message of each replica: a new one replaces it.
Store(set, m) == {x \in set : x.from # m.from} \cup {m}
=============================================================================
