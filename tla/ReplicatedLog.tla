--------------------------- MODULE ReplicatedLog ----------------------------
(***************************************************************************)
(* What a replicated state machine promises its clients: one order of      *)
(* their requests, replicas that execute it without a gap, and answers     *)
(* that f+1 replicas stand for.  How the order is agreed upon, and what    *)
(* messages that takes, is left to the protocols that implement it.        *)
(***************************************************************************)
EXTENDS Naturals, Sequences, FiniteSets

CONSTANTS
  Replicas, Clients,
  f,          \* the replicas that may fail
  Fillers,    \* entries that protocols put between the requests
  FromStart   \* TRUE: every replica executes from the first request on

VARIABLES
  ordered,    \* the requests and fillers in the order agreed upon
  executed,   \* executed[r]: the requests r has executed, by their place in the order
  invoked,    \* invoked[c]: the number of requests c has invoked
  waiting     \* waiting[c]: the request c waits for, 0 if none

vars == <<ordered, executed, invoked, waiting>>

Request(c, n) == [client |-> c, num |-> n]

Init ==
  /\ ordered \in Seq(Fillers)
  /\ executed = [r \in Replicas |-> << >>]
  /\ invoked = [c \in Clients |-> 0]
  /\ waiting = [c \in Clients |-> 0]

\* A client invokes one request at a time.
Invoke(c) ==
  /\ waiting[c] = 0
  /\ invoked' = [invoked EXCEPT ![c] = @ + 1]
  /\ waiting' = [waiting EXCEPT ![c] = invoked'[c]]
  /\ UNCHANGED <<ordered, executed>>

\* The order grows at its end, by what clients have invoked.
Order ==
  /\ Len(ordered) < Len(ordered')
  /\ \A i \in 1 .. Len(ordered) : ordered'[i] = ordered[i]
  /\ \A i \in Len(ordered) + 1 .. Len(ordered') :
       \/ ordered'[i] \in Fillers
       \/ \E c \in Clients : \E n \in 1 .. invoked[c] : ordered'[i] = Request(c, n)
  /\ UNCHANGED <<executed, invoked, waiting>>

\* Between the places of done, and before them if all execute from the start,
\* there are only fillers.
NoGap(done) ==
  \A j \in done : \A i \in 1 .. j :
    FromStart \/ (\E k \in done : k <= i) => i \in done \/ ordered[i] \in Fillers

\* A replica executes what comes next.
Execute(r) ==
  LET done == DOMAIN executed'[r]
      new  == done \ DOMAIN executed[r]
  IN  /\ new # {} /\ DOMAIN executed[r] \subseteq done /\ done \subseteq 1 .. Len(ordered)
      /\ \A i \in DOMAIN executed[r], j \in new : i < j
      /\ NoGap(done)
      /\ executed' = [executed EXCEPT ![r] = [i \in done |-> ordered[i]]]
      /\ UNCHANGED <<ordered, invoked, waiting>>

\* A client has its answer when f+1 replicas have executed its request.
Answer(c) ==
  /\ waiting[c] # 0
  /\ waiting' = [waiting EXCEPT ![c] = 0]
  /\ Cardinality({r \in Replicas : \E i \in DOMAIN executed[r] :
                    executed[r][i] = Request(c, waiting[c])}) >= f + 1
  /\ UNCHANGED <<ordered, executed, invoked>>

Next ==
  \/ \E c \in Clients : Invoke(c) \/ Answer(c)
  \/ Order
  \/ \E r \in Replicas : Execute(r)

Spec == Init /\ [][Next]_vars
=============================================================================
