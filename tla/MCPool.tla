------------------------------- MODULE MCPool --------------------------------
(***************************************************************************)
(* The runner OrderedPool, and two protocols with another source of order: *)
(* MinBFT, with counters, in two settings, and TomBFT, with a sequencer.   *)
(* One of them runs in each behaviour, the others stay as they begin.      *)
(***************************************************************************)
EXTENDS OrderedPool, Integers, FiniteSets

CONSTANTS r0, r1, r2, c1, c2

VARIABLES
  system,
  log, batches, commit_quorum, committed, commit_number, client_table, epilogue_list, next_ui,
  ui_queue, request_batch, close_queued, draining, stopped, sent, last_req, pending, received, replies,
  replica, client, sequencer, hmac, msgs

\* Two requests of one client, and messages that the primary's backups receive out of
\* order, or again; one backup hears of requests by PREPAREs only.
Reordering == INSTANCE MinBFT WITH
  Replicas <- {r0, r1, r2}, Primary <- r0, Clients <- {c1}, f <- 1, BatchSize <- 1, MaxReq <- 2,
  MaxClose <- 0, MaxQueued <- 2, Reordered <- {<<r1, r0>>}, Hear <- {r0, r1}

\* Batches of two, of two clients, closed by the timer too, even when they are empty.
Batching == INSTANCE MinBFT WITH
  Replicas <- {r0, r1, r2}, Primary <- r0, Clients <- {c1, c2}, f <- 1, BatchSize <- 2, MaxReq <- 1,
  MaxClose <- 1, MaxQueued <- 0, Reordered <- {}, Hear <- {r0}

minVars ==
  <<log, batches, commit_quorum, committed, commit_number, client_table, epilogue_list, next_ui,
    ui_queue, request_batch, close_queued, draining, stopped, sent, last_req, pending, received, replies>>

\* Three of four replicas are up.
TomBFT == INSTANCE TomBFT WITH
  Replicas <- {r0, r1, r2}, Leader <- r0, Clients <- {c1}, f <- 1, MaxReq <- 2, MaxPacket <- 3, MaxSession <- 2

tomVars == <<replica, client, sequencer, hmac, msgs>>

MCInit ==
  /\ Init
  /\ \/ system = "minbft" /\ Reordering!Init
     \/ system \in {"pool", "tombft", "batches"} /\ Batching!Init
  /\ \/ system = "tombft" /\ TomBFT!Init
        \* What a replica finds in offset, one of them may find too much.
        /\ \A r \in {r0, r1, r2} : replica[r].offset > 0 => r = r1 /\ ~hmac
     \/ /\ system # "tombft"
        /\ replica = << >> /\ client = << >> /\ sequencer = << >> /\ hmac = FALSE /\ msgs = {}

MCNext ==
  \/ system = "pool" /\ Next /\ UNCHANGED <<system, minVars, tomVars>>
  \/ system = "minbft" /\ Reordering!Next /\ UNCHANGED <<system, vars, tomVars>>
  \/ system = "batches" /\ Batching!Next /\ UNCHANGED <<system, vars, tomVars>>
  \/ system = "tombft" /\ TomBFT!Next /\ UNCHANGED <<system, vars, minVars>>

MCSpec == MCInit /\ [][MCNext]_<<system, vars, minVars, tomVars>>

\* MinBFT and TomBFT: replicas have one order of the requests and execute each request
\* once, and what a client saw completed was executed by enough replicas to answer it
\* (MinBFT.tla and TomBFT.tla name the code).  MinBFT's queues strand no message but
\* behind a duplicate, and its replicas do not stop.
OrderIsServed ==
  /\ system = "minbft" =>
       /\ Reordering!Agreement /\ Reordering!AtMostOnce
       /\ Reordering!ExecutedIsReplicated /\ Reordering!CompletedIsExecuted
       /\ Reordering!NoneStops /\ Reordering!WaitsBehindDuplicate
  /\ system = "batches" =>
       /\ Batching!TypeOK /\ Batching!Agreement /\ Batching!AtMostOnce
       /\ Batching!ExecutedIsReplicated /\ Batching!NoneStops
  /\ system = "tombft" =>
       TomBFT!LogsAreOfTheOrder /\ TomBFT!ExecutedOnce /\ TomBFT!CompletedIsExecuted
=============================================================================
