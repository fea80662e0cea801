-------------------------------- MODULE Serial --------------------------------
(***************************************************************************)
(* What it means that transactions at several shards appear to run one at  *)
(* a time, for Spanner, Granola and TAPIR.  plan[c][g] is what             *)
(* transaction c reads and writes at shard g, answers[c][g] what it was    *)
(* answered there for each key that it reads, and after[c] those that      *)
(* ended before c began.                                                   *)
(***************************************************************************)
EXTENDS KVTxnServer, SequencesExt

KeysRead(plan, c) == {x \in (DOMAIN plan[c]) \X Keys : x[2] \in plan[c][x[1]].reads}
KeysWritten(plan, c) == UNION {plan[c][g].writes : g \in DOMAIN plan[c]}

\* Who has written key before the i-th transaction of order.
LastWriter(plan, order, i, key) ==
    LET writers == {j \in 1 .. i - 1 : key \in KeysWritten(plan, order[j])} IN
    IF writers = {} THEN Nobody ELSE order[Max(writers)]

\* There is an order of the transactions of done in which each of those of answered reads
\* what it was answered, and none comes before one that ended before it began.
HasSerialOrder(plan, answers, after, done, answered) ==
    \E order \in SetToSeqs(done) : \A i \in DOMAIN order :
        /\ order[i] \in answered =>
              \A x \in KeysRead(plan, order[i]) :
                 answers[order[i]][x[1]][x[2]] = LastWriter(plan, order, i, x[2])
        /\ \A j \in i + 1 .. Len(order) : order[j] \notin after[order[i]]
=============================================================================
