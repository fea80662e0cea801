----------------------------- MODULE KVTxnServer -----------------------------
(***************************************************************************)
(* The key-value application under a transaction server: KVTxnServer,      *)
(* KVStore and LockServer, as the servers of Spanner and Granola run it,   *)
(* with retryLock: nothing is recorded about blocked keys, and releasing a *)
(* lock leaves its waiters alone.  The fields locks, pending and store are *)
(* part of the record of the server.  The value a transaction writes to a  *)
(* key is the transaction itself.                                          *)
(***************************************************************************)
EXTENDS Handlers, Locks, TLC

CONSTANTS
  Keys,   \* the keys
  Nobody  \* the value of a key that no transaction has written

NoOps == [reads |-> {}, writes |-> {}]

\* The fields of a KVTxnServer as it is constructed.
FreshApp == [locks |-> [k \in Keys |-> Free], pending |-> << >>, store |-> [k \in Keys |-> Nobody]]

\* Its readSet and writeSet, to which a request adds its gets and puts.
Kvtxn(s, t, ops) ==
    LET known == IF t \in DOMAIN s.pending THEN s.pending[t] ELSE NoOps IN
    [reads |-> known.reads \cup ops.reads, writes |-> known.writes \cup ops.writes]

\* The loops over readSet and writeSet: the locks of different keys are independent.
LockAll(s, t, k) ==
    [key \in Keys |->
        LET l == IF key \in k.reads THEN LockForRead(s.locks[key], t) ELSE s.locks[key] IN
        IF key \in k.writes THEN LockForWrite(l, t) ELSE l]

\* Mutant: a transaction that lacks a lock is not blocked if it writes nothing.
BlockedIfWriting(locks, t, k) == \E key \in k.writes : ~HasWrite(locks[key], t)

Blocked(locks, t, k) ==
    \/ \E key \in k.reads : ~HasRead(locks[key], t)
    \/ \E key \in k.writes : ~HasWrite(locks[key], t)

ReleaseLocks(locks, t, k) ==
    [key \in Keys |->
        LET l == IF key \in k.reads THEN ReleaseRead(locks[key], t) ELSE locks[key] IN
        IF key \in k.writes THEN ReleaseWrite(l, t) ELSE l]

CleanupTxn(s, t, k) ==
    [s EXCEPT !.locks = ReleaseLocks(@, t, k), !.pending = [x \in DOMAIN @ \ {t} |-> @[x]]]

\* KVStore::put of each key that t writes, and KVStore::get of each that it reads.
Put(store, t, k) == [key \in Keys |-> IF key \in k.writes THEN t ELSE store[key]]
Get(store, k) == [key \in k.reads |-> store[key]]

\* PREPARE and INDEP read, INDEP and COMMIT write, all but PREPARE end the transaction.
ExecuteTransaction(s, t, k, type) ==
    With(IF type \in {"INDEP", "COMMIT"} THEN [s EXCEPT !.store = Put(@, t, k)] ELSE s,
         LAMBDA u : IF type # "PREPARE" /\ t \in DOMAIN u.pending THEN CleanupTxn(u, t, k)
                    ELSE u)

\* InvokeTransaction.  KVStore::get finds every key, so a transaction that is not
\* blocked commits.  The mode is MODE_LOCKING as long as a transaction is pending.
InvokeTransaction(s, t, ops, type) ==
    LET reads == type \in {"PREPARE", "INDEP"}
        lock == type = "PREPARE" \/ (type = "INDEP" /\ s.pending # << >>)
        Locked(k) == IF lock THEN [s EXCEPT !.locks = LockAll(s, t, k), !.pending = (t :> k) @@ @]
                     ELSE s
    IN  With(Kvtxn(s, t, IF reads THEN ops ELSE NoOps), LAMBDA k :
        With(Locked(k), LAMBDA u :
             IF lock /\ Blocked(u.locks, t, k)
             THEN [server |-> u, blocked |-> TRUE, reads |-> << >>]
             ELSE [server |-> ExecuteTransaction(u, t, k, type), blocked |-> FALSE,
                   reads |-> IF reads THEN Get(s.store, k) ELSE << >>]))
=============================================================================
