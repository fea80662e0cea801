----------------------------- MODULE LockServer -----------------------------
(***************************************************************************)
(* LockServer as an object of its own: the lock of one key (the locks of   *)
(* two keys share nothing) and requesters that call its four operations in *)
(* any order, as the tests and the transaction servers do.  With retryLock *)
(* a release leaves the waiters alone, who ask again; without, it hands    *)
(* the lock on to them.                                                    *)
(***************************************************************************)
EXTENDS Locks

VARIABLES
  lock,       \* the lock
  retryLock,  \* the argument of the constructor
  dead        \* the process has failed an ASSERT

lockVars == <<lock, retryLock, dead>>

InitLock ==
    /\ lock = Free
    /\ retryLock \in BOOLEAN
    /\ dead = FALSE

-----------------------------------------------------------------------------

\* One turn of the loop of TryAcquireForWaiters, for the head of the queue.  x.going: the
\* loop has not ended; x.empty: the queue was empty when its front was read.
AcquireForHead(x) ==
    LET w == Head(x.lock.waitQ)
        wants == x.lock.waiters[w]
        a == IF "write" \in wants THEN LockForWrite(x.lock, w) ELSE x.lock
        b == IF "read" \in wants THEN LockForRead(a, w) ELSE a
        acquired == /\ "write" \in wants => HasWrite(a, w)
                    /\ "read" \in wants => HasRead(b, w)
        left == IF b.waitQ # << >> /\ Head(b.waitQ) = w
                THEN [b EXCEPT !.waitQ = Tail(@), !.waiters[w] = {}] ELSE b
    IN  IF ~x.going \/ x.lock.waitQ = << >> THEN x
        ELSE IF acquired THEN [lock |-> left, going |-> TRUE, empty |-> x.empty \/ b.waitQ = << >>]
        ELSE [lock |-> b, going |-> FALSE, empty |-> x.empty]

\* Every turn that goes on takes the head out of the queue: as many turns as it is long.
TryAcquireForWaiters(l) ==
    LET after[k \in 0 .. Len(l.waitQ)] ==
            IF k = 0 THEN [lock |-> l, going |-> TRUE, empty |-> FALSE]
            ELSE AcquireForHead(after[k - 1])
    IN  after[Len(l.waitQ)]

\* The rest of releaseForRead and releaseForWrite.  The front of an empty queue is
\* whatever memory holds: if it is the waiter, the ASSERT after the pop fails.
HandOn(l) ==
    IF retryLock THEN lock' = l /\ dead' = FALSE
    ELSE LET x == TryAcquireForWaiters(l) IN
         /\ lock' = x.lock
         /\ dead' \in IF x.empty THEN BOOLEAN ELSE {FALSE}

-----------------------------------------------------------------------------

lockForRead(t) ==
    /\ lock' = LockForRead(lock, t)
    /\ UNCHANGED <<retryLock, dead>>

lockForWrite(t) ==
    /\ lock' = LockForWrite(lock, t)
    /\ UNCHANGED <<retryLock, dead>>

releaseForRead(t) ==
    LET l == ReleaseRead(lock, t) IN
    /\ IF l.state = "UNLOCKED" /\ lock.state # "UNLOCKED" THEN HandOn(l)
       ELSE lock' = l /\ UNCHANGED dead
    /\ UNCHANGED retryLock

releaseForWrite(t) ==
    LET l == ReleaseWrite(lock, t) IN
    /\ IF HasWrite(lock, t) THEN HandOn(l) ELSE lock' = l /\ UNCHANGED dead
    /\ UNCHANGED retryLock

NextLock ==
    /\ ~dead
    /\ \E t \in Txns :
         \/ lockForRead(t)
         \/ lockForWrite(t)
         \/ releaseForRead(t)
         \/ releaseForWrite(t)

SpecLock == InitLock /\ [][NextLock]_lockVars

-----------------------------------------------------------------------------

\* The fields have values of their types.
LockType ==
    /\ lock \in [state : LockStates, holders : SUBSET Txns, waitQ : Seq(Txns),
                 waiters : [Txns -> SUBSET {"read", "write"}]]
    /\ retryLock \in BOOLEAN
    /\ dead \in BOOLEAN

\* Whoever holds a write lock holds it alone, a free lock has no holder and a read lock
\* has one: the ASSERTs on l.holders.size() in lockForRead, lockForWrite and
\* releaseForWrite (lockserver.cc).
Exclusive ==
    /\ lock.state \in {"WRITE", "READ_WRITE"} => \E t \in Txns : lock.holders = {t}
    /\ lock.state = "UNLOCKED" => lock.holders = {}
    /\ lock.state = "READ" => lock.holders # {}

\* A requester has one place in the queue exactly if it has an entry in waiters: the
\* ASSERTs on waiters.count in tryAcquireLock, isWriteNext and TryAcquireForWaiters.
QueueIsOfWaiters ==
    /\ \A t \in Txns : lock.waiters[t] # {} <=> \E i \in DOMAIN lock.waitQ : lock.waitQ[i] = t
    /\ \A i, j \in DOMAIN lock.waitQ : lock.waitQ[i] = lock.waitQ[j] => i = j

\* Nobody passes a writer at the head of the queue: while it waits, no other requester
\* becomes a holder (isWriteNext, tryAcquireLock).
HeadIsNotOvertaken ==
    [][lock.waitQ # << >> /\ "write" \in lock.waiters[Head(lock.waitQ)] =>
       lock'.holders \subseteq lock.holders \cup {Head(lock.waitQ)}]_lockVars
=============================================================================
