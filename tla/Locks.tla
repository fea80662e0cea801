-------------------------------- MODULE Locks --------------------------------
(***************************************************************************)
(* One lock of LockServer, transaction/common/backend/lockserver.cc.  A    *)
(* requester is a transaction; waitQ is the queue of the requesters that   *)
(* wait, and waiters[t] what t waits for: a subset of {"read", "write"},   *)
(* empty if t has no entry.  lockForRead and lockForWrite are operators    *)
(* from the lock they find to the lock they leave; what they return is     *)
(* whether the requester then has the lock, HasRead and HasWrite.          *)
(***************************************************************************)
EXTENDS Sequences, FiniteSets, Integers

CONSTANT Txns   \* the requesters

LockStates == {"UNLOCKED", "READ", "WRITE", "READ_WRITE"}

\* A Lock as it is constructed.
Free == [state |-> "UNLOCKED", holders |-> {}, waitQ |-> << >>, waiters |-> [t \in Txns |-> {}]]

HasRead(l, t) == t \in l.holders
HasWrite(l, t) == t \in l.holders /\ l.state \in {"WRITE", "READ_WRITE"}

\* Mutant: a requester that asks again is queued again.
WaitTwice(l, t, what) ==
    [l EXCEPT !.waitQ = Append(@, t), !.waiters[t] = @ \cup {what}]

\* A requester has one place in the queue: if it waits already, only what it waits
\* for grows.
WaitForLock(l, t, what) ==
    [l EXCEPT !.waitQ = IF l.waiters[t] = {} THEN Append(@, t) ELSE @,
              !.waiters[t] = @ \cup {what}]

\* A free lock is reserved for the head of the queue; another requester waits.
TryAcquireLock(l, t, what, state) ==
    IF l.waitQ = << >> THEN [l EXCEPT !.state = state, !.holders = @ \cup {t}]
    ELSE IF Head(l.waitQ) = t
    THEN [l EXCEPT !.state = state, !.holders = @ \cup {t}, !.waitQ = Tail(@),
                   !.waiters[t] = {}]
    ELSE WaitForLock(l, t, what)

\* Mutant: readers join a read lock whoever waits.
IsWriteNextNever(l) == FALSE

IsWriteNext(l) == l.waitQ # << >> /\ "write" \in l.waiters[Head(l.waitQ)]

LockForRead(l, t) ==
    IF l.state = "UNLOCKED" THEN TryAcquireLock(l, t, "read", "READ")
    ELSE IF t \in l.holders
    THEN [l EXCEPT !.state = IF @ = "WRITE" THEN "READ_WRITE" ELSE @]
    ELSE IF l.state = "READ" /\ ~IsWriteNext(l) THEN [l EXCEPT !.holders = @ \cup {t}]
    ELSE WaitForLock(l, t, "read")

\* Mutant: a reader that holds the lock may upgrade it beside other readers.
UpgradesBesideReaders(l, t) == l.state = "READ" /\ t \in l.holders

\* A read lock becomes a read-write lock if the requester is its one holder.
Upgrades(l, t) == l.state = "READ" /\ l.holders = {t}

LockForWrite(l, t) ==
    IF l.state = "UNLOCKED" THEN TryAcquireLock(l, t, "write", "WRITE")
    ELSE IF Upgrades(l, t) THEN [l EXCEPT !.state = "READ_WRITE"]
    ELSE IF HasWrite(l, t) THEN l
    ELSE WaitForLock(l, t, "write")

\* releaseForRead and releaseForWrite up to the call of TryAcquireForWaiters.
ReleaseRead(l, t) ==
    IF t \notin l.holders \/ l.state \notin {"READ", "READ_WRITE"} THEN l
    ELSE IF l.state = "READ_WRITE" THEN [l EXCEPT !.state = "WRITE"]
    ELSE [l EXCEPT !.holders = @ \ {t},
                   !.state = IF l.holders = {t} THEN "UNLOCKED" ELSE "READ"]

ReleaseWrite(l, t) ==
    IF ~HasWrite(l, t) THEN l
    ELSE IF l.state = "READ_WRITE" THEN [l EXCEPT !.state = "READ"]
    ELSE [l EXCEPT !.holders = @ \ {t}, !.state = "UNLOCKED"]
=============================================================================
