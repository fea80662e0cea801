------------------------------ MODULE Log ------------------------------
(***************************************************************************)
(* The replica log of src/common/log.cc and src/common/log-impl.h, as the  *)
(* viewstamped-replication replica uses it: no hash chain, first operation *)
(* number 1.  A log is a sequence of entries [view, req]; the operation    *)
(* number of an entry is its index, which is what Log::Find asserts and    *)
(* Log::Append enforces.  The entry state PREPARED/COMMITTED is left out:  *)
(* it is COMMITTED exactly up to the replica's lastCommitted, and nothing  *)
(* reads it elsewhere.                                                     *)
(***************************************************************************)
EXTENDS Integers, Sequences, FiniteSetsExt

\* Log::Find: is there an entry with this operation number?
Found(log, op) == op \in 1 .. Len(log)

\* Log::Append takes only the next operation number (an ASSERT).
MayAppend(log, op) == op = Len(log) + 1

\* Log::RemoveAfter drops the entries from op on, op included.
RemoveAfter(log, op) ==
    IF op > Len(log) THEN log ELSE SubSeq(log, 1, op - 1)

\* Log::LastViewstamp of a log that may be empty.
LastViewstamp(log) ==
    IF log = << >> THEN [view |-> 0, op |-> 0]
                   ELSE [view |-> log[Len(log)].view, op |-> Len(log)]

\* Log::Dump(from): the entries from max(from, 1) to the end, with the
\* operation number of the first.
Dump(log, from) ==
    LET first == Max({from, 1}) IN
    [first |-> first, entries |-> SubSeq(log, first, Len(log))]

\* The positions in a dump where the log has no entry, or one of another view.
Divergence(log, dump) ==
    {k \in 1 .. Len(dump.entries) :
        LET op == dump.first + k - 1 IN
        ~Found(log, op) \/ log[op].view # dump.entries[k].view}

\* Log::Install: keep the log up to the first divergence, then append the rest
\* of the dump.  A dump that does not diverge leaves a longer log as it is.
Install(log, dump) ==
    IF Divergence(log, dump) = {} THEN log
    ELSE LET k == Min(Divergence(log, dump)) IN
         RemoveAfter(log, dump.first + k - 1)
            \o SubSeq(dump.entries, k, Len(dump.entries))
=============================================================================
