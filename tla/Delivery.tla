------------------------------ MODULE Delivery ------------------------------
(***************************************************************************)
(* What the collection loop promises the Gateway of each database, with no *)
(* process, pages or replay in it: rows are delivered in any order and any *)
(* number of times, and a mark, a position delivery may be resumed after,  *)
(* goes wherever it likes, forwards or back, as long as it stays within    *)
(* what was delivered and leaves behind only rows that were delivered or   *)
(* that came too late to be seen.                                          *)
(***************************************************************************)
EXTENDS SourceReader

CONSTANTS DB, CommitLag

VARIABLES
    now, source,    \* the clock and the rows of each database
    acked,          \* the rows the Gateway has processed
    marks           \* the positions of each database

vars == <<now, source, acked, marks>>

Init ==
    /\ now = 0
    /\ source = [d \in DB |-> {}]
    /\ acked = [d \in DB |-> {}]
    /\ marks = [d \in DB |-> {ZeroTime}]

Clock == now' = now + 1 /\ UNCHANGED <<source, acked, marks>>

\* A row is committed, or replaces an older version of itself.
Commit(d, id, ts) ==
    /\ ts >= now - CommitLag
    /\ \A r \in source[d] : r.id = id => r.ts < ts
    /\ source' = [source EXCEPT ![d] =
                    {r \in @ : r.id # id} \cup {[id |-> id, ts |-> ts]}]
    /\ UNCHANGED <<now, acked, marks>>

\* The row, or the version of it that was read, is one of the database.
Known(d, r) == \E q \in source[d] : q.id = r.id /\ r.ts <= q.ts

\* Rows of one database are delivered.
Deliver(d) ==
    /\ acked[d] \subseteq acked'[d] /\ acked'[d] \subseteq Row
    /\ \A r \in acked'[d] \ acked[d] : Known(d, r)
    /\ acked' = [acked EXCEPT ![d] = acked'[d]]
    /\ UNCHANGED <<now, source, marks>>

\* A delivered row ties with this one, or follows it within the commit lag, so that
\* this one may have been committed after that one was read.
Overtaken(d, r) ==
    \E q \in acked[d] : r.ts <= q.ts /\ q.ts <= r.ts + CommitLag

LeftBehind(d, c) == {r \in source[d] : r.ts <= c}

\* A position no later than a delivered row.  One further on would leave behind
\* rows that are still to come.
Reached(d, c) == c = ZeroTime \/ \E q \in acked[d] : c <= q.ts

Move ==
    /\ marks' \in [DB -> SUBSET Time]
    /\ \A d \in DB : \A c \in marks'[d] :
        /\ Reached(d, c)
        /\ \A r \in LeftBehind(d, c) : r \in acked[d] \/ Overtaken(d, r)
    /\ UNCHANGED <<now, source, acked>>

Next ==
    \/ Clock \/ Move
    \/ \E d \in DB : Deliver(d) \/ \E id \in Id, ts \in 0..now : Commit(d, id, ts)

Spec == Init /\ [][Next]_vars
-----------------------------------------------------------------------------
\* Resuming delivery after any mark, at any time, misses no row but those that a
\* delivered row ties with or follows within the commit lag: rows that are committed
\* after the mark was moved are no exception (collector.go:646-654).
NothingLeftBehind ==
    \A d \in DB : \A c \in marks[d] : \A r \in LeftBehind(d, c) :
        r \in acked[d] \/ Overtaken(d, r)
=============================================================================
