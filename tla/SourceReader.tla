---------------------------- MODULE SourceReader ----------------------------
(***************************************************************************)
(* What one read of a source database returns (internal/sqlite/reader.go). *)
(* A row is a usage message that passes the reader's JSON filter, reduced  *)
(* to the two columns paging depends on: its id and time_updated, the      *)
(* latter in Unix milliseconds.  Ids are opaque strings compared with the  *)
(* column's collation; here they are positive numbers with the same order. *)
(* A database is the set of its rows, a page the set of rows returned.     *)
(*                                                                         *)
(* A definition marked "fault" is one this code could have by mistake: it   *)
(* is part of no specification and shows what the properties notice.       *)
(***************************************************************************)
EXTENDS SourceTime, FiniteSets

CONSTANTS
    Id,             \* message ids
    BatchLimit      \* rows per page (config.BatchLimit)

ASSUME IdAssumption == Id \subseteq Nat \ {0}
ASSUME BatchLimitAssumption == BatchLimit \in Nat \ {0}

NoID == 0           \* the empty afterID
Row == [id : Id, ts : Nat]

\* ORDER BY m.time_updated ASC, m.id ASC
Before(q, r) == q.ts < r.ts \/ (q.ts = r.ts /\ q.id < r.id)

\* (m.time_updated, m.id) > (since, afterID), the row-value comparison
Beyond(r, since, afterID) == r.ts > since \/ (r.ts = since /\ r.id > afterID)

\* ReadRecordsWindow passes a zero until as 0, and 0 disables the upper bound;
\* an until of exactly the Unix epoch therefore disables it too.
Unbounded(until) == until \in {ZeroTime, 0}

\* The rows the WHERE clause of each statement selects.
RecordsSince(rows, since) == {r \in rows : r.ts > since}

AfterTimeOnly(rows, since, afterID) == RecordsSince(rows, since)  \* fault
AfterInclusive(rows, since, afterID) == {r \in rows : r.ts >= since} \* fault
RecordsAfter(rows, since, afterID) == {r \in rows : Beyond(r, since, afterID)}

RecordsWindow(rows, since, until, afterID) ==
    {r \in IF afterID = NoID THEN RecordsSince(rows, since)
                             ELSE RecordsAfter(rows, since, afterID) :
        Unbounded(until) \/ r.ts <= until}

\* The last element of a page, which is ordered by Before.
IsLast(page, r) == r \in page /\ \A q \in page \ {r} : Before(q, r)
LastRecord(page) == CHOOSE r \in page : IsLast(page, r)

\* LIMIT: a page is a prefix of the selected rows, cut at BatchLimit.
IsPage(page, selected) ==
    /\ page \subseteq selected
    /\ \A r \in page, q \in selected \ page : Before(r, q)
    /\ page = selected \/ Cardinality(page) = BatchLimit
    /\ Cardinality(page) <= BatchLimit
    /\ page # {} => \E r \in page : IsLast(page, r)
=============================================================================
