----------------------------- MODULE SourceTime ------------------------------
(***************************************************************************)
(* Times as the collector compares them: Unix milliseconds, plus Go's zero *)
(* time.Time, which is before every row of every database.                 *)
(***************************************************************************)
EXTENDS Integers

ZeroTime == -1
Time == Nat \cup {ZeroTime}

Earlier(a, b) == IF a < b THEN a ELSE b
Later(a, b) == IF a < b THEN b ELSE a
=============================================================================
