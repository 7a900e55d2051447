---------------------------- MODULE MCProjections ----------------------------
(* Values for the constants of Projections that a .cfg cannot write down.   *)
EXTENDS Projections

\* Every session belongs to one project.
OneProject == [s \in Session |-> CHOOSE p \in Project : TRUE]

\* A directory without a path and one row of each path; the table comes and goes,
\* and so does its path column.  The other optional tables are read in the same way,
\* without the filter, and stay empty.
SomeRows ==
    [k \in Optional |-> IF k # "directories" THEN {} ELSE
        [owner : Project, key : Key \cup {Blank}, version : {0}]]

SomeStages == [k \in Optional |-> IF k = "directories" THEN Stage ELSE {"full"}]
=============================================================================
