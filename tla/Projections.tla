----------------------------- MODULE Projections -----------------------------
(***************************************************************************)
(* The projections a batch carries besides its usage records: snapshots of *)
(* the sessions, projects, project directories and todos its records refer *)
(* to (reader.go, discovery.go, and the dedup functions of collector.go).  *)
(* Each is read by a query of its own after the records, from a table      *)
(* OpenCode goes on writing and migrating.  A projection is optional: its  *)
(* table or columns may be missing, its read may fail, and the batch goes  *)
(* without it.                                                             *)
(*                                                                         *)
(* One database in normal mode, one batch per cycle.  Its usage beyond the *)
(* cursor is a queue.                                                      *)
(***************************************************************************)
EXTENDS Naturals, Sequences, FiniteSets, Functions

CONSTANTS
    Session, Project,
    ProjectOf,      \* the project of each session, or NoProject
    NoProject,
    Key,            \* what tells an owner's rows apart: a path, a description; a
                    \* project row is the only one of its project
    Candidates,     \* rows OpenCode may store in each optional table
    Stages,         \* stages the schema of each optional table may be in
    MaxVersion,     \* bound on the versions of a session row
    MaxBacklog,     \* bound on the usage beyond the cursor
    BatchLimit

Blank == "blank"    \* an empty column; of a path, also one of blanks only
Optional == {"projects", "directories", "todos"}
Kind == {"contexts"} \cup Optional
Row == [owner : Session \cup Project, key : Key \cup {Blank}, version : Nat]
Usage == [session : Session, version : 0..MaxVersion]

\* What an optional table offers: nothing, its rows without the column that
\* holds the key, or its rows.
Stage == {"absent", "keyless", "full"}

ASSUME ProjectionsAssumption ==
    /\ ProjectOf \in [Session -> Project \cup {NoProject}]
    /\ Candidates \in [Optional -> SUBSET Row]
    /\ \A r \in Candidates["projects"] : r.key = Blank
    /\ Stages \in [Optional -> (SUBSET Stage) \ {{}}]
    /\ MaxVersion \in Nat /\ MaxBacklog \in Nat /\ BatchLimit \in Nat \ {0}

VARIABLES
    version,        \* the version of each session row
    table,          \* the rows of each optional table
    schema,         \* the stage of each optional table
    backlog,        \* usage beyond the cursor, each with the version its
                    \* session had when it was committed
    pc,             \* where the collector is
    dbInfo,         \* the stage of each optional table as inspected
    page,           \* the usage records in hand
    snapshot        \* the snapshots of each kind in hand

sourceVars == <<version, table, schema>>
passVars == <<pc, dbInfo, page, snapshot>>
vars == <<sourceVars, backlog, passVars>>

NoInfo == [k \in Optional |-> "absent"]
NoSnapshot == [k \in Kind |-> {}]

Init ==
    /\ version = [s \in Session |-> 0]
    /\ table = [k \in Optional |-> {}]
    /\ schema \in {f \in [Optional -> Stage] : \A k \in Optional : f[k] \in Stages[k]}
    /\ backlog = <<>>
    /\ pc = "down" /\ dbInfo = NoInfo /\ page = <<>> /\ snapshot = NoSnapshot
-----------------------------------------------------------------------------
(* OpenCode.                                                               *)

UpdateSession(s) ==
    /\ version[s] < MaxVersion
    /\ version' = [version EXCEPT ![s] = @ + 1]
    /\ UNCHANGED <<table, schema, backlog, passVars>>

Store(k, r) ==
    /\ r \notin table[k]
    /\ table' = [table EXCEPT ![k] = @ \cup {r}]
    /\ UNCHANGED <<version, schema, backlog, passVars>>

Delete(k, r) ==
    /\ r \in table[k]
    /\ table' = [table EXCEPT ![k] = @ \ {r}]
    /\ UNCHANGED <<version, schema, backlog, passVars>>

Migrate(k, stage) ==
    /\ schema' = [schema EXCEPT ![k] = stage]
    /\ UNCHANGED <<version, table, backlog, passVars>>

CommitUsage(s) ==
    /\ Len(backlog) < MaxBacklog
    /\ backlog' = Append(backlog, [session |-> s, version |-> version[s]])
    /\ UNCHANGED <<sourceVars, passVars>>
-----------------------------------------------------------------------------
(* Reading the tables.                                                     *)

\* uniqueSessionIDs and uniqueProjectIDs.
SessionsOf(records) == {records[i].session : i \in DOMAIN records}
ProjectsOf(records) == {ProjectOf[s] : s \in SessionsOf(records)} \ {NoProject}

Owners(k) == IF k \in {"contexts", "todos"} THEN SessionsOf(page) ELSE ProjectsOf(page)

\* The rows of the owners, as the query for a table inspected at this stage
\* returns them.
Queried(k, stage) ==
    CASE k = "contexts" -> {[owner |-> s, key |-> Blank, version |-> version[s]] :
                                s \in Owners(k)}
      [] k # "contexts" /\ stage = "absent" -> {}
      [] k # "contexts" /\ stage = "keyless" ->
            {[r EXCEPT !.key = Blank] : r \in {q \in table[k] : q.owner \in Owners(k)}}
      [] k # "contexts" /\ stage = "full" -> {r \in table[k] : r.owner \in Owners(k)}

\* The query names a table or column that is not there any more.
Misfit(k) ==
    /\ k \in Optional
    /\ \/ dbInfo[k] # "absent" /\ schema[k] = "absent"
       \/ dbInfo[k] = "full" /\ schema[k] = "keyless"

\* Only a directory may not be blank.
Sendable(k, r) == k = "directories" => r.key # Blank
SameKey(q, r) == q.owner = r.owner /\ q.key = r.key

\* Whether row i finds its key in the map, which the sendable rows before it filled.
\* (Fault: the map has the owners only.)
SeenOwner(k, rows, i) ==
    \E j \in 1..(i - 1) : Sendable(k, rows[j]) /\ rows[j].owner = rows[i].owner

Seen(k, rows, i) ==
    \E j \in 1..(i - 1) : Sendable(k, rows[j]) /\ SameKey(rows[j], rows[i])

\* The dedup functions: the first sendable row of each key is sent.
Dedup(k, rows) ==
    {rows[i] : i \in {j \in DOMAIN rows : Sendable(k, rows[j]) /\ ~Seen(k, rows, j)}}
-----------------------------------------------------------------------------
(* One cycle.                                                              *)

\* Faults: a page or a snapshot outlives its cycle.
KeepsPage == dbInfo' = NoInfo /\ snapshot' = NoSnapshot /\ UNCHANGED page
KeepsSnapshot == dbInfo' = NoInfo /\ page' = <<>> /\ UNCHANGED snapshot

\* Nothing is kept from one cycle to the next.
Dropped == dbInfo' = NoInfo /\ page' = <<>> /\ snapshot' = NoSnapshot

\* The cycle is over for this database.
Return == pc' = "idle" /\ Dropped /\ UNCHANGED sourceVars

\* detectOptionalTable swallows its errors: a table it cannot look up is absent,
\* and one whose columns it cannot list has none of the optional ones.
Detectable(k) ==
    {schema[k], "absent"} \cup (IF schema[k] = "absent" THEN {} ELSE {"keyless"})

Inspect(seen) ==
    /\ pc = "idle"
    /\ \A k \in Optional : seen[k] \in Detectable(k)
    /\ dbInfo' = seen
    /\ pc' = "records"
    /\ UNCHANGED <<sourceVars, backlog, page, snapshot>>

ReadNothing ==
    /\ pc = "records" /\ backlog = <<>>
    /\ Return /\ UNCHANGED backlog

ReadRecords ==
    /\ pc = "records" /\ backlog # <<>>
    /\ page' = SubSeq(backlog, 1, IF Len(backlog) < BatchLimit THEN Len(backlog)
                                                               ELSE BatchLimit)
    /\ pc' = "contexts"
    /\ UNCHANGED <<sourceVars, backlog, dbInfo, snapshot>>

Following ==
    [contexts |-> "projects", projects |-> "directories", directories |-> "todos",
     todos |-> "send"]

\* The query states no order: its rows come in any.
Orders(rows) == {f \in [1..Cardinality(rows) -> rows] : IsInjective(f)}

Read(k) ==
    /\ pc = k
    /\ ~Misfit(k)
    /\ \E rows \in Orders(Queried(k, IF k \in Optional THEN dbInfo[k] ELSE "full")) :
        snapshot' = [snapshot EXCEPT ![k] = Dedup(k, rows)]
    /\ pc' = Following[k]
    /\ UNCHANGED <<sourceVars, backlog, dbInfo, page>>

\* Fault: an error ends the cycle for the database.
ReadFailsFatally(k) ==
    /\ pc = k
    /\ Return /\ UNCHANGED backlog

\* The error is dropped.
ReadFails(k) ==
    /\ pc = k
    /\ snapshot' = [snapshot EXCEPT ![k] = {}]
    /\ pc' = Following[k]
    /\ UNCHANGED <<sourceVars, backlog, dbInfo, page>>

\* The Gateway refuses a batch with an empty directory, whatever else is in it.
Poisoned == \E r \in snapshot["directories"] : r.key = Blank

SendAccepted ==
    /\ pc = "send" /\ ~Poisoned
    /\ pc' = "acked"
    /\ UNCHANGED <<sourceVars, backlog, dbInfo, page, snapshot>>

Advance ==
    /\ pc = "acked"
    /\ backlog' = SubSeq(backlog, Len(page) + 1, Len(backlog))
    /\ Return

\* The read of the records, the call or the save fails.  (A save that has moved the
\* cursor in memory before it failed is an Advance here; that a restart may take it
\* back is Collector's.)
Fails ==
    /\ pc \in {"records", "send", "acked"}
    /\ Return /\ UNCHANGED backlog

Crash ==
    /\ pc # "down"
    /\ pc' = "down"
    /\ Dropped
    /\ UNCHANGED <<sourceVars, backlog>>

Start ==
    /\ pc = "down"
    /\ pc' = "idle"
    /\ UNCHANGED <<sourceVars, backlog, dbInfo, page, snapshot>>
-----------------------------------------------------------------------------
OpenCode ==
    \/ \E s \in Session : UpdateSession(s) \/ CommitUsage(s)
    \/ \E k \in Optional :
        \/ \E r \in Candidates[k] : Store(k, r) \/ Delete(k, r)
        \/ \E stage \in Stages[k] : Migrate(k, stage)

Inspection == \E seen \in [Optional -> Stage] : Inspect(seen)

Reading == \E k \in Kind : Read(k) \/ ReadFails(k)

Cycle ==
    \/ Start \/ Inspection \/ ReadNothing \/ ReadRecords \/ Reading
    \/ SendAccepted \/ Advance \/ Fails

Next == OpenCode \/ Cycle \/ Crash

\* The process is eventually left alone and its loop does not stop.  What may fail
\* (reading the records, sending, saving) works again and again; that a projection
\* is ever read is not assumed.
Fairness ==
    /\ <>[][pc' = "down" => pc = "down"]_vars
    /\ WF_vars(Cycle)
    /\ SF_vars(ReadRecords) /\ SF_vars(SendAccepted) /\ SF_vars(Advance)

Spec == Init /\ [][Next]_vars /\ Fairness
-----------------------------------------------------------------------------
(* Properties.                                                             *)

\* The types, and that the page in hand is the front of the backlog.
TypeOK ==
    /\ version \in [Session -> 0..MaxVersion]
    /\ table \in [Optional -> SUBSET Row]
    /\ schema \in [Optional -> Stage] /\ dbInfo \in [Optional -> Stage]
    /\ backlog \in Seq(Usage)
    /\ pc \in {"idle", "records", "send", "acked", "down"} \cup Kind
    /\ page \in Seq(Usage)
    /\ Len(page) <= Len(backlog)
    /\ \A i \in DOMAIN page : page[i] = backlog[i]
    /\ snapshot \in [Kind -> SUBSET Row]

\* The context sent with a usage record is no older than the session was when that
\* usage was committed: the records are read first (collector.go:446, 498).
ContextNotOlder ==
    \A i \in DOMAIN page, r \in snapshot["contexts"] :
        r.owner = page[i].session => r.version >= page[i].version

\* Usage is delivered although no projection can ever be read: their errors hold
\* nothing up, and nothing they contain gets a batch refused (collector.go:498-501).
UsageNotDelayed ==
    <>[](backlog # <<>>) => []<><<Advance>>_vars

\* A row that stays, alone with its key, in a table that stays whole is sent again
\* and again as long as its session or project is used and its table can be
\* inspected and read: a table that came with a migration needs no restart
\* (collector.go:319, 498-501, discovery.go:100-108).
Settled(k, r) ==
    /\ schema[k] = "full" /\ r \in table[k]
    /\ \A q \in table[k] : SameKey(q, r) => q = r

Uses(s, k, r) == r.owner \in {s, ProjectOf[s]}

SnapshotsConverge ==
    \A k \in Optional : \A r \in {c \in Candidates[k] : Sendable(k, c)} :
        /\ <>[]Settled(k, r)
        /\ []<><<\E s \in Session : Uses(s, k, r) /\ CommitUsage(s)>>_vars
        /\ <>[][/\ pc = k /\ pc' # "down" => Read(k)
                /\ Inspection => dbInfo'[k] = schema[k]]_vars
        => []<><<SendAccepted /\ r \in snapshot[k]>>_vars
=============================================================================
