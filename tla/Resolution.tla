----------------------------- MODULE Resolution ------------------------------
(***************************************************************************)
(* Which databases a cycle works on, and under which identity              *)
(* (Collector.resolveDatabases, internal/exclusion/gate.go,                *)
(* internal/identity/identity.go).  For every database path the cursor     *)
(* directory holds at most one exclusion file, written when inspection     *)
(* fails and read to skip the database until its recheck is due, and one   *)
(* identity file with the Source Database ID all its data is sent under.   *)
(* Both are written in place, so a failed or interrupted write leaves a    *)
(* file that does not parse.                                               *)
(***************************************************************************)
EXTENDS Integers, FiniteSets

CONSTANTS
    DB,             \* database paths
    NoDB,           \* no path is being resolved
    MaxIdentities   \* bound on the UUIDs generated in a behaviour

ASSUME NoDBAssumption == NoDB \notin DB
ASSUME MaxIdentitiesAssumption == MaxIdentities \in Nat

NoIdentity == 0     \* there is no identity file
Torn == -1          \* the identity file does not parse
UUID == Nat \ {0}   \* generated identities, in the order they were generated

VARIABLES
    healthy,        \* databases that would pass an undisturbed inspection
    gate,           \* the exclusion file of each database
    identity,       \* the identity file of each database
    issued,         \* number of UUIDs generated
    pc,             \* where resolveDatabases is
    todo,           \* paths not resolved yet
    cur,            \* the path being resolved
    excluded,       \* resolveDatabases: cur has an exclusion file
    resolved,       \* databases resolved in this cycle
    used            \* history: the identities each database was resolved under

files == <<gate, identity, issued>>
vars == <<healthy, files, pc, todo, cur, excluded, resolved, used>>

\* The loop moves on to the next path.  (Fault: without clearing the old one.)
ContinueDirty ==
    /\ pc' = "paths"
    /\ UNCHANGED <<cur, excluded>>

Continue ==
    /\ pc' = "paths"
    /\ cur' = NoDB
    /\ excluded' = FALSE

Init ==
    /\ healthy \in SUBSET DB
    /\ gate = [d \in DB |-> "none"]
    /\ identity = [d \in DB |-> NoIdentity]
    /\ issued = 0
    /\ pc = "idle" /\ todo = {} /\ cur = NoDB /\ excluded = FALSE
    /\ resolved = {}
    /\ used = [d \in DB |-> {}]
-----------------------------------------------------------------------------
\* A database starts or ceases to have a schema the collector accepts.
Mend(d) ==
    /\ healthy' = IF d \in healthy THEN healthy \ {d} ELSE healthy \cup {d}
    /\ UNCHANGED <<files, pc, todo, cur, excluded, resolved, used>>

\* The recheck interval of an exclusion passes.
Elapse(d) ==
    /\ gate[d] = "waiting"
    /\ gate' = [gate EXCEPT ![d] = "due"]
    /\ UNCHANGED <<healthy, identity, issued, pc, todo, cur, excluded, resolved, used>>

\* DiscoverDatabases finds them all, or SQLitePath names one.
Discover ==
    /\ pc = "idle"
    /\ pc' = "paths"
    /\ todo' = DB
    /\ resolved' = {}
    /\ UNCHANGED <<healthy, files, cur, excluded, used>>

\* Walk meets an entry it cannot read, or one that vanished after its directory was
\* listed.  The error ends the whole cycle, no database is resolved, also none of
\* those Walk had already found.
WalkFails ==
    /\ pc = "idle"
    /\ resolved' = {}
    /\ UNCHANGED <<healthy, files, pc, todo, cur, excluded, used>>

\* IsExcluded and RecheckDue.  A file that does not parse excludes nothing.
\* (Fault: no file that is there is ever looked at again.)
SkipExcluded(d) ==
    /\ pc = "paths" /\ d \in todo
    /\ gate[d] # "none"
    /\ todo' = todo \ {d}
    /\ UNCHANGED <<healthy, files, pc, cur, excluded, resolved, used>>

Skip(d) ==
    /\ pc = "paths" /\ d \in todo
    /\ gate[d] = "waiting"
    /\ todo' = todo \ {d}
    /\ UNCHANGED <<healthy, files, pc, cur, excluded, resolved, used>>

Admit(d, isExcluded) ==
    /\ pc = "paths" /\ d \in todo
    /\ todo' = todo \ {d}
    /\ cur' = d
    /\ excluded' = isExcluded
    /\ pc' = "inspect"
    /\ UNCHANGED <<healthy, files, resolved, used>>

Check(d) ==
    \/ gate[d] \in {"none", "corrupt"} /\ Admit(d, FALSE)
    \/ gate[d] = "due" /\ Admit(d, TRUE)

\* The exclusion file cannot be read: IsExcluded fails and the path counts as
\* not excluded, or RecheckDue fails and it does; it is inspected either way.
CheckFails(d) ==
    \/ gate[d] \in {"waiting", "due"} /\ Admit(d, FALSE)
    \/ gate[d] = "waiting" /\ Admit(d, TRUE)

InspectionPasses ==
    /\ pc = "inspect" /\ cur \in healthy
    /\ pc' = IF excluded THEN "remove" ELSE "identify"
    /\ UNCHANGED <<healthy, files, todo, cur, excluded, resolved, used>>

\* Also for a database that is only busy or unreadable at the moment.
InspectionFails ==
    /\ pc = "inspect"
    /\ pc' = "exclude"
    /\ UNCHANGED <<healthy, files, todo, cur, excluded, resolved, used>>

\* Gate.Exclude, its error logged: the file is written with a new recheck time,
\* not at all, or in part.
ExcludeAs(outcome) ==
    /\ pc = "exclude"
    /\ gate' = [gate EXCEPT ![cur] = outcome]
    /\ Continue
    /\ UNCHANGED <<healthy, identity, issued, todo, resolved, used>>

Exclude == ExcludeAs("waiting")
ExcludeFails ==
    /\ pc = "exclude"
    /\ \E outcome \in {gate[cur], "corrupt"} \ {"waiting"} : ExcludeAs(outcome)

\* Gate.Remove, its error logged.
Remove ==
    /\ pc = "remove"
    /\ \E left \in {"none", gate[cur]} : gate' = [gate EXCEPT ![cur] = left]
    /\ pc' = "identify"
    /\ UNCHANGED <<healthy, identity, issued, todo, cur, excluded, resolved, used>>

\* GetOrCreateIdentity returns an id: the one on file, or a new one it stored.
Resolve(id) ==
    /\ resolved' = resolved \cup {cur}
    /\ used' = [used EXCEPT ![cur] = @ \cup {id}]
    /\ Continue

ReadIdentity ==
    /\ pc = "identify" /\ identity[cur] \in UUID
    /\ Resolve(identity[cur])
    /\ UNCHANGED <<healthy, files, todo>>

\* Fault: the identity on file is not looked up.
CreateAlways ==
    /\ pc = "identify"
    /\ issued < MaxIdentities
    /\ issued' = issued + 1
    /\ identity' = [identity EXCEPT ![cur] = issued + 1]
    /\ Resolve(issued + 1)
    /\ UNCHANGED <<healthy, gate, todo>>

CreateIdentity ==
    /\ pc = "identify" /\ identity[cur] = NoIdentity
    /\ issued < MaxIdentities
    /\ issued' = issued + 1
    /\ identity' = [identity EXCEPT ![cur] = issued + 1]
    /\ Resolve(issued + 1)
    /\ UNCHANGED <<healthy, gate, todo>>

\* What the call leaves on file when it fails or is cut off: the file as it was or,
\* where there was none, a part of a new identity or all of it.
LeaveIdentity ==
    \/ UNCHANGED <<identity, issued>>
    \/ /\ identity[cur] = NoIdentity
       /\ identity' = [identity EXCEPT ![cur] = Torn]
       /\ UNCHANGED issued
    \/ /\ identity[cur] = NoIdentity
       /\ issued < MaxIdentities
       /\ issued' = issued + 1
       /\ identity' = [identity EXCEPT ![cur] = issued + 1]

\* GetOrCreateIdentity returns an error and the database is left out.  A file
\* that does not parse always ends here: the error of reading it is nil, which
\* is not "file does not exist".  So does a file that cannot be read now, and a
\* new identity whose write reported an error, whatever it wrote.
IdentityFails ==
    /\ pc = "identify"
    /\ LeaveIdentity
    /\ Continue
    /\ UNCHANGED <<healthy, gate, todo, resolved, used>>

\* The databases are handed to the collection loop.
Finish ==
    /\ pc = "paths" /\ todo = {}
    /\ pc' = "idle"
    /\ UNCHANGED <<healthy, files, todo, cur, excluded, resolved, used>>

\* The process dies, possibly in the middle of a write, and is started again.
Dead ==
    /\ pc # "down"
    /\ pc' = "down" /\ todo' = {} /\ cur' = NoDB /\ excluded' = FALSE /\ resolved' = {}
    /\ UNCHANGED <<healthy, used>>

Crash == Dead /\ UNCHANGED files

CrashInWrite ==
    /\ Dead
    /\ \/ /\ pc = "exclude"
          /\ gate' = [gate EXCEPT ![cur] = "corrupt"]
          /\ UNCHANGED <<identity, issued>>
       \/ pc = "identify" /\ LeaveIdentity /\ UNCHANGED gate

Start ==
    /\ pc = "down"
    /\ pc' = "idle"
    /\ UNCHANGED <<healthy, files, todo, cur, excluded, resolved, used>>
-----------------------------------------------------------------------------
Path(d) == Skip(d) \/ Check(d)

Resolving ==
    \/ Start \/ Discover \/ Finish
    \/ \E d \in DB : Path(d)
    \/ InspectionPasses \/ Remove \/ ReadIdentity \/ CreateIdentity
    \/ pc = "inspect" /\ cur \notin healthy /\ InspectionFails
    \/ Exclude
    \/ pc = "identify" /\ identity[cur] = Torn /\ IdentityFails

Disturbance ==
    \/ Crash \/ CrashInWrite \/ WalkFails \/ ExcludeFails
    \/ \E d \in DB : CheckFails(d)
    \/ pc = "inspect" /\ cur \in healthy /\ InspectionFails
    \/ pc = "identify" /\ identity[cur] # Torn /\ IdentityFails

Next ==
    \/ \E d \in DB : Mend(d) \/ Elapse(d)
    \/ Resolving \/ Disturbance

Spec == Init /\ [][Next]_vars

\* Crashes and failing reads and writes end, databases stop changing, the loop
\* keeps running and recheck intervals pass.
Fairness ==
    /\ <>[][~Disturbance /\ healthy' = healthy]_vars
    /\ WF_vars(Resolving)
    /\ \A d \in DB : WF_vars(Elapse(d))

FairSpec == Spec /\ Fairness
-----------------------------------------------------------------------------
TypeOK ==
    /\ healthy \subseteq DB
    /\ gate \in [DB -> {"none", "waiting", "due", "corrupt"}]
    /\ identity \in [DB -> Nat \cup {Torn}]
    /\ issued \in Nat
    /\ pc \in {"down", "idle", "paths", "inspect", "exclude", "remove", "identify"}
    /\ todo \subseteq DB /\ resolved \subseteq DB
    /\ cur \in DB \cup {NoDB}
    /\ pc \in {"down", "idle", "paths"} <=> cur = NoDB
    /\ excluded \in BOOLEAN
    /\ used \in [DB -> SUBSET UUID]

\* Whatever crashes and failing writes do, a database is only ever resolved under
\* the one identity that is in its file: after a restart its records continue
\* under the Source Database ID they began with (identity.go:29-32).
IdentityDurable ==
    \A d \in DB : used[d] \subseteq {identity[d]}

\* A database that stays acceptable is resolved again and again, whatever its
\* exclusion file went through: exclusions end, and corrupt ones exclude
\* nothing.  Only a torn identity file keeps it out (collector.go:275-279).
EventuallyResolved ==
    \A d \in DB :
        <>[](d \in healthy /\ identity[d] # Torn) => []<>(d \in resolved)

\* "If parse fails, fall through to generate a new one" (identity.go:56): a torn
\* identity file is replaced in the end.
TornIdentityReplaced ==
    \A d \in DB : [](d \in healthy) => (identity[d] = Torn ~> identity[d] # Torn)
=============================================================================
