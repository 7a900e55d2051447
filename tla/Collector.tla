------------------------------ MODULE Collector ------------------------------
(***************************************************************************)
(* The collection loop (internal/collector/collector.go): one process that *)
(* polls several OpenCode databases, reads each from a persisted cursor,   *)
(* sends what it read to the Gateway and then moves the cursor, or replays *)
(* a window of history once per database and process.                      *)
(*                                                                         *)
(* OpenCode writes the databases while the collector runs.  The process    *)
(* may die between any two steps and inside a save.  Every call that can   *)
(* fail (opening and reading a database, sending, saving) may.             *)
(***************************************************************************)
EXTENDS SourceReader, Tracker

CONSTANTS
    NoDB,           \* no database is being processed
    Unmappable,     \* <<database, id>> of rows mapRecord cannot convert
    MaxTime,        \* bound on the source clock
    CommitLag,      \* how far behind the clock a row may be stamped
    Modes,          \* values of --replay
    SinceDurations, \* --replay-since values; 0 is the full history
    Untils          \* --replay-until values; ZeroTime is no bound

ASSUME NoDBAssumption == NoDB \notin DB
ASSUME UnmappableAssumption == Unmappable \subseteq DB \X Id
ASSUME ClockAssumption == MaxTime \in Nat /\ CommitLag \in Nat
ASSUME ReplayAssumption ==
    Modes \subseteq BOOLEAN /\ SinceDurations \subseteq Nat /\ Untils \subseteq Time

VARIABLES
    now,            \* the clock OpenCode stamps rows with
    source,         \* the rows of each database
    pc,             \* where the process is
    replay,         \* replay configuration of this process
    replayCompleted,\* databases whose replay pass is done
    seeded,         \* seedOnce has run
    succeeded,      \* databases with an entry in lastSuccess
    dbs,            \* databases left in this cycle
    cur,            \* the database being processed
    cursor,         \* processDatabase: the stored cursor it started from
    effectiveSince, \* processDatabase: lower bound of the next read
    effectiveLastID,\* processDatabase: tie-breaking id of the next read
    records,        \* processDatabase: the page in hand
    acked,          \* history: rows of the batches SendBatch accepted
    heartbeats,     \* history: databases a heartbeat was accepted for
    loaded,         \* history: the cursors this process loaded
    owed            \* history: rows the current replay pass has yet to send

sourceVars == <<now, source>>
passVars == <<cursor, effectiveSince, effectiveLastID, records, owed>>
processVars == <<replay, replayCompleted, seeded, succeeded, dbs, cur>>
historyVars == <<acked, heartbeats, loaded>>
vars == <<sourceVars, trackerVars, pc, processVars, passVars, historyVars>>

Processing == {"read", "send", "acked", "heartbeat"}

NoReplay == [on |-> FALSE, since |-> ZeroTime, until |-> ZeroTime]

UseReplay(d) == replay.on /\ d \notin replayCompleted

\* The rows the next read of the current database selects.
Selected ==
    IF UseReplay(cur)
    THEN RecordsWindow(source[cur], effectiveSince, replay.until, effectiveLastID)
    ELSE RecordsSince(source[cur], effectiveSince)

\* Faults: each clamp of a completed pass forgotten.
FinalCursorPastGap(reached) ==
    Later(cursor, IF replay.until = ZeroTime THEN reached ELSE Earlier(reached, replay.until))
FinalCursorRegressing(reached) ==
    IF replay.since > cursor THEN cursor ELSE reached

\* Where a completed replay pass leaves the cursor, given how far it read.
FinalCursor(reached) ==
    LET bounded == IF replay.until = ZeroTime THEN reached
                                              ELSE Earlier(reached, replay.until)
    IN IF replay.since > cursor THEN cursor ELSE Later(bounded, cursor)

\* Where a failed replay pass leaves it.
NotRewound == cursor                                              \* fault
RewoundFully == ZeroTime                                          \* fault
RewoundCursor == Earlier(replay.since, cursor)

\* A batch shorter than the limit was the last of its window.
ShortBatch == Cardinality(records) < BatchLimit

\* Fault: the page is not dropped.
KeepsPage ==
    /\ cursor' = ZeroTime
    /\ effectiveSince' = ZeroTime
    /\ effectiveLastID' = NoID
    /\ owed' = {}
    /\ UNCHANGED records

NoPass ==
    /\ cursor' = ZeroTime
    /\ effectiveSince' = ZeroTime
    /\ effectiveLastID' = NoID
    /\ records' = {}
    /\ owed' = {}

\* processDatabase returns.
Return ==
    /\ pc' = "cycle"
    /\ cur' = NoDB
    /\ NoPass
-----------------------------------------------------------------------------
Init ==
    /\ now = 0
    /\ source = [d \in DB |-> {}]
    /\ cursors = NoCursors /\ file = NoCursors /\ torn = FALSE
    /\ pc = "down"
    /\ replay = NoReplay /\ replayCompleted = {}
    /\ seeded = FALSE /\ succeeded = {}
    /\ dbs = {} /\ cur = NoDB
    /\ cursor = ZeroTime /\ effectiveSince = ZeroTime
    /\ effectiveLastID = NoID /\ records = {} /\ owed = {}
    /\ acked = [d \in DB |-> {}] /\ heartbeats = {} /\ loaded = NoCursors
-----------------------------------------------------------------------------
(* The environment: the clock and the OpenCode process.                    *)

Tick ==
    /\ now < MaxTime
    /\ now' = now + 1
    /\ UNCHANGED <<source, trackerVars, pc, processVars, passVars, historyVars>>

\* OpenCode commits a new message, or a newer version of a message it has.  The
\* commit may come up to CommitLag after the time the row is stamped with.
Write(d, id, ts) ==
    /\ ts >= now - CommitLag
    /\ \A r \in source[d] : r.id = id => r.ts < ts
    /\ source' = [source EXCEPT ![d] =
                    {r \in @ : r.id # id} \cup {[id |-> id, ts |-> ts]}]
    /\ owed' = IF d = cur THEN {r \in owed : r.id # id} ELSE owed
    /\ UNCHANGED <<now, trackerVars, pc, processVars, cursor, effectiveSince,
                   effectiveLastID, records, historyVars>>
-----------------------------------------------------------------------------
(* Process lifetime.                                                       *)

\* NewCollector.  A state file that does not parse, or an until that is not
\* after since, makes it return an error: the process exits.
Start(on, duration, until) ==
    LET since == IF on /\ duration > 0 THEN now - duration ELSE ZeroTime
    IN /\ pc = "down"
       /\ duration <= now
       /\ on /\ until # ZeroTime /\ since # ZeroTime => until > since
       /\ Load
       /\ replay' = [on |-> on, since |-> since,
                     until |-> IF on THEN until ELSE ZeroTime]
       /\ pc' = "idle"
       /\ loaded' = file
       /\ UNCHANGED <<sourceVars, replayCompleted, seeded, succeeded, dbs, cur,
                      passVars, acked, heartbeats>>

\* What a dead process leaves behind, besides its state file.
Dead ==
    /\ pc # "down"
    /\ pc' = "down"
    /\ replay' = NoReplay /\ replayCompleted' = {}
    /\ seeded' = FALSE /\ succeeded' = {}
    /\ dbs' = {} /\ cur' = NoDB
    /\ NoPass
    /\ loaded' = NoCursors
    /\ UNCHANGED <<sourceVars, acked, heartbeats>>

\* The process is stopped or killed between two steps.
Crash == Dead /\ Lost

\* The calls of SetCursor: after an accepted batch in normal mode, at the end
\* of a replay pass, and when a replay batch fails.
Saving ==
    \/ pc = "acked" /\ (UseReplay(cur) => ShortBatch)
    \/ pc = "read" /\ UseReplay(cur) /\ Selected = {}
    \/ pc = "send" /\ UseReplay(cur)

\* The process is killed inside a save.
CrashInSave == Saving /\ Dead /\ LostInSave
-----------------------------------------------------------------------------
(* iterate: one cycle over the databases that were resolved.               *)

\* seedOnce: the databases with a stored cursor count as heard of.  GetCursor fails
\* for a path that does not resolve, and that database is passed over for good.
Seedings(resolved) ==
    LET stored == {d \in resolved : cursors[d] # ZeroTime}
    IN IF "unresolved" \in SaveFaults THEN SUBSET stored ELSE {stored}

BeginCycle(resolved) ==
    /\ pc = "idle"
    /\ pc' = "cycle"
    /\ dbs' = resolved
    /\ seeded' = TRUE
    /\ IF seeded THEN UNCHANGED succeeded
                 ELSE \E seeds \in Seedings(resolved) : succeeded' = succeeded \cup seeds
    /\ UNCHANGED <<sourceVars, trackerVars, replay, replayCompleted, cur,
                   passVars, historyVars>>

EndCycle ==
    /\ pc = "cycle" /\ dbs = {}
    /\ pc' = "idle"
    /\ UNCHANGED <<sourceVars, trackerVars, processVars, passVars, historyVars>>

\* The database's reader cannot be opened: processDatabase returns at once.
SkipDatabase(d) ==
    /\ pc = "cycle" /\ d \in dbs
    /\ dbs' = dbs \ {d}
    /\ UNCHANGED <<sourceVars, trackerVars, pc, replay, replayCompleted, seeded,
                   succeeded, cur, passVars, historyVars>>

BeginDatabase(d) ==
    LET since == IF UseReplay(d) THEN replay.since ELSE cursors[d]
    IN /\ pc = "cycle" /\ d \in dbs
       /\ pc' = "read"
       /\ dbs' = dbs \ {d}
       /\ cur' = d
       /\ cursor' = cursors[d]
       /\ effectiveSince' = since
       /\ effectiveLastID' = NoID
       /\ owed' = IF UseReplay(d)
                  THEN RecordsWindow(source[d], since, replay.until, NoID)
                  ELSE {}
       /\ UNCHANGED <<sourceVars, trackerVars, replay, replayCompleted, seeded,
                      succeeded, records, historyVars>>
-----------------------------------------------------------------------------
(* processDatabase.                                                        *)

\* Fault: an error is retried in place instead of leaving the database.
ReadFailsHere == pc = "read" /\ UNCHANGED vars

ReadFails ==
    /\ pc = "read"
    /\ Return
    /\ UNCHANGED <<sourceVars, trackerVars, replay, replayCompleted, seeded,
                   succeeded, dbs, historyVars>>

\* A page with a row that mapRecord rejects fails as a whole (ReadFails).
ReadPage ==
    /\ pc = "read"
    /\ \E page \in SUBSET Selected :
        /\ IsPage(page, Selected)
        /\ page # {}
        /\ \A r \in page : <<cur, r.id>> \notin Unmappable
        /\ records' = page
    /\ pc' = "send"
    /\ UNCHANGED <<sourceVars, trackerVars, processVars, cursor, effectiveSince,
                   effectiveLastID, owed, historyVars>>

\* The replay pass is over: store the final cursor, ignoring a failure to save.
CompleteReplay(reached) ==
    /\ SetCursorAnyhow(cur, FinalCursor(reached))
    /\ replayCompleted' = replayCompleted \cup {cur}

\* Fault: an empty read is followed by nothing.
ReadNothingQuietly ==
    /\ pc = "read"
    /\ Selected = {}
    /\ IF UseReplay(cur) THEN CompleteReplay(effectiveSince)
                         ELSE UNCHANGED <<trackerVars, replayCompleted>>
    /\ Return
    /\ UNCHANGED <<sourceVars, replay, seeded, succeeded, dbs, historyVars>>

ReadNothing ==
    /\ pc = "read"
    /\ Selected = {}
    /\ IF UseReplay(cur) THEN CompleteReplay(effectiveSince)
                         ELSE UNCHANGED <<trackerVars, replayCompleted>>
    /\ pc' = "heartbeat"
    /\ UNCHANGED <<sourceVars, replay, seeded, succeeded, dbs, cur, passVars,
                   historyVars>>

\* maybeSendHeartbeat: a heartbeat is sent, or it fails, is not due yet, or
\* there has been no success to follow.
HeartbeatSent ==
    /\ pc = "heartbeat"
    /\ cur \in succeeded
    /\ heartbeats' = heartbeats \cup {cur}
    /\ Return
    /\ UNCHANGED <<sourceVars, trackerVars, replay, replayCompleted, seeded,
                   succeeded, dbs, acked, loaded>>

NoHeartbeat ==
    /\ pc = "heartbeat"
    /\ Return
    /\ UNCHANGED <<sourceVars, trackerVars, replay, replayCompleted, seeded,
                   succeeded, dbs, historyVars>>

\* SendBatch returns nil: the Gateway has processed the page.
SendAccepted ==
    /\ pc = "send"
    /\ acked' = [acked EXCEPT ![cur] = @ \cup records]
    /\ owed' = owed \ records
    /\ pc' = "acked"
    /\ UNCHANGED <<sourceVars, trackerVars, processVars, cursor, effectiveSince,
                   effectiveLastID, records, heartbeats, loaded>>

\* SendBatch returns an error: a replay pass rewinds the stored cursor.
SendFails ==
    /\ pc = "send"
    /\ IF UseReplay(cur) THEN SetCursorAnyhow(cur, RewoundCursor)
                         ELSE UNCHANGED trackerVars
    /\ Return
    /\ UNCHANGED <<sourceVars, replay, replayCompleted, seeded, succeeded, dbs,
                   historyVars>>

\* Normal mode: the cursor follows the batch, one batch per cycle.  (Fault: it is
\* moved to the current time.)
AdvanceToNow ==
    /\ pc = "acked" /\ ~UseReplay(cur)
    /\ SetCursor(cur, now)
    /\ succeeded' = succeeded \cup {cur}
    /\ Return
    /\ UNCHANGED <<sourceVars, replay, replayCompleted, seeded, dbs, historyVars>>

Advance ==
    /\ pc = "acked" /\ ~UseReplay(cur)
    /\ SetCursor(cur, LastRecord(records).ts)
    /\ succeeded' = succeeded \cup {cur}
    /\ Return
    /\ UNCHANGED <<sourceVars, replay, replayCompleted, seeded, dbs, historyVars>>

AdvanceFails ==
    /\ pc = "acked" /\ ~UseReplay(cur)
    /\ SetCursorFails(cur, LastRecord(records).ts)
    /\ Return
    /\ UNCHANGED <<sourceVars, replay, replayCompleted, seeded, succeeded, dbs,
                   historyVars>>

\* Replay: a full batch may have a successor, read from its composite key.
ReplayNext ==
    /\ pc = "acked" /\ UseReplay(cur) /\ ~ShortBatch
    /\ effectiveSince' = LastRecord(records).ts
    /\ effectiveLastID' = LastRecord(records).id
    /\ records' = {}
    /\ succeeded' = succeeded \cup {cur}
    /\ pc' = "read"
    /\ UNCHANGED <<sourceVars, trackerVars, replay, replayCompleted, seeded, dbs,
                   cur, cursor, owed, historyVars>>

ReplayDone ==
    /\ pc = "acked" /\ UseReplay(cur) /\ ShortBatch
    /\ CompleteReplay(LastRecord(records).ts)
    /\ succeeded' = succeeded \cup {cur}
    /\ Return
    /\ UNCHANGED <<sourceVars, replay, seeded, dbs, historyVars>>
-----------------------------------------------------------------------------
Environment == Tick \/ \E d \in DB, id \in Id, ts \in 0..now : Write(d, id, ts)

Starting == \E on \in Modes, duration \in SinceDurations, until \in Untils :
                Start(on, duration, until)

Cycle ==
    \/ \E resolved \in SUBSET DB \ {{}} : BeginCycle(resolved)
    \/ \E d \in DB : BeginDatabase(d) \/ SkipDatabase(d)
    \/ EndCycle

Pass ==
    \/ ReadFails \/ ReadPage \/ ReadNothing
    \/ HeartbeatSent \/ NoHeartbeat
    \/ SendAccepted \/ SendFails
    \/ Advance \/ AdvanceFails \/ ReplayNext \/ ReplayDone

Next == Environment \/ Starting \/ Crash \/ CrashInSave \/ Cycle \/ Pass

Spec == Init /\ [][Next]_vars
-----------------------------------------------------------------------------
(* Scheduling.                                                             *)

Mappable(d) == \A id \in Id : <<d, id>> \notin Unmappable

\* The process is eventually left alone by whoever stops or kills it, the ticker
\* keeps starting cycles, and the loop does not stop between two calls.
Scheduling ==
    /\ <>[][pc' = "down" => pc = "down"]_vars
    /\ WF_vars(Starting)
    /\ WF_vars(Cycle \/ Pass)

\* Database d, the Gateway and the disk fail any number of times, but each works
\* again and again; and a heartbeat comes to be due.
RecurringSuccess(d) ==
    /\ SF_vars(\E resolved \in SUBSET DB : d \in resolved /\ BeginCycle(resolved))
    /\ SF_vars(BeginDatabase(d))
    /\ SF_vars(cur = d /\ (ReadPage \/ ReadNothing))
    /\ SF_vars(cur = d /\ SendAccepted)
    /\ SF_vars(cur = d /\ Advance)
    /\ SF_vars(cur = d /\ HeartbeatSent)

\* A failed read or batch sends a replay pass back to its first page, so a pass
\* needs all its pages to succeed in a row: in it, failures must stop for long
\* enough.
ReplayFailure(d) == cur = d /\ UseReplay(d) /\ (ReadFails \/ SendFails)

\* Nothing is assumed of a database with a row that cannot be mapped.
Fairness ==
    /\ Scheduling
    /\ \A d \in {e \in DB : Mappable(e)} :
        RecurringSuccess(d) /\ <>[][~ReplayFailure(d)]_vars

LiveSpec == Spec /\ Fairness
-----------------------------------------------------------------------------
(* Properties.                                                             *)

\* The types of the variables, and which of them a pass has set where.
TypeOK ==
    /\ now \in Nat
    /\ source \in [DB -> SUBSET Row]
    /\ acked \in [DB -> SUBSET Row]
    /\ cursors \in [DB -> Time] /\ file \in [DB -> Time] /\ loaded \in [DB -> Time]
    /\ torn \in BOOLEAN
    /\ pc \in {"down", "idle", "cycle"} \cup Processing
    /\ replay \in [on : BOOLEAN, since : Time, until : Time]
    /\ replayCompleted \subseteq DB
    /\ seeded \in BOOLEAN
    /\ succeeded \subseteq DB /\ heartbeats \subseteq DB /\ dbs \subseteq DB
    /\ cur \in DB \cup {NoDB}
    /\ pc \in Processing <=> cur # NoDB
    /\ cursor \in Time /\ effectiveSince \in Time
    /\ effectiveLastID \in Id \cup {NoID}
    /\ records \subseteq Row /\ owed \subseteq Row
    /\ pc \in {"send", "acked"} <=> records # {}

\* A row of d was stamped no later than a delivered row, and at most CommitLag
\* before it: it tied with that row, or may have been committed after that row was
\* read.  Whether it was is not asked; without a lag only ties are left.
Overtaken(d, r) ==
    \E q \in acked[d] : r.ts <= q.ts /\ q.ts <= r.ts + CommitLag

\* No cursor, in memory or on disk, is ever past a row that was not delivered,
\* unless a delivered row ties with it or follows within the commit lag: whatever
\* crashes, failed saves, rewinds and replay windows do (collector.go:646-654,
\* 477-482, 519-526, 562-567).
NoSilentGap ==
    \A d \in DB : \A c \in {cursors[d], file[d]}, r \in source[d] :
        r.ts <= c => r \in acked[d] \/ Overtaken(d, r)

\* The loop implements Delivery, its marks being the cursors in memory and on disk:
\* only an accepted batch delivers, what it delivers is in the database, and no
\* restart, rewind, failed save or replay moves a cursor where it must not be.
D == INSTANCE Delivery WITH marks <- [d \in DB |-> {cursors[d], file[d]}]
ImplementsDelivery == D!Spec

\* The collector sends a heartbeat for a database only after a batch of it was
\* accepted, by this process or by one before it, though all that survives of
\* the latter is a cursor (collector.go:234-262, 674-677).
HeartbeatFollowsSuccess ==
    \A d \in succeeded \cup heartbeats : acked[d] # {}

\* A replay pass is completed only when every row that was in its window when
\* it began, and has not been rewritten since, has been sent again: pages cut
\* inside a group of equal timestamps lose nothing (collector.go:573-581).
ReplayOwesNothing ==
    [][replayCompleted' \ replayCompleted # {} => owed = {}]_vars

\* Completing a replay pass leaves the cursor at or after the one the pass
\* started from, and past it only up to the replay bound (collector.go:468-482).
CompletionClamped ==
    [][\A d \in replayCompleted' \ replayCompleted :
        /\ cursors'[d] >= cursor
        /\ replay.until # ZeroTime => cursors'[d] <= Later(cursor, replay.until)]_vars

\* While a process lives, only a failed replay batch moves a cursor back.
RegressesOnlyOnRewind ==
    [][\A d \in DB : cursors'[d] < cursors[d] =>
        pc' = "down" \/ (pc = "send" /\ d = cur /\ UseReplay(d))]_vars

\* However often replay passes fail and are retried, no cursor of a process falls
\* below both the one it loaded and the start of its replay window: what a failed
\* replay makes normal polling repeat is bounded (collector.go:517-524).
RewindBounded ==
    pc # "down" => \A d \in DB :
        cursors[d] >= IF replay.on THEN Earlier(loaded[d], replay.since) ELSE loaded[d]

\* Every accepted batch moves reading forward, however it was cut and whatever
\* OpenCode commits meanwhile: the composite key of a pass's next page lies beyond
\* the one before, and the cursor of normal mode beyond the stored one, unless its
\* path no longer resolves.  So nothing is read round in circles (collector.go:577-581,
\* 646-648).
BatchAdvances ==
    [][pc = "acked" =>
        /\ pc' = "read" => Beyond([id |-> effectiveLastID', ts |-> effectiveSince'],
                                  effectiveSince, effectiveLastID)
        /\ pc' = "cycle" /\ ~UseReplay(cur) =>
            \/ "unresolved" \in SaveFaults /\ UNCHANGED trackerVars
            \/ cursors'[cur] > cursors[cur]]_vars

\* After a failed replay batch, normal polling by this process reads again every
\* row the pass still owed, whether or not the rewind reached the disk.  Only a
\* path that no longer resolves leaves the cursor alone (collector.go:504-527).
RewindExposesWindow ==
    [][pc = "send" /\ UseReplay(cur) /\ pc' = "cycle" =>
        \/ "unresolved" \in SaveFaults /\ UNCHANGED trackerVars
        \/ \A r \in owed : r.ts > cursors'[cur]]_vars

\* A row of a database without unmappable rows is delivered, unless OpenCode
\* rewrites it or it is overtaken: other databases' unmappable rows, failing calls,
\* and finitely many crashes delay it at most (collector.go:218-221).
EventuallyDelivered ==
    \A d \in {e \in DB : Mappable(e)} : \A id \in Id, ts \in 0..MaxTime :
        LET r == [id |-> id, ts |-> ts]
        IN r \in source[d] ~> r \notin source[d] \/ r \in acked[d] \/ Overtaken(d, r)

\* A database that was heard of since the process started, and has no unmappable row,
\* goes on being heard of, by batches or by heartbeats, however long it has nothing
\* to send (collector.go:484-490, 671-704).
KeepsBeingHeard ==
    \A d \in {e \in DB : Mappable(e)} :
        <>[](d \in succeeded) => []<><<cur = d /\ (SendAccepted \/ HeartbeatSent)>>_vars

\* Every database without unmappable rows leaves replay mode (collector.go:434-581).
ReplayTerminates ==
    \A d \in {e \in DB : Mappable(e)} : UseReplay(d) ~> ~UseReplay(d)
-----------------------------------------------------------------------------
(* What the repository says of the program and the program does not do.    *)

\* "This ensures that failed sends are retried on the next cycle - no records are
\* skipped or lost" (docs/collector-workflow.md:111).
NothingSkipped ==
    \A d \in DB : \A r \in source[d] : r.ts <= file[d] => r \in acked[d]

\* The stored cursor "never regresses below the pre-replay stored cursor"
\* (README.md:57): the completed pass leaves it no lower than the process found it.
NeverBelowPreReplay ==
    \A d \in replayCompleted : cursors[d] >= loaded[d]

\* "after a crash or deliberate shutdown, the collector resumes where it left off"
\* (docs/collector-workflow.md:162).
CanRestart == pc = "down" => ~torn
=============================================================================
