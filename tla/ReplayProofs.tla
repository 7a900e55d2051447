---------------------------- MODULE ReplayProofs -----------------------------
(***************************************************************************)
(* Proofs of the action properties of the collection loop: what a step may *)
(* never do to a cursor, and what a completed or failed replay pass means. *)
(***************************************************************************)
EXTENDS CollectorProofs

\* A dead process has no cursors in memory.
DeadInv == pc = "down" => cursors = NoCursors

LEMMA DeadInvariant == Spec => []DeadInv
<1>. USE DEF DeadInv
<1>1. Init => DeadInv
    BY DEF Init
<1>2. DeadInv /\ [Next]_vars => DeadInv'
    <2>. SUFFICES ASSUME DeadInv, [Next]_vars PROVE DeadInv'
        OBVIOUS
    <2>. USE DEF sourceVars, trackerVars, processVars, passVars, historyVars
    <2>1. CASE Environment
        BY <2>1 DEF Environment, Tick, Write
    <2>2. CASE Starting
        BY <2>2 DEF Starting, Start
    <2>3. CASE Crash \/ CrashInSave
        BY <2>3 DEF Crash, CrashInSave, Lost, LostInSave
    <2>4. CASE Cycle
        BY <2>4 DEF Cycle, BeginCycle, BeginDatabase, SkipDatabase, EndCycle
    <2>5. CASE Pass
        BY <2>5 DEF Pass, ReadFails, ReadPage, ReadNothing, HeartbeatSent, NoHeartbeat,
            SendAccepted, SendFails, Advance, AdvanceFails, ReplayNext, ReplayDone, Return
    <2>6. CASE UNCHANGED vars
        BY <2>6 DEF vars
    <2>. QED
        BY <2>1, <2>2, <2>3, <2>4, <2>5, <2>6 DEF Next
<1>. QED
    BY <1>1, <1>2, PTL DEF Spec

\* A SetCursor changes at most the cursor it is called for.
LEMMA OneCursorSet ==
    ASSUME TypeOK, NEW d \in DB, NEW c \in Time, SetCursorAnyhow(d, c), NEW e \in DB
    PROVE  cursors'[e] = cursors[e] \/ (e = d /\ cursors'[e] = c)
BY DEF TypeOK, SetCursorAnyhow, SetCursor, SetCursorFails, trackerVars

LEMMA FinalCursorClamped ==
    ASSUME TypeOK, NEW reached \in Time
    PROVE  /\ FinalCursor(reached) >= cursor
           /\ replay.until # ZeroTime => FinalCursor(reached) <= Later(cursor, replay.until)
BY DEF TypeOK, FinalCursor, Earlier, Later, Time, ZeroTime

\* Only two steps complete a pass, and both set the cursor they complete it with.
LEMMA CompletingStep ==
    ASSUME SafetyInv, Next, NEW d \in replayCompleted' \ replayCompleted
    PROVE  /\ d = cur /\ cur \in DB /\ cursor = cursors[cur] /\ UseReplay(cur)
           /\ ReadNothing \/ ReplayDone
           /\ \E reached \in Time : SetCursorAnyhow(cur, FinalCursor(reached))
<1>. USE DEF sourceVars, trackerVars, processVars, passVars, historyVars
<1>1. ReadNothing \/ ReplayDone
    BY DEF Next, Environment, Tick, Write, Starting, Start, Crash, CrashInSave, Dead, Cycle,
        BeginCycle, BeginDatabase, SkipDatabase, EndCycle, Pass, ReadFails, ReadPage,
        HeartbeatSent, NoHeartbeat, SendAccepted, SendFails, Advance, AdvanceFails, ReplayNext
<1>2. UseReplay(cur) /\ d = cur /\ pc \in {"read", "acked"}
    BY <1>1 DEF ReadNothing, ReplayDone, CompleteReplay
<1>3. cur \in DB /\ cursor = cursors[cur] /\ TypeOK
    BY <1>2 DEF SafetyInv, PassInv, PassStart, TypeInv, TypeOK, Processing
<1>4. CASE ReadNothing
    BY <1>2, <1>3, <1>4 DEF ReadNothing, CompleteReplay, TypeOK
<1>5. CASE ReplayDone
    <2>1. LastRecord(records) \in Row
        BY <1>3, <1>5, LastRecordIsLast DEF ReplayDone, SafetyInv, TypeInv, TypeOK
    <2>. QED
        BY <1>2, <1>3, <1>5, <2>1 DEF ReplayDone, CompleteReplay, Row, Time
<1>. QED
    BY <1>1, <1>2, <1>3, <1>4, <1>5

\* A completed pass leaves the cursor between the one it started from and the
\* later of that one and the replay bound.
THEOREM CompletionIsClamped == Spec => CompletionClamped
<1>1. ASSUME SafetyInv, Next, NEW d \in replayCompleted' \ replayCompleted
      PROVE  /\ cursors'[d] >= cursor
             /\ replay.until # ZeroTime => cursors'[d] <= Later(cursor, replay.until)
    <2>1. PICK reached \in Time : SetCursorAnyhow(cur, FinalCursor(reached))
        BY <1>1, CompletingStep
    <2>2. d = cur /\ cur \in DB /\ cursor = cursors[cur] /\ TypeOK
        BY <1>1, CompletingStep DEF SafetyInv, TypeInv
    <2>3. cursors'[d] = cursor \/ cursors'[d] = FinalCursor(reached)
        BY <2>1, <2>2, OneCursorSet, FinalCursorType
    <2>4. cursor \in Int /\ replay.until \in Int
        BY <2>2 DEF TypeOK, Time, ZeroTime
    <2>. QED
        BY <2>2, <2>3, <2>4, FinalCursorClamped DEF Later
<1>2. SafetyInv /\ [Next]_vars =>
        [\A d \in replayCompleted' \ replayCompleted :
            /\ cursors'[d] >= cursor
            /\ replay.until # ZeroTime => cursors'[d] <= Later(cursor, replay.until)]_vars
    BY <1>1
<1>. QED
    BY <1>2, SafetyInvariant, PTL DEF Spec, CompletionClamped

\* The steps that move a cursor back.
LEMMA RegressionStep ==
    ASSUME SafetyInv, DeadInv, Next, NEW d \in DB, cursors'[d] < cursors[d]
    PROVE  pc' = "down" \/ (pc = "send" /\ d = cur /\ UseReplay(d))
<1>. USE DEF sourceVars, trackerVars, processVars, passVars, historyVars
<1>1. TypeOK /\ cursors[d] \in Int
    BY DEF SafetyInv, TypeInv, TypeOK, Time, ZeroTime
<1>2. cursors' # cursors
    BY <1>1
<1>3. CASE Starting
    <2>1. cursors[d] = ZeroTime /\ cursors'[d] \in Time
        BY <1>1, <1>3 DEF Starting, Start, Load, DeadInv, NoCursors, TypeOK
    <2>. QED
        BY <2>1 DEF Time, ZeroTime
<1>4. CASE Crash \/ CrashInSave
    BY <1>4 DEF Crash, CrashInSave, Dead
<1>5. CASE ReadNothing \/ ReplayDone
    <2>1. cur \in DB /\ UseReplay(cur) /\ cursor = cursors[cur]
        BY <1>2, <1>5
           DEF ReadNothing, ReplayDone, SafetyInv, PassInv, PassStart, TypeInv, TypeOK, Processing
    <2>2. PICK reached \in Time : SetCursorAnyhow(cur, FinalCursor(reached))
        <3>1. CASE ReadNothing
            BY <1>1, <2>1, <3>1 DEF ReadNothing, CompleteReplay, TypeOK
        <3>2. CASE ReplayDone
            <4>1. LastRecord(records) \in Row
                BY <1>1, <3>2, LastRecordIsLast
                   DEF ReplayDone, SafetyInv, TypeInv, TypeOK
            <4>. QED
                BY <3>2, <4>1 DEF ReplayDone, CompleteReplay, Row, Time
        <3>. QED
            BY <1>5, <3>1, <3>2
    <2>3. FinalCursor(reached) \in Time /\ FinalCursor(reached) >= cursor
        BY <1>1, FinalCursorType, FinalCursorClamped
    <2>4. d = cur /\ cursors'[d] = FinalCursor(reached)
        BY <1>1, <2>1, <2>2, <2>3, OneCursorSet
    <2>. QED
        BY <1>1, <2>1, <2>3, <2>4 DEF Time, ZeroTime
<1>6. CASE SendFails
    <2>1. UseReplay(cur) /\ pc = "send" /\ SetCursorAnyhow(cur, RewoundCursor) /\ cur \in DB
        BY <1>1, <1>2, <1>6 DEF SendFails, TypeOK, Processing
    <2>2. RewoundCursor \in Time
        BY <1>1, RewoundCursorType
    <2>3. d = cur
        BY <1>1, <2>1, <2>2, OneCursorSet
    <2>. QED
        BY <2>1, <2>3
<1>7. CASE Advance \/ AdvanceFails
    <2>1. /\ pc = "acked" /\ ~UseReplay(cur) /\ records # {} /\ cur \in DB
          /\ SetCursorAnyhow(cur, LastRecord(records).ts)
        BY <1>1, <1>7 DEF Advance, AdvanceFails, SetCursorAnyhow, TypeOK, Processing
    <2>2. LastRecord(records) \in records /\ LastRecord(records) \in Row
        BY <1>1, <2>1, LastRecordIsLast DEF SafetyInv, TypeInv, TypeOK
    <2>3. LastRecord(records).ts > cursors[cur] /\ LastRecord(records).ts \in Time
        BY <2>1, <2>2 DEF SafetyInv, PassInv, PassStart, PageInv, Row, Time
    <2>4. d = cur /\ cursors'[d] = LastRecord(records).ts
        BY <1>1, <2>1, <2>3, OneCursorSet
    <2>. QED
        BY <1>1, <2>1, <2>3, <2>4 DEF Time, ZeroTime
<1>. QED
    BY <1>2, <1>3, <1>4, <1>5, <1>6, <1>7
       DEF Next, Environment, Tick, Write, Cycle, BeginCycle, BeginDatabase,
           SkipDatabase, EndCycle, Pass, ReadFails, ReadPage, HeartbeatSent, NoHeartbeat,
           SendAccepted, ReplayNext

\* While a process lives, only a failed replay batch moves a cursor back.
THEOREM RegressionIsRewind == Spec => RegressesOnlyOnRewind
<1>1. SafetyInv /\ DeadInv /\ [Next]_vars =>
        [\A d \in DB : cursors'[d] < cursors[d] =>
            pc' = "down" \/ (pc = "send" /\ d = cur /\ UseReplay(d))]_vars
    BY RegressionStep
<1>. QED
    BY <1>1, SafetyInvariant, DeadInvariant, PTL DEF Spec, RegressesOnlyOnRewind

\* A failed batch leaves the cursor where it was, or at the rewound one.
LEMMA RewindStep ==
    ASSUME SafetyInv, SendFails, UseReplay(cur)
    PROVE  /\ cur \in DB /\ cursor = cursors[cur]
           /\ \/ "unresolved" \in SaveFaults /\ UNCHANGED trackerVars
              \/ cursors'[cur] = RewoundCursor
<1>1. SetCursorAnyhow(cur, RewoundCursor) /\ pc = "send"
    BY DEF SendFails
<1>2. cur \in DB /\ TypeOK /\ cursor = cursors[cur]
    BY <1>1 DEF SafetyInv, TypeInv, TypeOK, Processing, PassInv, PassStart
<1>. QED
    BY <1>1, <1>2 DEF SetCursorAnyhow, SetCursor, SetCursorFails, trackerVars, TypeOK

Floor(d) == IF replay.on THEN Earlier(loaded[d], replay.since) ELSE loaded[d]

LEMMA FloorType ==
    ASSUME TypeOK, NEW d \in DB
    PROVE  Floor(d) \in Int /\ cursors[d] \in Int /\ loaded[d] \in Int
           /\ replay.since \in Int /\ Floor(d) <= loaded[d]
BY DEF TypeOK, Floor, Earlier, Time, ZeroTime

\* Failed and retried passes lower a cursor no further than the start of the window.
THEOREM RewindIsBounded == Spec => []RewindBounded
<1>. DEFINE BoundInv == pc # "down" => \A d \in DB : cursors[d] >= Floor(d)
<1>. USE DEF sourceVars, trackerVars, processVars, passVars, historyVars
<1>1. Init => BoundInv
    BY DEF Init
<1>2. ASSUME SafetyInv, TypeOK', DeadInv, BoundInv, [Next]_vars
      PROVE  BoundInv'
    <2>1. SUFFICES ASSUME pc' # "down", NEW d \in DB
                   PROVE  cursors'[d] >= Floor(d)'
        OBVIOUS
    <2>2. /\ Floor(d) \in Int /\ cursors[d] \in Int /\ loaded[d] \in Int
          /\ replay.since \in Int /\ Floor(d) <= loaded[d]
        BY <1>2, FloorType DEF SafetyInv, TypeInv
    <2>3. /\ Floor(d)' \in Int /\ cursors'[d] \in Int /\ loaded'[d] \in Int
          /\ Floor(d)' <= loaded'[d]
        BY <1>2 DEF TypeOK, Floor, Earlier, Time, ZeroTime
    <2>4. CASE Starting
        <3>1. cursors'[d] = loaded'[d]
            BY <2>4 DEF Starting, Start, Load
        <3>. QED
            BY <2>3, <3>1
    <2>5. CASE ~Starting
        <3>1. UNCHANGED <<loaded, replay>> /\ pc # "down"
            BY <1>2, <2>1, <2>5 DEF Next, Environment, Tick, Write, Crash, CrashInSave, Dead,
                Cycle, BeginCycle, BeginDatabase, SkipDatabase, EndCycle, Pass, ReadFails,
                ReadPage, ReadNothing, HeartbeatSent, NoHeartbeat, SendAccepted, SendFails,
                Advance, AdvanceFails, ReplayNext, ReplayDone, vars
        <3>2. Floor(d)' = Floor(d) /\ cursors[d] >= Floor(d)
            BY <1>2, <3>1 DEF Floor
        <3>3. CASE cursors'[d] >= cursors[d]
            BY <2>2, <2>3, <3>2, <3>3
        <3>4. CASE cursors'[d] < cursors[d]
            <4>1. pc = "send" /\ d = cur /\ UseReplay(cur) /\ replay.on /\ Next
                BY <1>2, <2>1, <2>2, <3>4, RegressionStep DEF UseReplay, vars
            <4>2. SendFails
                BY <2>2, <3>4, <4>1, <2>1 DEF Next, Environment, Tick, Write, Starting, Start,
                    Crash, CrashInSave, Dead, Cycle, BeginCycle, BeginDatabase, SkipDatabase,
                    EndCycle, Pass, ReadFails, ReadPage, ReadNothing, HeartbeatSent,
                    NoHeartbeat, SendAccepted, Advance, AdvanceFails, ReplayNext, ReplayDone
            <4>3. cursors'[d] = Earlier(replay.since, cursors[d])
                BY <1>2, <2>2, <3>4, <4>1, <4>2, RewindStep DEF RewoundCursor
            <4>4. Floor(d) <= replay.since
                BY <2>2, <4>1 DEF Floor, Earlier
            <4>. QED
                BY <2>2, <3>2, <4>3, <4>4 DEF Earlier
        <3>. QED
            BY <2>2, <2>3, <3>3, <3>4
    <2>. QED
        BY <2>4, <2>5
<1>3. BoundInv => RewindBounded
    BY DEF Floor, RewindBounded
<1>4. SafetyInv => TypeOK
    BY DEF SafetyInv, TypeInv
<1>. QED
    BY <1>1, <1>2, <1>3, <1>4, SafetyInvariant, DeadInvariant, PTL DEF Spec
-----------------------------------------------------------------------------
(* What a replay pass owes is ahead of it: on the page in hand or after    *)
(* that page, so a page short of the limit settles it.                     *)

InWindow(r) == Unbounded(replay.until) \/ r.ts <= replay.until

AfterPage(r) == \A q \in records : Before(q, r)

OwedInv ==
    /\ owed # {} => pc \in {"read", "send", "acked"} /\ UseReplay(cur)
    /\ \A r \in owed : r \in source[cur] /\ r.ts > replay.since /\ InWindow(r)
    /\ pc = "read" => owed \subseteq Selected
    /\ pc = "send" => \A r \in owed : r \in records \/ AfterPage(r)
    /\ pc = "send" /\ ShortBatch => owed \subseteq records
    /\ pc = "acked" => \A r \in owed : AfterPage(r)
    /\ pc = "acked" /\ ShortBatch => owed = {}

\* Nothing is owed outside a pass.
LEMMA OwedNothing ==
    ASSUME owed' = {}
    PROVE  OwedInv'
BY DEF OwedInv

LEMMA OwedNext == TypeInv /\ TypeInv' /\ OwedInv /\ [Next]_vars => OwedInv'
<1>. SUFFICES ASSUME TypeInv, TypeInv', OwedInv, [Next]_vars PROVE OwedInv'
    OBVIOUS
<1>. USE DEF sourceVars, trackerVars, processVars, passVars, historyVars
<1>. DEFINE frame == <<replay, replayCompleted, cur, effectiveSince, effectiveLastID>>
<1>1. TypeOK
    BY DEF TypeInv
<1>2. CASE Tick \/ UNCHANGED vars
    BY <1>2 DEF Tick, vars, OwedInv, InWindow, AfterPage, UseReplay, Selected, ShortBatch
<1>3. ASSUME NEW d \in DB, NEW id \in Id, NEW ts \in 0..now, Write(d, id, ts)
      PROVE  OwedInv'
    <2>1. UNCHANGED <<frame, pc, records>> /\ owed' \subseteq owed
        BY <1>3 DEF Write
    <2>2. \A r \in owed' : r \in source'[cur]
        BY <1>1, <1>3 DEF Write, TypeOK, OwedInv
    <2>3. pc = "read" => owed' \subseteq Selected'
        BY <2>1, <2>2
           DEF OwedInv, Selected, UseReplay, RecordsWindow, RecordsSince, RecordsAfter
    <2>. QED
        BY <2>1, <2>2, <2>3 DEF OwedInv, InWindow, AfterPage, UseReplay, ShortBatch
<1>4. CASE Starting
    BY <1>4, OwedNothing DEF Starting, Start, OwedInv
<1>5. CASE Crash \/ CrashInSave
    BY <1>5, OwedNothing DEF Crash, CrashInSave, Dead, NoPass
<1>6. CASE Cycle
    <2>1. CASE EndCycle \/ (\E resolved \in SUBSET DB : BeginCycle(resolved))
               \/ \E d \in DB : SkipDatabase(d)
        BY <2>1, OwedNothing DEF EndCycle, BeginCycle, SkipDatabase, OwedInv
    <2>2. ASSUME NEW d \in DB, BeginDatabase(d)
          PROVE  OwedInv'
        <3>1. /\ pc' = "read" /\ cur' = d /\ source' = source /\ replay' = replay
              /\ UseReplay(cur)' = UseReplay(d) /\ effectiveLastID' = NoID
              /\ effectiveSince' = IF UseReplay(d) THEN replay.since ELSE cursors[d]
              /\ owed' = IF UseReplay(d)
                         THEN RecordsWindow(source[d], effectiveSince', replay.until, NoID)
                         ELSE {}
            BY <2>2 DEF BeginDatabase, UseReplay
        <3>. QED
            BY <3>1 DEF OwedInv, Selected, InWindow, RecordsWindow, RecordsSince
    <2>. QED
        BY <1>6, <2>1, <2>2 DEF Cycle
<1>7. CASE ReadFails \/ HeartbeatSent \/ NoHeartbeat \/ SendFails \/ Advance \/ AdvanceFails
           \/ ReplayDone
    BY <1>7, OwedNothing
       DEF ReadFails, HeartbeatSent, NoHeartbeat, SendFails, Advance, AdvanceFails, ReplayDone,
           Return, NoPass
<1>8. CASE ReadNothing
    BY <1>8, OwedNothing DEF ReadNothing, OwedInv
<1>9. CASE ReadPage
    <2>1. PICK page \in SUBSET Selected : IsPage(page, Selected) /\ records' = page
        BY <1>9 DEF ReadPage
    <2>2. pc = "read" /\ pc' = "send" /\ UNCHANGED <<source, frame, owed>>
        BY <1>9 DEF ReadPage
    <2>3. owed \subseteq Selected
        BY <2>2 DEF OwedInv
    <2>4. \A r \in owed' : r \in records' \/ AfterPage(r)'
        BY <2>1, <2>2, <2>3 DEF IsPage, AfterPage
    <2>5. ShortBatch' => owed' \subseteq records'
        BY <2>1, <2>2, <2>3, BatchLimitAssumption DEF IsPage, ShortBatch
    <2>. QED
        BY <2>2, <2>4, <2>5 DEF OwedInv, InWindow, UseReplay
<1>10. CASE SendAccepted
    <2>1. /\ pc = "send" /\ pc' = "acked" /\ UNCHANGED <<source, frame, records>>
          /\ owed' = owed \ records
        BY <1>10 DEF SendAccepted
    <2>. QED
        BY <2>1 DEF OwedInv, InWindow, AfterPage, UseReplay, ShortBatch
<1>11. CASE ReplayNext
    <2>1. /\ pc = "acked" /\ pc' = "read" /\ UseReplay(cur) /\ UseReplay(cur)'
          /\ UNCHANGED <<source, replay, replayCompleted, cur, owed>>
          /\ effectiveSince' = LastRecord(records).ts
          /\ effectiveLastID' = LastRecord(records).id
        BY <1>11 DEF ReplayNext, UseReplay
    <2>2. LastRecord(records) \in records /\ LastRecord(records).id # NoID
        BY <1>1, <2>1, LastRecordIsLast, IdAssumption DEF TypeInv, TypeOK, Row, NoID
    <2>3. \A r \in owed : Before(LastRecord(records), r)
        BY <2>1, <2>2 DEF OwedInv, AfterPage
    <2>4. \A r \in owed : Beyond(r, LastRecord(records).ts, LastRecord(records).id)
        BY <1>1, <2>1, <2>2, <2>3, IdAssumption DEF Before, Beyond, TypeOK, Row
    <2>5. owed' \subseteq Selected'
        BY <2>1, <2>2, <2>4 DEF OwedInv, InWindow, Selected, RecordsWindow, RecordsAfter
    <2>. QED
        BY <2>1, <2>5 DEF OwedInv, InWindow
<1>. QED
    BY <1>2, <1>3, <1>4, <1>5, <1>6, <1>7, <1>8, <1>9, <1>10, <1>11
       DEF Next, Environment, Pass

LEMMA OwedInvariant == Spec => []OwedInv
<1>1. Init => OwedInv
    BY DEF Init, OwedInv, ShortBatch
<1>. QED
    BY <1>1, TypeInit, TypeNext, OwedNext, PTL DEF Spec

\* A pass is completed only when it owes nothing.
THEOREM CompletedPassOwesNothing == Spec => ReplayOwesNothing
<1>1. ASSUME SafetyInv, OwedInv, Next, replayCompleted' \ replayCompleted # {}
      PROVE  owed = {}
    <2>1. ReadNothing \/ ReplayDone
        BY <1>1, CompletingStep
    <2>2. CASE ReadNothing
        BY <1>1, <2>2 DEF ReadNothing, OwedInv
    <2>3. CASE ReplayDone
        BY <1>1, <2>3 DEF ReplayDone, OwedInv
    <2>. QED
        BY <2>1, <2>2, <2>3
<1>2. SafetyInv /\ OwedInv /\ [Next]_vars =>
        [replayCompleted' \ replayCompleted # {} => owed = {}]_vars
    BY <1>1
<1>. QED
    BY <1>2, SafetyInvariant, OwedInvariant, PTL DEF Spec, ReplayOwesNothing

\* A failed replay batch leaves every row the pass owes to normal polling.
THEOREM RewindIsExposing == Spec => RewindExposesWindow
<1>1. ASSUME SafetyInv, OwedInv, Next, pc = "send", UseReplay(cur), pc' = "cycle"
      PROVE  \/ "unresolved" \in SaveFaults /\ UNCHANGED trackerVars
             \/ \A r \in owed : r.ts > cursors'[cur]
    <2>1. SendFails
        BY <1>1 DEF Next, Environment, Tick, Write, Starting, Start, Crash, CrashInSave, Dead,
            Cycle, BeginCycle, BeginDatabase, SkipDatabase, EndCycle, Pass, ReadFails, ReadPage,
            ReadNothing, HeartbeatSent, NoHeartbeat, SendAccepted, Advance, AdvanceFails,
            ReplayNext, ReplayDone, vars, sourceVars, trackerVars
    <2>2. cur \in DB /\ TypeOK
        BY <1>1, <2>1, RewindStep DEF SafetyInv, TypeInv
    <2>3. \/ "unresolved" \in SaveFaults /\ UNCHANGED trackerVars
          \/ cursors'[cur] = RewoundCursor
        BY <1>1, <2>1, RewindStep
    <2>4. RewoundCursor <= replay.since /\ RewoundCursor \in Int /\ replay.since \in Int
        BY <2>2 DEF RewoundCursor, Earlier, TypeOK, Time, ZeroTime
    <2>5. \A r \in owed : r.ts > replay.since /\ r.ts \in Int
        BY <1>1, <2>2 DEF OwedInv, TypeOK, Row
    <2>. QED
        BY <2>3, <2>4, <2>5
<1>2. SafetyInv /\ OwedInv /\ [Next]_vars =>
        [pc = "send" /\ UseReplay(cur) /\ pc' = "cycle" =>
            \/ "unresolved" \in SaveFaults /\ UNCHANGED trackerVars
            \/ \A r \in owed : r.ts > cursors'[cur]]_vars
    BY <1>1
<1>. QED
    BY <1>2, SafetyInvariant, OwedInvariant, PTL DEF Spec, RewindExposesWindow
-----------------------------------------------------------------------------
(* A replay page lies beyond the composite key it was read from.           *)

BeyondInv ==
    pc \in {"send", "acked"} /\ UseReplay(cur) =>
        \A r \in records : Beyond(r, effectiveSince, effectiveLastID)

LEMMA WindowIsBeyond ==
    ASSUME NEW rows, NEW since \in Time, NEW until, NEW afterID,
           NEW r \in RecordsWindow(rows, since, until, afterID)
    PROVE  Beyond(r, since, afterID)
BY DEF RecordsWindow, RecordsSince, RecordsAfter, Beyond

LEMMA BeyondInvariant == Spec => []BeyondInv
<1>. USE DEF BeyondInv
<1>1. Init => BeyondInv
    BY DEF Init
<1>2. ASSUME TypeOK, BeyondInv, [Next]_vars
      PROVE  BeyondInv'
    <2>1. CASE ReadPage
        <3>1. /\ records' \subseteq Selected /\ (UseReplay(cur)' <=> UseReplay(cur))
              /\ UNCHANGED <<effectiveSince, effectiveLastID>>
            BY <2>1 DEF ReadPage, UseReplay, processVars
        <3>2. ASSUME UseReplay(cur), NEW r \in records'
              PROVE  Beyond(r, effectiveSince, effectiveLastID)
            BY <1>2, <3>1, <3>2, WindowIsBeyond DEF Selected, TypeOK
        <3>. QED
            BY <3>1, <3>2
    <2>2. CASE pc' \notin {"send", "acked"}
        BY <2>2
    <2>3. CASE UNCHANGED vars \/ Environment \/ SendAccepted
        <3>1. /\ UNCHANGED <<cur, replay, replayCompleted, records, effectiveSince,
                             effectiveLastID>>
              /\ pc' \in {"send", "acked"} => pc \in {"send", "acked"}
            BY <2>3 DEF vars, Environment, Tick, Write, SendAccepted, processVars, passVars
        <3>. QED
            BY <1>2, <3>1 DEF UseReplay
    <2>4. CASE Starting \/ Crash \/ CrashInSave \/ Cycle
        BY <1>2, <2>2, <2>4 DEF Starting, Start, Crash, CrashInSave, Dead, Cycle, BeginCycle,
            BeginDatabase, SkipDatabase, EndCycle
    <2>5. CASE Pass /\ ~ReadPage /\ ~SendAccepted
        BY <2>2, <2>5 DEF Pass, ReadFails, ReadNothing, HeartbeatSent, NoHeartbeat, SendFails,
            Advance, AdvanceFails, ReplayNext, ReplayDone, Return
    <2>. QED
        BY <1>2, <2>1, <2>3, <2>4, <2>5 DEF Next
<1>. QED
    BY <1>1, <1>2, TypeCorrect, PTL DEF Spec

LEMMA NextPageIsBeyond ==
    ASSUME SafetyInv, BeyondInv, ReplayNext
    PROVE  Beyond([id |-> effectiveLastID', ts |-> effectiveSince'],
                  effectiveSince, effectiveLastID)
<1>1. LastRecord(records) \in records
    BY LastRecordIsLast DEF ReplayNext, SafetyInv, TypeInv, TypeOK
<1>2. Beyond(LastRecord(records), effectiveSince, effectiveLastID)
    BY <1>1 DEF ReplayNext, BeyondInv
<1>. QED
    BY <1>2 DEF ReplayNext, Beyond

LEMMA AdvanceIsForward ==
    ASSUME SafetyInv, Advance \/ AdvanceFails
    PROVE  \/ "unresolved" \in SaveFaults /\ UNCHANGED trackerVars
           \/ cursors'[cur] > cursors[cur]
<1>. DEFINE last == LastRecord(records)
<1>1. /\ pc = "acked" /\ ~UseReplay(cur) /\ SetCursorAnyhow(cur, last.ts)
    BY DEF Advance, AdvanceFails, SetCursorAnyhow
<1>2. cur \in DB /\ TypeOK /\ last \in records
    BY <1>1, LastRecordIsLast DEF SafetyInv, TypeInv, TypeOK, Processing
<1>3. last.ts > cursors[cur]
    BY <1>1, <1>2 DEF SafetyInv, PassInv, PassStart, PageInv
<1>. QED
    BY <1>1, <1>2, <1>3
       DEF SetCursorAnyhow, SetCursor, SetCursorFails, trackerVars, TypeOK

\* Every accepted batch moves reading forward, in both modes.
THEOREM BatchesAdvance == Spec => BatchAdvances
<1>. DEFINE key == [id |-> effectiveLastID', ts |-> effectiveSince']
            Forward == \/ "unresolved" \in SaveFaults /\ UNCHANGED trackerVars
                       \/ cursors'[cur] > cursors[cur]
<1>1. ASSUME Next, pc = "acked", pc' \in {"read", "cycle"}
      PROVE  ReplayNext \/ ReplayDone \/ Advance \/ AdvanceFails
    BY <1>1 DEF Next, Environment, Tick, Write, Starting, Start, Crash, CrashInSave, Dead,
        Cycle, BeginCycle, BeginDatabase, SkipDatabase, EndCycle, Pass, ReadFails, ReadPage,
        ReadNothing, HeartbeatSent, NoHeartbeat, SendAccepted, SendFails, Return
<1>2. ASSUME SafetyInv, BeyondInv, Next, pc = "acked", pc' = "read"
      PROVE  Beyond(key, effectiveSince, effectiveLastID)
    BY <1>1, <1>2, NextPageIsBeyond DEF ReplayDone, Advance, AdvanceFails, Return
<1>3. ASSUME SafetyInv, Next, pc = "acked", pc' = "cycle", ~UseReplay(cur)
      PROVE  Forward
    BY <1>1, <1>3, AdvanceIsForward DEF ReplayNext, ReplayDone
<1>4. SafetyInv /\ BeyondInv /\ [Next]_vars =>
        [pc = "acked" =>
            /\ pc' = "read" => Beyond(key, effectiveSince, effectiveLastID)
            /\ pc' = "cycle" /\ ~UseReplay(cur) => Forward]_vars
    BY <1>2, <1>3
<1>. QED
    BY <1>4, SafetyInvariant, BeyondInvariant, PTL DEF Spec, BatchAdvances

-----------------------------------------------------------------------------
(* What is left to read after a page, in each of the two modes, while the  *)
(* database does not change.                                               *)

LEMMA LastOfPage ==
    ASSUME NEW selected, NEW page, IsPage(page, selected), page # {}
    PROVE  IsLast(page, LastRecord(page)) /\ LastRecord(page) \in page
<1>1. PICK r \in page : IsLast(page, r)
    BY DEF IsPage
<1>2. IsLast(page, LastRecord(page))
    BY <1>1 DEF LastRecord
<1>. QED
    BY <1>2 DEF IsLast

LEMMA RowFields ==
    ASSUME NEW r \in Row
    PROVE  r.ts \in Nat /\ r.id \in Nat \ {0}
BY IdAssumption DEF Row

\* The rest of a page's selection comes after its last record, and nothing on the
\* page does.
LEMMA RestOfPage ==
    ASSUME NEW selected \in SUBSET Row, NEW page, IsPage(page, selected), page # {},
           NEW r \in selected
    PROVE  r \in page <=> ~Before(LastRecord(page), r)
<1>. DEFINE last == LastRecord(page)
<1>1. IsLast(page, last) /\ last \in page /\ page \subseteq selected
    BY LastOfPage DEF IsPage
<1>2. r.ts \in Int /\ r.id \in Int /\ last.ts \in Int /\ last.id \in Int
    BY <1>1, RowFields
<1>3. CASE r \in page
    <2>1. r = last \/ Before(r, last)
        BY <1>1, <1>3 DEF IsLast
    <2>2. ~Before(last, r)
        BY <1>2, <2>1 DEF Before
    <2>. QED
        BY <1>3, <2>2
<1>4. CASE r \notin page
    BY <1>1, <1>4 DEF IsPage
<1>. QED
    BY <1>3, <1>4

\* Read from the composite key of a page's last record, a replay window yields the
\* rest of what the page was cut from: no row is dropped and none repeated, also
\* when the page ends inside a group of equal timestamps (collector.go:577-581,
\* reader.go:111-121, 142-170).
THEOREM PagesPartitionWindow ==
    ASSUME NEW rows \in SUBSET Row, NEW since \in Time, NEW until \in Time,
           NEW afterID \in Id \cup {NoID}, NEW page, page # {},
           IsPage(page, RecordsWindow(rows, since, until, afterID))
    PROVE  RecordsWindow(rows, LastRecord(page).ts, until, LastRecord(page).id)
            = RecordsWindow(rows, since, until, afterID) \ page
<1>. DEFINE selected == RecordsWindow(rows, since, until, afterID)
            last == LastRecord(page)
            next == RecordsWindow(rows, last.ts, until, last.id)
<1>1. selected \in SUBSET Row
    BY DEF RecordsWindow, RecordsSince, RecordsAfter
<1>2. last \in selected /\ last \in Row
    BY <1>1, LastOfPage DEF IsPage
<1>3. last.id # NoID
    BY <1>2, IdAssumption DEF Row, NoID
<1>4. ASSUME NEW r \in rows
      PROVE  r \in next <=> r \in selected /\ Before(last, r)
    <2>1. /\ r.ts \in Nat /\ r.id \in Nat \ {0}
          /\ last.ts \in Nat /\ last.id \in Nat \ {0}
          /\ since \in Int /\ afterID \in Nat
        BY <1>2, <1>4, RowFields, IdAssumption DEF Time, ZeroTime, NoID
    <2>2. Beyond(r, last.ts, last.id) <=> Before(last, r)
        BY <2>1 DEF Beyond, Before
    <2>3. r \in next <=> Before(last, r) /\ (Unbounded(until) \/ r.ts <= until)
        BY <1>3, <2>2 DEF RecordsWindow, RecordsAfter
    <2>4. Beyond(last, since, afterID) /\ (afterID = NoID => last.ts > since)
        BY <1>2, <2>1, WindowIsBeyond DEF RecordsWindow, RecordsSince
    <2>5. Before(last, r) => Beyond(r, since, afterID) /\ (afterID = NoID => r.ts > since)
        BY <2>1, <2>4 DEF Beyond, Before
    <2>6. Before(last, r) => (r \in selected <=> Unbounded(until) \/ r.ts <= until)
        BY <2>5 DEF RecordsWindow, RecordsSince, RecordsAfter
    <2>. QED
        BY <2>3, <2>6
<1>5. next \subseteq rows /\ selected \subseteq rows
    BY DEF RecordsWindow, RecordsSince, RecordsAfter
<1>6. \A r \in selected : r \in page <=> ~Before(last, r)
    BY <1>1, RestOfPage
<1>. QED
    BY <1>4, <1>5, <1>6

\* Read from the time of a page's last record alone, as normal mode does, a database
\* yields the rest of what the page was cut from but for exactly the rows that tie
\* with that record (collector.go:646-648, reader.go:95-105).
THEOREM TimeCursorDropsTies ==
    ASSUME NEW rows \in SUBSET Row, NEW since \in Time, NEW page, page # {},
           IsPage(page, RecordsSince(rows, since))
    PROVE  RecordsSince(rows, LastRecord(page).ts)
            = {r \in RecordsSince(rows, since) \ page : r.ts # LastRecord(page).ts}
<1>. DEFINE selected == RecordsSince(rows, since)
            last == LastRecord(page)
<1>1. selected \in SUBSET Row
    BY DEF RecordsSince
<1>2. last \in selected /\ last \in Row
    BY <1>1, LastOfPage DEF IsPage
<1>3. \A r \in selected : r \in page <=> ~Before(last, r)
    BY <1>1, RestOfPage
<1>4. ASSUME NEW r \in rows
      PROVE  r.ts > last.ts <=> r \in selected /\ Before(last, r) /\ r.ts # last.ts
    <2>1. r.ts \in Int /\ last.ts \in Int /\ since \in Int /\ last.ts > since
        BY <1>2 DEF RecordsSince, Row, Time, ZeroTime
    <2>. QED
        BY <2>1 DEF RecordsSince, Before
<1>. QED
    BY <1>3, <1>4 DEF RecordsSince
=============================================================================
