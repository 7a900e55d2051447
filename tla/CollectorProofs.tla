--------------------------- MODULE CollectorProofs ---------------------------
(***************************************************************************)
(* Proofs about the collection loop, for every set of databases, ids and   *)
(* unmappable rows, every batch limit, commit lag, replay configuration    *)
(* and way of failing.                                                     *)
(***************************************************************************)
EXTENDS Collector, TLAPS

\* A page has a last row: IsPage says so of the page that is read.
PageHasLast == records # {} => \E r \in records : IsLast(records, r)

TypeInv == TypeOK /\ PageHasLast

LEMMA LastRecordIsLast ==
    ASSUME PageHasLast, records # {}
    PROVE  IsLast(records, LastRecord(records)) /\ LastRecord(records) \in records
<1>1. PICK r \in records : IsLast(records, r)
    BY DEF PageHasLast
<1>2. IsLast(records, LastRecord(records))
    BY <1>1 DEF LastRecord
<1>. QED
    BY <1>2 DEF IsLast

LEMMA SelectedIsSource ==
    ASSUME TypeOK, cur \in DB
    PROVE  Selected \subseteq source[cur] /\ Selected \subseteq Row
<1>1. Selected \subseteq source[cur]
    BY DEF Selected, RecordsWindow, RecordsSince, RecordsAfter
<1>. QED
    BY <1>1 DEF TypeOK

LEMMA FinalCursorType ==
    ASSUME TypeOK, NEW reached \in Time
    PROVE  FinalCursor(reached) \in Time
BY DEF TypeOK, FinalCursor, Earlier, Later, Time, ZeroTime

LEMMA RewoundCursorType ==
    ASSUME TypeOK
    PROVE  RewoundCursor \in Time
BY DEF TypeOK, RewoundCursor, Earlier, Time, ZeroTime

LEMMA SetCursorType ==
    ASSUME TypeOK, NEW d \in DB, NEW c \in Time, SetCursorAnyhow(d, c)
    PROVE  cursors' \in [DB -> Time] /\ file' \in [DB -> Time] /\ torn' \in BOOLEAN
<1>. USE DEF TypeOK, NoCursors, Time, ZeroTime
<1>1. CASE SetCursor(d, c)
    BY <1>1 DEF SetCursor, Saved
<1>2. CASE SetCursorFails(d, c)
    BY <1>2 DEF SetCursorFails, Damaged, trackerVars
<1>. QED
    BY <1>1, <1>2 DEF SetCursorAnyhow

\* Only databases with a stored cursor are counted as heard of when they are seeded.
LEMMA SeedsAreStored ==
    ASSUME NEW resolved, NEW seeds \in Seedings(resolved)
    PROVE  \A d \in seeds : d \in resolved /\ cursors[d] # ZeroTime
BY DEF Seedings

LEMMA ReturnType ==
    ASSUME Return
    PROVE  /\ cursor' \in Time /\ effectiveSince' \in Time
           /\ effectiveLastID' \in Id \cup {NoID}
           /\ records' = {} /\ owed' = {} /\ PageHasLast'
           /\ pc' = "cycle" /\ cur' = NoDB
           /\ ~(pc' \in Processing) /\ ~(pc' \in {"send", "acked"})
BY DEF Return, NoPass, PageHasLast, Processing, Time, ZeroTime

LEMMA TypeInit == Init => TypeInv
<1>. SUFFICES ASSUME Init PROVE TypeInv
    OBVIOUS
<1>. USE DEF Init
<1>1. NoCursors \in [DB -> Time] /\ NoReplay \in [on : BOOLEAN, since : Time, until : Time]
    BY DEF NoCursors, NoReplay, Time, ZeroTime
<1>2. /\ source \in [DB -> SUBSET Row] /\ acked \in [DB -> SUBSET Row]
      /\ cursor \in Time /\ effectiveSince \in Time
    BY DEF Time, ZeroTime
<1>3. pc \in Processing <=> cur # NoDB
    BY DEF Processing
<1>4. PageHasLast
    BY DEF PageHasLast
<1>. QED
    BY <1>1, <1>2, <1>3, <1>4 DEF TypeInv, TypeOK

LEMMA TypeNext == TypeInv /\ [Next]_vars => TypeInv'
<1>. SUFFICES ASSUME TypeInv, [Next]_vars
              PROVE  TypeInv'
    OBVIOUS
<1>. USE NoDBAssumption, ClockAssumption, ReplayAssumption, IdAssumption
     DEF TypeInv, sourceVars, trackerVars, processVars, passVars, historyVars
<1>1. CASE Tick
    BY <1>1 DEF Tick, TypeOK, PageHasLast, Processing
<1>2. ASSUME NEW d \in DB, NEW id \in Id, NEW ts \in 0..now, Write(d, id, ts)
      PROVE  TypeInv'
    <2>1. [id |-> id, ts |-> ts] \in Row
        BY <1>2 DEF Row, TypeOK
    <2>2. source' \in [DB -> SUBSET Row]
        BY <1>2, <2>1 DEF Write, TypeOK
    <2>3. owed' \subseteq Row
        BY <1>2 DEF Write, TypeOK
    <2>. QED
        BY <1>2, <2>2, <2>3 DEF Write, TypeOK, PageHasLast, Processing
<1>3. ASSUME NEW on \in Modes, NEW duration \in SinceDurations, NEW until \in Untils,
             Start(on, duration, until)
      PROVE  TypeInv'
    BY <1>3 DEF Start, Load, TypeOK, PageHasLast, Processing, Time, ZeroTime
<1>4. CASE Crash \/ CrashInSave
    <2>1. Dead
        BY <1>4 DEF Crash, CrashInSave
    <2>2. NoCursors \in [DB -> Time] /\ NoReplay \in [on : BOOLEAN, since : Time, until : Time]
        BY DEF NoCursors, NoReplay, Time, ZeroTime
    <2>3. cursors' \in [DB -> Time] /\ file' \in [DB -> Time] /\ torn' \in BOOLEAN
        BY <1>4, <2>2 DEF Crash, CrashInSave, Lost, LostInSave, TypeOK
    <2>4. cursor' \in Time /\ effectiveSince' \in Time /\ effectiveLastID' = NoID
          /\ records' = {} /\ owed' = {}
        BY <2>1 DEF Dead, NoPass, Time, ZeroTime
    <2>5. pc' = "down" /\ cur' = NoDB /\ ~(pc' \in Processing)
        BY <2>1 DEF Dead, Processing
    <2>6. PageHasLast'
        BY <2>4 DEF PageHasLast
    <2>. QED
        BY <2>1, <2>2, <2>3, <2>4, <2>5, <2>6 DEF Dead, TypeOK
<1>5. CASE Cycle
    <2>1. ASSUME NEW resolved \in SUBSET DB \ {{}}, BeginCycle(resolved)
          PROVE  TypeInv'
        <3>1. succeeded' \subseteq succeeded \cup resolved
            BY <2>1, SeedsAreStored DEF BeginCycle
        <3>. QED
            BY <2>1, <3>1 DEF BeginCycle, TypeOK, PageHasLast, Processing
    <2>2. ASSUME NEW d \in DB, BeginDatabase(d)
          PROVE  TypeInv'
        <3>1. owed' \subseteq Row
            BY <2>2 DEF BeginDatabase, RecordsWindow, RecordsSince, RecordsAfter, TypeOK
        <3>2. effectiveSince' \in Time /\ cursor' \in Time
            BY <2>2 DEF BeginDatabase, TypeOK
        <3>. QED
            BY <2>2, <3>1, <3>2 DEF BeginDatabase, TypeOK, PageHasLast, Processing
    <2>3. ASSUME NEW d \in DB, SkipDatabase(d)
          PROVE  TypeInv'
        BY <2>3 DEF SkipDatabase, TypeOK, PageHasLast, Processing
    <2>4. CASE EndCycle
        BY <2>4 DEF EndCycle, TypeOK, PageHasLast, Processing
    <2>. QED
        BY <1>5, <2>1, <2>2, <2>3, <2>4 DEF Cycle
<1>6. CASE Pass
    <2>1. CASE ReadFails
        BY <2>1, ReturnType DEF ReadFails, TypeOK
    <2>2. CASE ReadPage
        <3>1. PICK page \in SUBSET Selected :
                IsPage(page, Selected) /\ page # {} /\ records' = page
            BY <2>2 DEF ReadPage
        <3>2. records' \subseteq Row
            BY <2>2, <3>1, SelectedIsSource DEF ReadPage, TypeOK, Processing
        <3>3. PageHasLast'
            BY <3>1 DEF PageHasLast, IsPage, IsLast
        <3>. QED
            BY <2>2, <3>1, <3>2, <3>3 DEF ReadPage, TypeOK, Processing
    <2>3. CASE ReadNothing
        <3>1. cur \in DB
            BY <2>3 DEF ReadNothing, TypeOK, Processing
        <3>2. /\ cursors' \in [DB -> Time] /\ file' \in [DB -> Time] /\ torn' \in BOOLEAN
              /\ replayCompleted' \subseteq DB
            BY <2>3, <3>1, SetCursorType, FinalCursorType
               DEF ReadNothing, CompleteReplay, TypeOK
        <3>. QED
            BY <2>3, <3>2 DEF ReadNothing, TypeOK, PageHasLast, Processing
    <2>4. CASE HeartbeatSent
        BY <2>4, ReturnType DEF HeartbeatSent, TypeOK
    <2>5. CASE NoHeartbeat
        BY <2>5, ReturnType DEF NoHeartbeat, TypeOK
    <2>6. CASE SendAccepted
        BY <2>6 DEF SendAccepted, TypeOK, PageHasLast, Processing
    <2>7. CASE SendFails
        <3>1. cur \in DB
            BY <2>7 DEF SendFails, TypeOK, Processing
        <3>2. cursors' \in [DB -> Time] /\ file' \in [DB -> Time] /\ torn' \in BOOLEAN
            BY <2>7, <3>1, SetCursorType, RewoundCursorType DEF SendFails, TypeOK
        <3>. QED
            BY <2>7, <3>2, ReturnType DEF SendFails, TypeOK
    <2>8. CASE Advance \/ AdvanceFails \/ ReplayNext \/ ReplayDone
        <3>1. cur \in DB /\ records # {}
            BY <2>8 DEF Advance, AdvanceFails, ReplayNext, ReplayDone, TypeOK, Processing
        <3>2. LastRecord(records).ts \in Time /\ LastRecord(records).id \in Id
            BY <3>1, LastRecordIsLast DEF TypeOK, Row, Time
        <3>3. CASE Advance \/ AdvanceFails
            <4>1. cursors' \in [DB -> Time] /\ file' \in [DB -> Time] /\ torn' \in BOOLEAN
                BY <3>3, <3>1, <3>2, SetCursorType DEF Advance, AdvanceFails, SetCursorAnyhow
            <4>. QED
                BY <3>3, <3>1, <4>1, ReturnType DEF Advance, AdvanceFails, TypeOK
        <3>4. CASE ReplayNext
            BY <3>4, <3>1, <3>2 DEF ReplayNext, TypeOK, PageHasLast, Processing
        <3>5. CASE ReplayDone
            <4>1. cursors' \in [DB -> Time] /\ file' \in [DB -> Time] /\ torn' \in BOOLEAN
                BY <3>5, <3>1, <3>2, SetCursorType, FinalCursorType
                   DEF ReplayDone, CompleteReplay
            <4>. QED
                BY <3>5, <3>1, <4>1, ReturnType DEF ReplayDone, CompleteReplay, TypeOK
        <3>. QED
            BY <2>8, <3>3, <3>4, <3>5
    <2>. QED
        BY <1>6, <2>1, <2>2, <2>3, <2>4, <2>5, <2>6, <2>7, <2>8 DEF Pass
<1>7. CASE UNCHANGED vars
    BY <1>7 DEF vars, TypeOK, PageHasLast, Processing
<1>. QED
    BY <1>1, <1>2, <1>3, <1>4, <1>5, <1>6, <1>7 DEF Next, Environment, Starting

\* The variables of the collection loop keep their types, and a pass has the
\* locals its place in processDatabase says it has.
THEOREM TypeCorrect == Spec => []TypeOK
<1>1. Spec => []TypeInv
    BY TypeInit, TypeNext, PTL DEF Spec
<1>. QED
    BY <1>1, PTL DEF TypeInv
-----------------------------------------------------------------------------
(* NoSilentGap is not inductive: it says nothing of the page in hand, from *)
(* which the next cursor is taken, nor of the bounds a replay pass has     *)
(* reached, nor of where cursors come from.                                *)

Served(d, r) == r \in acked[d] \/ Overtaken(d, r)

Covered(d, c) == \A r \in source[d] : r.ts <= c => Served(d, r)

\* A cursor is no later than some delivered row.
Backed(d, c) == c = ZeroTime \/ \E q \in acked[d] : c <= q.ts

StoredInv == \A d \in DB : /\ Backed(d, cursors[d]) /\ Covered(d, cursors[d])
                         /\ Backed(d, file[d]) /\ Covered(d, file[d])

\* Rows are not stamped in the future.
Clocked == /\ \A d \in DB : \A r \in source[d] \cup acked[d] : r.ts <= now
           /\ \A r \in records : r.ts <= now

\* Where the pass in progress started reading.
LowerBound == IF UseReplay(cur) THEN replay.since ELSE cursor

\* All rows of the pass up to c are served.
Swept(c) == \A r \in source[cur] : LowerBound < r.ts /\ r.ts <= c => Served(cur, r)

PassStart == pc \in {"read", "send", "acked"} => cursor = cursors[cur]

ReadInv ==
    pc = "read" =>
        /\ Swept(effectiveSince)
        /\ effectiveSince = LowerBound \/ (UseReplay(cur) /\ Backed(cur, effectiveSince))

\* What the page in hand skips below its last row was served before, or came
\* too late for the page.
SendInv ==
    pc = "send" =>
        \A r \in source[cur], last \in records :
            LowerBound < r.ts /\ r.ts <= last.ts =>
                Served(cur, r) \/ r \in records \/ last.ts <= r.ts + CommitLag

AckedInv ==
    pc = "acked" => /\ records \subseteq acked[cur]
                    /\ \A last \in records : Swept(last.ts)

\* The rows of a normal page are after the cursor it was read from.
PageInv ==
    pc \in {"send", "acked"} /\ ~UseReplay(cur) => \A r \in records : r.ts > cursor

PassInv == PassStart /\ ReadInv /\ SendInv /\ AckedInv /\ PageInv

SafetyInv == TypeInv /\ StoredInv /\ Clocked /\ PassInv /\ HeartbeatFollowsSuccess
-----------------------------------------------------------------------------
\* Delivering more keeps what was said of rows and cursors.
LEMMA ServedGrows ==
    ASSUME NEW d \in DB, acked[d] \subseteq acked'[d]
    PROVE  /\ \A r : Served(d, r) => Served(d, r)'
           /\ \A c : Backed(d, c) => Backed(d, c)'
BY DEF Served, Overtaken, Backed

\* Storing a cursor that is backed and covered, whatever the save does.
LEMMA StoredBySetCursor ==
    ASSUME TypeOK, StoredInv, UNCHANGED <<source, acked>>,
           NEW d \in DB, NEW c \in Time, Backed(d, c), Covered(d, c),
           SetCursorAnyhow(d, c)
    PROVE  StoredInv'
<1>. DEFINE OK(e, x) == Backed(e, x) /\ Covered(e, x)
<1>1. \A e \in DB : OK(e, cursors[e]) /\ OK(e, file[e])
    BY DEF StoredInv
<1>2. \A e \in DB : OK(e, ZeroTime)
    BY DEF TypeOK, Row, Backed, Covered, ZeroTime
<1>3. \A e \in DB : OK(e, cursors'[e])
    BY <1>1 DEF TypeOK, SetCursorAnyhow, SetCursor, SetCursorFails, trackerVars
<1>4. \A e \in DB : OK(e, file'[e])
    BY <1>1, <1>2, <1>3
       DEF TypeOK, SetCursorAnyhow, SetCursor, SetCursorFails, Saved, Damaged,
           NoCursors, trackerVars
<1>5. \A e, x : OK(e, x) => Backed(e, x)' /\ Covered(e, x)'
    BY DEF Backed, Covered, Served, Overtaken
<1>. QED
    BY <1>3, <1>4, <1>5 DEF StoredInv

\* Where a completed replay pass leaves the cursor is backed and covered.
LEMMA FinalCursorGood ==
    ASSUME TypeOK, StoredInv, cur \in DB, UseReplay(cur), cursor = cursors[cur],
           NEW reached \in Time, Swept(reached),
           reached = LowerBound \/ Backed(cur, reached)
    PROVE  Backed(cur, FinalCursor(reached)) /\ Covered(cur, FinalCursor(reached))
<1>. DEFINE final == FinalCursor(reached)
<1>1. LowerBound = replay.since
    BY DEF LowerBound
<1>2. Backed(cur, cursor) /\ Covered(cur, cursor)
    BY DEF StoredInv
<1>3. CASE replay.since > cursor
    BY <1>2, <1>3 DEF FinalCursor
<1>4. CASE ~(replay.since > cursor)
    <2>1. final = cursor \/ (final <= reached /\ final > cursor)
        BY <1>4 DEF FinalCursor, Earlier, Later, TypeOK, Time, ZeroTime
    <2>2. ASSUME final <= reached, final > cursor
          PROVE  Backed(cur, final) /\ Covered(cur, final)
        <3>. final \in Int /\ reached \in Int /\ cursor \in Int /\ replay.since \in Int
            BY FinalCursorType DEF TypeOK, Time, ZeroTime
        <3>. source[cur] \subseteq Row /\ acked[cur] \subseteq Row
            BY DEF TypeOK
        <3>1. Backed(cur, reached)
            BY <2>2, <1>1, <1>4
        <3>2. Backed(cur, final)
            BY <2>2, <3>1 DEF Backed, Row, TypeOK, Time, ZeroTime
        <3>3. ASSUME NEW r \in source[cur], r.ts <= final
              PROVE  Served(cur, r)
            <4>. r.ts \in Int
                BY DEF Row
            <4>1. CASE r.ts <= cursor
                BY <4>1, <1>2 DEF Covered
            <4>2. CASE r.ts > cursor
                BY <4>2, <3>3, <2>2, <1>1, <1>4 DEF Swept
            <4>. QED
                BY <4>1, <4>2 DEF TypeOK, Time, ZeroTime
        <3>. QED
            BY <3>2, <3>3 DEF Covered
    <2>. QED
        BY <2>1, <2>2, <1>2
<1>. QED
    BY <1>3, <1>4

\* So is where a failed one leaves it.
LEMMA RewoundCursorGood ==
    ASSUME TypeOK, StoredInv, cur \in DB, cursor = cursors[cur]
    PROVE  Backed(cur, RewoundCursor) /\ Covered(cur, RewoundCursor)
<1>1. RewoundCursor <= cursor /\ RewoundCursor \in Time /\ cursor \in Time
    BY DEF RewoundCursor, Earlier, TypeOK, Time, ZeroTime
<1>2. Backed(cur, cursor) /\ Covered(cur, cursor)
    BY DEF StoredInv
<1>3. acked[cur] \subseteq Row /\ source[cur] \subseteq Row
    BY DEF TypeOK
<1>4. Backed(cur, RewoundCursor)
    BY <1>1, <1>2, <1>3 DEF Backed, Row, Time, ZeroTime
<1>5. Covered(cur, RewoundCursor)
    BY <1>1, <1>2, <1>3 DEF Covered, Row, Time, ZeroTime
<1>. QED
    BY <1>4, <1>5

LEMMA SafetyInit == Init => SafetyInv
<1>. SUFFICES ASSUME Init PROVE SafetyInv
    OBVIOUS
<1>1. TypeInv
    BY TypeInit
<1>. QED
    BY <1>1 DEF Init, SafetyInv, StoredInv, Backed, Covered, Clocked, PassInv, PassStart,
        ReadInv, SendInv, AckedInv, PageInv, HeartbeatFollowsSuccess, NoCursors

\* After a step that leaves no pass in progress only what is stored matters.
LEMMA SafetyOutsidePass ==
    ASSUME SafetyInv, TypeInv', pc' \notin {"read", "send", "acked"}, records' = {},
           UNCHANGED <<now, source, acked>>, StoredInv', HeartbeatFollowsSuccess'
    PROVE  SafetyInv'
BY DEF SafetyInv, Clocked, PassInv, PassStart, ReadInv, SendInv, AckedInv, PageInv

LEMMA StoredUnchanged ==
    ASSUME StoredInv, UNCHANGED <<source, acked, cursors, file>>
    PROVE  StoredInv'
BY DEF StoredInv, Backed, Covered, Served, Overtaken

\* Nothing is stored: the state of a new file.
LEMMA NothingStored ==
    ASSUME TypeOK, NEW d \in DB
    PROVE  Backed(d, ZeroTime) /\ Covered(d, ZeroTime)
BY DEF TypeOK, Row, Backed, Covered, ZeroTime

LEMMA SafetyWrite ==
    ASSUME SafetyInv, TypeInv', NEW d \in DB, NEW id \in Id, NEW ts \in 0..now,
           Write(d, id, ts)
    PROVE  SafetyInv'
<1>. DEFINE new == [id |-> id, ts |-> ts]
<1>. USE DEF sourceVars, trackerVars, processVars, passVars, historyVars
<1>1. /\ \A e \in DB : \A r \in source'[e] : r \in source[e] \/ (e = d /\ r = new)
      /\ UNCHANGED <<now, acked, cursors, file, pc, replay, replayCompleted, cur, cursor,
                     effectiveSince, effectiveLastID, records, succeeded, heartbeats>>
    BY DEF Write, SafetyInv, TypeInv, TypeOK
<1>2. new.ts \in Int /\ new.ts <= now /\ now <= new.ts + CommitLag /\ now \in Int
      /\ CommitLag \in Int
    BY ClockAssumption DEF Write, SafetyInv, TypeInv, TypeOK
<1>3. \A q \in Row : q.ts \in Int
    BY DEF Row
<1>4. acked \in [DB -> SUBSET Row] /\ records \subseteq Row
    BY DEF SafetyInv, TypeInv, TypeOK
<1>5. \A e, r : Served(e, r)' <=> Served(e, r)
    BY <1>1 DEF Served, Overtaken
\* Whatever was delivered up to c also overtakes the new row.
<1>6. \A c \in Time : Backed(d, c) /\ new.ts <= c => Served(d, new)
    <2>1. SUFFICES ASSUME NEW c \in Time, Backed(d, c), new.ts <= c
                   PROVE  Overtaken(d, new)
        BY DEF Served
    <2>2. PICK q \in acked[d] : c <= q.ts
        BY <1>2, <2>1 DEF Backed, Write, ZeroTime
    <2>3. q \in Row /\ q.ts <= now /\ c \in Int
        BY <1>4 DEF SafetyInv, Clocked, Time, ZeroTime
    <2>. QED
        BY <1>2, <1>3, <2>1, <2>2, <2>3 DEF Overtaken
<1>7. StoredInv'
    <2>1. \A e \in DB : cursors[e] \in Time /\ file[e] \in Time
        BY DEF SafetyInv, TypeInv, TypeOK
    <2>2. ASSUME NEW e \in DB, NEW c \in Time, Backed(e, c), Covered(e, c)
          PROVE  Backed(e, c)' /\ Covered(e, c)'
        <3>1. Backed(e, c)'
            BY <1>1, <2>2 DEF Backed
        <3>2. Covered(e, c)'
            BY <1>1, <1>5, <1>6, <2>2 DEF Covered
        <3>. QED
            BY <3>1, <3>2
    <2>. QED
        BY <1>1, <2>1, <2>2 DEF SafetyInv, StoredInv
<1>8. Clocked'
    BY <1>1, <1>2 DEF SafetyInv, Clocked
<1>9. PassInv'
    <2>1. LowerBound' = LowerBound /\ (UseReplay(cur)' <=> UseReplay(cur))
        BY <1>1 DEF LowerBound, UseReplay
    <2>2. PassStart' /\ PageInv'
        BY <1>1, <2>1 DEF SafetyInv, PassInv, PassStart, PageInv
    <2>3. ReadInv'
        <3>1. SUFFICES ASSUME pc = "read" PROVE ReadInv'
            BY <1>1 DEF ReadInv
        <3>2. cur \in DB /\ effectiveSince \in Time /\ effectiveSince \in Int
            BY <3>1 DEF SafetyInv, TypeInv, TypeOK, Processing, Time, ZeroTime
        <3>3. Swept(effectiveSince) /\ (effectiveSince = LowerBound \/ (UseReplay(cur) /\ Backed(cur, effectiveSince)))
            BY <3>1 DEF SafetyInv, PassInv, ReadInv
        <3>4. effectiveSince' = LowerBound' \/ (UseReplay(cur)' /\ Backed(cur, effectiveSince)')
            BY <1>1, <2>1, <3>3 DEF Backed
        <3>5. ASSUME NEW r \in source'[cur], LowerBound < r.ts, r.ts <= effectiveSince
              PROVE  Served(cur, r)
            <4>1. CASE r \in source[cur]
                BY <3>3, <3>5, <4>1 DEF Swept
            <4>2. CASE cur = d /\ r = new
                <5>1. effectiveSince # LowerBound
                    BY <1>2, <3>2, <3>5, <4>2
                <5>. QED
                    BY <1>6, <3>2, <3>3, <3>5, <4>2, <5>1
            <4>. QED
                BY <1>1, <3>2, <4>1, <4>2
        <3>6. Swept(effectiveSince)'
            BY <1>1, <1>5, <2>1, <3>5 DEF Swept
        <3>. QED
            BY <1>1, <3>4, <3>6 DEF ReadInv
    <2>4. SendInv'
        <3>1. SUFFICES ASSUME pc = "send", NEW r \in source'[cur], NEW last \in records,
                              LowerBound < r.ts, r.ts <= last.ts
                       PROVE  Served(cur, r) \/ r \in records \/ last.ts <= r.ts + CommitLag
            BY <1>1, <1>5, <2>1 DEF SendInv
        <3>2. cur \in DB
            BY <3>1 DEF SafetyInv, TypeInv, TypeOK, Processing
        <3>3. CASE r \in source[cur]
            BY <3>1, <3>3 DEF SafetyInv, PassInv, SendInv
        <3>4. CASE r = new
            BY <1>2, <1>3, <1>4, <3>1, <3>4 DEF SafetyInv, Clocked
        <3>. QED
            BY <1>1, <3>2, <3>3, <3>4
    <2>5. AckedInv'
        <3>1. SUFFICES ASSUME pc = "acked", records \subseteq acked[cur],
                              NEW r \in source'[cur], NEW last \in records,
                              LowerBound < r.ts, r.ts <= last.ts
                       PROVE  Served(cur, r)
            BY <1>1, <1>5, <2>1 DEF AckedInv, Swept, SafetyInv, PassInv
        <3>2. cur \in DB
            BY <3>1 DEF SafetyInv, TypeInv, TypeOK, Processing
        <3>3. CASE r \in source[cur]
            BY <3>1, <3>3 DEF SafetyInv, PassInv, AckedInv, Swept
        <3>4. CASE cur = d /\ r = new
            <4>1. last.ts \in Int /\ last.ts <= now /\ last \in acked[cur]
                BY <1>3, <1>4, <3>1 DEF SafetyInv, Clocked
            <4>. QED
                BY <1>2, <3>1, <3>4, <4>1 DEF Served, Overtaken
        <3>. QED
            BY <1>1, <3>2, <3>3, <3>4
    <2>. QED
        BY <2>2, <2>3, <2>4, <2>5 DEF PassInv
<1>10. HeartbeatFollowsSuccess'
    BY <1>1 DEF SafetyInv, HeartbeatFollowsSuccess
<1>. QED
    BY <1>7, <1>8, <1>9, <1>10 DEF SafetyInv

LEMMA SafetyProcess ==
    ASSUME SafetyInv, TypeInv',
           Starting \/ Crash \/ CrashInSave
    PROVE  SafetyInv'
<1>. USE DEF sourceVars, trackerVars, processVars, passVars, historyVars
<1>1. \A d \in DB : Backed(d, ZeroTime) /\ Covered(d, ZeroTime)
    BY NothingStored DEF SafetyInv, TypeInv
<1>2. CASE Starting
    <2>1. PICK on \in Modes, duration \in SinceDurations, until \in Untils :
            Start(on, duration, until)
        BY <1>2 DEF Starting
    <2>2. /\ pc' = "idle" /\ records' = records /\ pc = "down"
          /\ cursors' = file /\ file' = file
          /\ UNCHANGED <<now, source, acked, succeeded, heartbeats>>
        BY <2>1 DEF Start, Load
    <2>3. records = {}
        BY <2>2 DEF SafetyInv, TypeInv, TypeOK
    <2>4. StoredInv'
        BY <2>2 DEF SafetyInv, StoredInv, Backed, Covered, Served, Overtaken
    <2>. QED
        BY <2>2, <2>3, <2>4, SafetyOutsidePass DEF SafetyInv, HeartbeatFollowsSuccess
<1>3. CASE Crash \/ CrashInSave
    <2>1. /\ pc' = "down" /\ records' = {} /\ succeeded' = {}
          /\ UNCHANGED <<now, source, acked, heartbeats>>
        BY <1>3 DEF Crash, CrashInSave, Dead, NoPass
    <2>2. cursors' = NoCursors /\ (file' = file \/ file' = NoCursors)
        BY <1>3 DEF Crash, CrashInSave, Lost, LostInSave
    <2>3. \A d \in DB : NoCursors[d] = ZeroTime
        BY DEF NoCursors
    <2>4. StoredInv'
        BY <1>1, <2>1, <2>2, <2>3
           DEF SafetyInv, StoredInv, Backed, Covered, Served, Overtaken
    <2>. QED
        BY <2>1, <2>4, SafetyOutsidePass DEF SafetyInv, HeartbeatFollowsSuccess
<1>. QED
    BY <1>2, <1>3

LEMMA SafetyCycle ==
    ASSUME SafetyInv, TypeInv', Cycle
    PROVE  SafetyInv'
<1>. USE DEF sourceVars, trackerVars, processVars, passVars, historyVars
<1>1. UNCHANGED <<now, source, acked, cursors, file, records, heartbeats>> /\ pc \in {"idle", "cycle"}
    BY DEF Cycle, BeginCycle, BeginDatabase, SkipDatabase, EndCycle
<1>2. records = {} /\ records' = {}
    BY <1>1 DEF SafetyInv, TypeInv, TypeOK
<1>3. StoredInv'
    BY <1>1, StoredUnchanged DEF SafetyInv
<1>4. ASSUME NEW resolved \in SUBSET DB, BeginCycle(resolved)
      PROVE  SafetyInv'
    <2>1. ASSUME NEW d \in resolved, cursors[d] # ZeroTime
          PROVE  acked[d] # {}
        BY <2>1 DEF SafetyInv, StoredInv, Backed
    <2>2. HeartbeatFollowsSuccess'
        <3>1. \A d \in succeeded' : d \in succeeded \/ (d \in resolved /\ cursors[d] # ZeroTime)
            BY <1>4, SeedsAreStored DEF BeginCycle
        <3>2. acked' = acked /\ heartbeats' = heartbeats
            BY <1>4 DEF BeginCycle, historyVars
        <3>. QED
            BY <1>1, <2>1, <3>1, <3>2 DEF SafetyInv, HeartbeatFollowsSuccess
    <2>. QED
        BY <1>1, <1>2, <1>3, <1>4, <2>2, SafetyOutsidePass DEF BeginCycle
<1>5. CASE EndCycle \/ \E d \in DB : SkipDatabase(d)
    <2>1. pc' \notin {"read", "send", "acked"} /\ succeeded' = succeeded
        BY <1>1, <1>5 DEF SkipDatabase, EndCycle
    <2>. QED
        BY <1>1, <1>2, <1>3, <2>1, SafetyOutsidePass DEF SafetyInv, HeartbeatFollowsSuccess
<1>6. ASSUME NEW d \in DB, BeginDatabase(d)
      PROVE  SafetyInv'
    <2>1. /\ pc' = "read" /\ cur' = d /\ cursor' = cursors'[d] /\ effectiveSince' = LowerBound'
          /\ succeeded' = succeeded
        BY <1>6 DEF BeginDatabase, LowerBound, UseReplay
    <2>2. \A r \in source'[d] : r.ts \in Int
        BY <1>1, <1>6 DEF SafetyInv, TypeInv, TypeOK, Row
    <2>3. effectiveSince' \in Int
        BY DEF TypeInv, TypeOK, Time, ZeroTime
    <2>4. ReadInv'
        BY <2>1, <2>2, <2>3 DEF ReadInv, Swept
    <2>. QED
        BY <1>1, <1>2, <1>3, <2>1, <2>4
           DEF SafetyInv, Clocked, PassInv, PassStart, SendInv, AckedInv, PageInv,
               HeartbeatFollowsSuccess
<1>. QED
    BY <1>4, <1>5, <1>6 DEF Cycle

LEMMA SafetyReadPage ==
    ASSUME SafetyInv, TypeInv', ReadPage
    PROVE  SafetyInv'
<1>. USE DEF sourceVars, trackerVars, processVars, passVars, historyVars
<1>1. PICK page \in SUBSET Selected : IsPage(page, Selected) /\ records' = page
    BY DEF ReadPage
<1>2. /\ pc = "read" /\ pc' = "send"
      /\ UNCHANGED <<now, source, acked, cursors, file, replay, replayCompleted, cur,
                     cursor, effectiveSince, effectiveLastID, succeeded, heartbeats>>
    BY DEF ReadPage
<1>3. cur \in DB /\ TypeOK
    BY <1>2 DEF SafetyInv, TypeInv, TypeOK, Processing
<1>4. records' \subseteq source[cur] /\ source[cur] \subseteq Row
    BY <1>1, <1>3, SelectedIsSource DEF TypeOK
<1>5. \A r \in Row : r.ts \in Int
    BY DEF Row
<1>6. effectiveSince \in Int /\ replay.since \in Int /\ replay.until \in Int /\ cursor \in Int
    BY <1>3 DEF TypeOK, Time, ZeroTime
<1>7. StoredInv'
    BY <1>2, StoredUnchanged DEF SafetyInv
<1>8. Clocked'
    BY <1>2, <1>3, <1>4 DEF SafetyInv, Clocked
<1>9. LowerBound' = LowerBound /\ (UseReplay(cur)' <=> UseReplay(cur))
    BY <1>2 DEF LowerBound, UseReplay
<1>10. PageInv'
    <2>1. SUFFICES ASSUME ~UseReplay(cur), NEW r \in page
                   PROVE  r.ts > cursor
        BY <1>1, <1>2, <1>9 DEF PageInv
    <2>. QED
        BY <1>1, <1>2, <1>6, <2>1 DEF SafetyInv, PassInv, ReadInv, LowerBound, Selected, RecordsSince
<1>11. SendInv'
    <2>1. SUFFICES ASSUME NEW r \in source[cur], NEW last \in page,
                          LowerBound < r.ts, r.ts <= last.ts, r \notin page
                   PROVE  Served(cur, r) \/ last.ts <= r.ts + CommitLag
        BY <1>1, <1>2, <1>9 DEF SendInv, Served, Overtaken
    <2>2. r.ts \in Int /\ last.ts \in Int
        BY <1>1, <1>4, <1>5
    \* A selected row that is not on the page comes after it.
    <2>3. CASE r \in Selected
        <3>1. Before(last, r)
            BY <1>1, <2>1, <2>3 DEF IsPage
        <3>. QED
            BY <2>1, <2>2, <3>1, ClockAssumption DEF Before
    \* A row that is not selected is below the bound reached by the pass.
    <2>4. CASE r \notin Selected
        <3>1. last \in Selected
            BY <1>1
        <3>2. Unbounded(replay.until) \/ r.ts <= replay.until \/ ~UseReplay(cur)
            BY <1>6, <2>1, <2>2, <3>1 DEF Selected, RecordsWindow
        <3>3. r.ts <= effectiveSince
            <4>1. CASE UseReplay(cur)
                BY <1>6, <2>1, <2>2, <2>4, <3>2, <4>1
                   DEF Selected, RecordsWindow, RecordsSince, RecordsAfter, Beyond
            <4>2. CASE ~UseReplay(cur)
                BY <1>6, <2>1, <2>2, <2>4, <4>2 DEF Selected, RecordsSince
            <4>. QED
                BY <4>1, <4>2
        <3>. QED
            BY <1>2, <2>1, <3>3 DEF SafetyInv, PassInv, ReadInv, Swept
    <2>. QED
        BY <2>3, <2>4
<1>. QED
    BY <1>2, <1>7, <1>8, <1>10, <1>11
       DEF SafetyInv, PassInv, PassStart, ReadInv, AckedInv, HeartbeatFollowsSuccess

LEMMA SafetySendAccepted ==
    ASSUME SafetyInv, TypeInv', SendAccepted
    PROVE  SafetyInv'
<1>. USE DEF sourceVars, trackerVars, processVars, passVars, historyVars
<1>1. /\ pc = "send" /\ pc' = "acked"
      /\ acked' = [acked EXCEPT ![cur] = @ \cup records]
      /\ UNCHANGED <<now, source, cursors, file, replay, replayCompleted, cur, cursor,
                     records, succeeded, heartbeats>>
    BY DEF SendAccepted
<1>2. cur \in DB /\ TypeOK
    BY <1>1 DEF SafetyInv, TypeInv, TypeOK, Processing
<1>3. /\ \A d \in DB : acked[d] \subseteq acked'[d]
      /\ \A d \in DB : \A r \in acked'[d] : r \in acked[d] \/ r \in records
      /\ records \subseteq acked'[cur]
    BY <1>1, <1>2 DEF TypeOK
<1>4. StoredInv'
    <2>1. ASSUME NEW d \in DB, NEW c, Backed(d, c), Covered(d, c)
          PROVE  Backed(d, c)' /\ Covered(d, c)'
        BY <1>1, <1>3, <2>1, ServedGrows DEF Covered
    <2>. QED
        BY <1>1, <2>1 DEF SafetyInv, StoredInv
<1>5. Clocked'
    BY <1>1, <1>3 DEF SafetyInv, Clocked
<1>6. LowerBound' = LowerBound /\ (UseReplay(cur)' <=> UseReplay(cur))
    BY <1>1 DEF LowerBound, UseReplay
<1>7. AckedInv'
    <2>1. ASSUME NEW r \in source[cur], NEW last \in records,
                 LowerBound < r.ts, r.ts <= last.ts
          PROVE  Served(cur, r)'
        <3>1. CASE Served(cur, r)
            BY <1>1, <1>2, <1>3, <3>1 DEF Served, Overtaken
        <3>2. CASE r \in records
            BY <1>1, <1>3, <3>2 DEF Served
        <3>3. CASE last.ts <= r.ts + CommitLag
            BY <1>1, <1>3, <2>1, <3>3 DEF Served, Overtaken
        <3>. QED
            BY <1>1, <2>1, <3>1, <3>2, <3>3 DEF SafetyInv, PassInv, SendInv
    <2>. QED
        BY <1>1, <1>3, <1>6, <2>1 DEF AckedInv, Swept
<1>. QED
    BY <1>1, <1>3, <1>4, <1>5, <1>6, <1>7
       DEF SafetyInv, PassInv, PassStart, ReadInv, SendInv, PageInv, HeartbeatFollowsSuccess

\* The steps by which a pass continues or ends after its page was delivered.
LEMMA SafetyAfterAck ==
    ASSUME SafetyInv, TypeInv', Advance \/ AdvanceFails \/ ReplayNext \/ ReplayDone
    PROVE  SafetyInv'
<1>. USE DEF sourceVars, trackerVars, processVars, passVars, historyVars
<1>1. /\ pc = "acked" /\ records' = {}
      /\ UNCHANGED <<now, source, acked, heartbeats>>
    BY DEF Advance, AdvanceFails, ReplayNext, ReplayDone, Return, NoPass
<1>2. cur \in DB /\ TypeOK /\ StoredInv /\ records # {} /\ cursor = cursors[cur]
    BY <1>1 DEF SafetyInv, TypeInv, TypeOK, Processing, PassInv, PassStart
<1>3. DEFINE last == LastRecord(records)
<1>4. last \in records /\ last \in Row
    BY <1>2, LastRecordIsLast DEF SafetyInv, TypeInv, TypeOK
<1>5. last \in acked[cur] /\ Swept(last.ts)
    BY <1>1, <1>4 DEF SafetyInv, PassInv, AckedInv
<1>6. last.ts \in Time /\ last.ts \in Int
    BY <1>4 DEF Row, Time
<1>7. Backed(cur, last.ts)
    BY <1>5, <1>6 DEF Backed
<1>8. succeeded' \subseteq succeeded \cup {cur}
    BY DEF Advance, AdvanceFails, ReplayNext, ReplayDone
<1>9. HeartbeatFollowsSuccess'
    BY <1>1, <1>5, <1>8 DEF SafetyInv, HeartbeatFollowsSuccess
<1>10. CASE Advance \/ AdvanceFails
    <2>1. SetCursorAnyhow(cur, last.ts) /\ pc' = "cycle" /\ ~UseReplay(cur)
        BY <1>10 DEF Advance, AdvanceFails, SetCursorAnyhow, Return
    <2>2. ASSUME NEW r \in source[cur], r.ts <= last.ts
          PROVE  Served(cur, r)
        <3>1. r.ts \in Int /\ cursor \in Int
            BY <1>2 DEF TypeOK, Row, Time, ZeroTime
        <3>2. CASE r.ts <= cursor
            BY <1>2, <3>2 DEF StoredInv, Covered
        <3>3. CASE cursor < r.ts
            BY <1>5, <2>1, <2>2, <3>3 DEF Swept, LowerBound
        <3>. QED
            BY <3>1, <3>2, <3>3
    <2>3. Covered(cur, last.ts)
        BY <2>2 DEF Covered
    <2>4. StoredInv'
        BY <1>1, <1>2, <1>6, <1>7, <2>1, <2>3, StoredBySetCursor
    <2>. QED
        BY <1>1, <1>9, <2>1, <2>4, SafetyOutsidePass
<1>11. CASE ReplayNext
    <2>1. /\ pc' = "read" /\ effectiveSince' = last.ts /\ UseReplay(cur)
          /\ UNCHANGED <<cursors, file, replay, replayCompleted, cur, cursor>>
        BY <1>11 DEF ReplayNext
    <2>2. StoredInv'
        BY <1>1, <1>2, <2>1, StoredUnchanged
    <2>3. ReadInv'
        BY <1>1, <1>5, <1>7, <2>1
           DEF ReadInv, Swept, LowerBound, UseReplay, Served, Overtaken, Backed
    <2>. QED
        BY <1>1, <1>9, <2>1, <2>2, <2>3
           DEF SafetyInv, Clocked, PassInv, PassStart, SendInv, AckedInv, PageInv
<1>12. CASE ReplayDone
    <2>1. /\ SetCursorAnyhow(cur, FinalCursor(last.ts)) /\ pc' = "cycle"
          /\ UseReplay(cur)
        BY <1>12 DEF ReplayDone, CompleteReplay, Return
    <2>2. Backed(cur, FinalCursor(last.ts)) /\ Covered(cur, FinalCursor(last.ts))
        BY <1>2, <1>5, <1>6, <1>7, <2>1, FinalCursorGood
    <2>3. FinalCursor(last.ts) \in Time
        BY <1>2, <1>6, FinalCursorType
    <2>4. StoredInv'
        BY <1>1, <1>2, <2>1, <2>2, <2>3, StoredBySetCursor
    <2>. QED
        BY <1>1, <1>9, <2>1, <2>4, SafetyOutsidePass
<1>. QED
    BY <1>10, <1>11, <1>12

\* The steps by which a pass ends without a delivery.
LEMMA SafetyNoDelivery ==
    ASSUME SafetyInv, TypeInv',
           ReadFails \/ ReadNothing \/ HeartbeatSent \/ NoHeartbeat \/ SendFails
    PROVE  SafetyInv'
<1>. USE DEF sourceVars, trackerVars, processVars, passVars, historyVars
<1>1. /\ pc' \notin {"read", "send", "acked"} /\ records' = {}
      /\ UNCHANGED <<now, source, acked, succeeded>>
    BY DEF ReadFails, ReadNothing, HeartbeatSent, NoHeartbeat, SendFails, Return, NoPass,
        SafetyInv, TypeInv, TypeOK
<1>2. cur \in DB /\ TypeOK /\ StoredInv
    BY DEF ReadFails, ReadNothing, HeartbeatSent, NoHeartbeat, SendFails, SafetyInv,
        TypeInv, TypeOK, Processing
<1>3. heartbeats' \subseteq heartbeats \cup succeeded
    BY DEF ReadFails, ReadNothing, HeartbeatSent, NoHeartbeat, SendFails
<1>4. HeartbeatFollowsSuccess'
    BY <1>1, <1>3 DEF SafetyInv, HeartbeatFollowsSuccess
<1>5. CASE UNCHANGED <<cursors, file>>
    BY <1>1, <1>2, <1>4, <1>5, StoredUnchanged, SafetyOutsidePass
<1>6. CASE ReadNothing /\ UseReplay(cur)
    <2>1. SetCursorAnyhow(cur, FinalCursor(effectiveSince)) /\ pc = "read"
        BY <1>6 DEF ReadNothing, CompleteReplay
    <2>2. Backed(cur, FinalCursor(effectiveSince)) /\ Covered(cur, FinalCursor(effectiveSince))
        BY <1>2, <1>6, <2>1, FinalCursorGood
           DEF SafetyInv, PassInv, ReadInv, PassStart, TypeOK
    <2>3. FinalCursor(effectiveSince) \in Time
        BY <1>2, FinalCursorType DEF TypeOK
    <2>. QED
        BY <1>1, <1>2, <1>4, <2>1, <2>2, <2>3, StoredBySetCursor, SafetyOutsidePass
<1>7. CASE SendFails /\ UseReplay(cur)
    <2>1. SetCursorAnyhow(cur, RewoundCursor) /\ pc = "send"
        BY <1>7 DEF SendFails
    <2>2. Backed(cur, RewoundCursor) /\ Covered(cur, RewoundCursor)
        BY <1>2, <2>1, RewoundCursorGood DEF SafetyInv, PassInv, PassStart
    <2>. QED
        BY <1>1, <1>2, <1>4, <2>1, <2>2, RewoundCursorType, StoredBySetCursor, SafetyOutsidePass
<1>. QED
    BY <1>5, <1>6, <1>7 DEF ReadFails, ReadNothing, HeartbeatSent, NoHeartbeat, SendFails

LEMMA SafetyNext == SafetyInv /\ [Next]_vars => SafetyInv'
<1>. SUFFICES ASSUME SafetyInv, [Next]_vars
              PROVE  SafetyInv'
    OBVIOUS
<1>. USE DEF sourceVars, trackerVars, processVars, passVars, historyVars
<1>1. TypeInv'
    BY TypeNext DEF SafetyInv
<1>2. CASE Tick
    BY <1>1, <1>2
       DEF Tick, SafetyInv, TypeInv, TypeOK, Row, StoredInv, Backed, Covered, Served, Overtaken,
           Clocked, PassInv, PassStart, ReadInv, SendInv, AckedInv, PageInv, Swept,
           LowerBound, UseReplay, HeartbeatFollowsSuccess
<1>3. ASSUME NEW d \in DB, NEW id \in Id, NEW ts \in 0..now, Write(d, id, ts)
      PROVE  SafetyInv'
    BY <1>1, <1>3, SafetyWrite
<1>4. CASE Starting \/ Crash \/ CrashInSave
    BY <1>1, <1>4, SafetyProcess
<1>5. CASE Cycle
    BY <1>1, <1>5, SafetyCycle
<1>6. CASE Pass
    BY <1>1, <1>6, SafetyReadPage, SafetySendAccepted, SafetyAfterAck, SafetyNoDelivery DEF Pass
<1>7. CASE UNCHANGED vars
    BY <1>1, <1>7
       DEF vars, SafetyInv, StoredInv, Backed, Covered, Served, Overtaken,
           Clocked, PassInv, PassStart, ReadInv, SendInv, AckedInv, PageInv, Swept,
           LowerBound, UseReplay, HeartbeatFollowsSuccess
<1>. QED
    BY <1>2, <1>3, <1>4, <1>5, <1>6, <1>7 DEF Next, Environment

LEMMA SafetyInvariant == Spec => []SafetyInv
BY SafetyInit, SafetyNext, PTL DEF Spec

\* No cursor is past an undelivered row, but for rows that a delivered row ties with
\* or follows within the commit lag.
THEOREM NoGap == Spec => []NoSilentGap
<1>1. SafetyInv => NoSilentGap
    BY DEF SafetyInv, StoredInv, Covered, Served, NoSilentGap
<1>. QED
    BY <1>1, SafetyInvariant, PTL

\* A heartbeat follows an accepted batch of its database.
THEOREM HeartbeatsFollow == Spec => []HeartbeatFollowsSuccess
<1>1. SafetyInv => HeartbeatFollowsSuccess
    BY DEF SafetyInv
<1>. QED
    BY <1>1, SafetyInvariant, PTL

\* Where the documentation's promise holds (docs/collector-workflow.md:111): if rows
\* are committed in the millisecond they are stamped with, a row a stored cursor has
\* passed was delivered, unless it shares its millisecond with another row that was.
THEOREM NothingSkippedButTies ==
    ASSUME CommitLag = 0
    PROVE  Spec => [](\A d \in DB : \A r \in source[d] :
                        r.ts <= file[d] =>
                            r \in acked[d] \/ \E q \in acked[d] : q # r /\ q.ts = r.ts)
<1>1. ASSUME SafetyInv, NEW d \in DB, NEW r \in source[d], r.ts <= file[d], r \notin acked[d]
      PROVE  \E q \in acked[d] : q # r /\ q.ts = r.ts
    <2>1. PICK q \in acked[d] : r.ts <= q.ts /\ q.ts <= r.ts + CommitLag
        BY <1>1 DEF SafetyInv, StoredInv, Covered, Served, Overtaken
    <2>2. q.ts \in Int /\ r.ts \in Int
        BY <1>1 DEF SafetyInv, TypeInv, TypeOK, Row
    <2>3. q.ts = r.ts
        BY <2>1, <2>2
    <2>. QED
        BY <1>1, <2>1, <2>3
<1>2. SafetyInv => \A d \in DB : \A r \in source[d] :
        r.ts <= file[d] => r \in acked[d] \/ \E q \in acked[d] : q # r /\ q.ts = r.ts
    BY <1>1
<1>. QED
    BY <1>2, SafetyInvariant, PTL

\* The violation of CanRestart is for good: a process that finds a torn state file
\* does not start, and nothing but a process writes it (tracker.go:80-106, main.go:70-76).
THEOREM TornStateIsFinal ==
    Spec => [](torn /\ pc = "down" => [](torn /\ pc = "down"))
<1>1. torn /\ pc = "down" /\ [Next]_vars => (torn /\ pc = "down")'
    BY DEF Next, Environment, Tick, Write, Starting, Start, Load, Crash, CrashInSave, Dead,
        Cycle, BeginCycle, BeginDatabase, SkipDatabase, EndCycle, Pass, ReadFails, ReadPage,
        ReadNothing, HeartbeatSent, NoHeartbeat, SendAccepted, SendFails, Advance,
        AdvanceFails, ReplayNext, ReplayDone, vars, trackerVars
<1>. QED
    BY <1>1, PTL DEF Spec
=============================================================================
