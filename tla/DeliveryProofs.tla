--------------------------- MODULE DeliveryProofs ---------------------------
(***************************************************************************)
(* The collection loop implements Delivery, for every value of the         *)
(* constants.  A step that changes neither the rows, nor the clock, nor    *)
(* what was delivered may move marks, and SafetyInv after the step says    *)
(* that it moved them nowhere they must not be.                            *)
(***************************************************************************)
EXTENDS CollectorProofs

\* The page in hand is made of rows of its database, possibly rewritten since.
KnownInv == pc \in {"send", "acked"} => \A r \in records : D!Known(cur, r)

LEMMA KnownAfterWrite ==
    ASSUME TypeOK, NEW d \in DB, NEW id \in Id, NEW ts \in 0..now, Write(d, id, ts),
           NEW e \in DB, NEW r \in Row, D!Known(e, r)
    PROVE  D!Known(e, r)'
<1>1. PICK q \in source[e] : q.id = r.id /\ r.ts <= q.ts
    BY DEF D!Known
<1>2. CASE q \in source'[e]
    BY <1>1, <1>2 DEF D!Known
<1>3. CASE q \notin source'[e]
    <2>1. e = d /\ q.id = id
        BY <1>3 DEF Write, TypeOK
    <2> DEFINE new == [id |-> id, ts |-> ts]
    <2>2. new \in source'[e] /\ new.id = r.id
        BY <1>1, <2>1 DEF Write, TypeOK
    <2>3. q.ts < ts /\ q.ts \in Nat /\ r.ts \in Nat
        BY <2>1 DEF Write, TypeOK, Row
    <2>4. ts \in Nat BY DEF TypeOK
    <2>5. r.ts <= new.ts
        BY <1>1, <2>3, <2>4
    <2>. QED
        BY <2>2, <2>5 DEF D!Known
<1>. QED
    BY <1>2, <1>3

LEMMA KnownNext ==
    ASSUME TypeOK, TypeOK', KnownInv, [Next]_vars
    PROVE  KnownInv'
<1>. USE DEF KnownInv
<1>1. ASSUME NEW d \in DB, NEW id \in Id, NEW ts \in 0..now, Write(d, id, ts)
      PROVE  KnownInv'
    <2>1. UNCHANGED <<pc, cur, records>>
        BY <1>1 DEF Write, processVars
    <2>2. pc \in {"send", "acked"} => cur \in DB /\ records \subseteq Row
        BY DEF TypeOK, Processing
    <2>. QED
        BY <1>1, <2>1, <2>2, KnownAfterWrite
<1>2. CASE ReadPage
    <2>1. cur \in DB
        BY <1>2 DEF ReadPage, TypeOK, Processing
    <2>2. records' \subseteq source[cur] /\ cur' = cur /\ source' = source
        BY <1>2, <2>1, SelectedIsSource DEF ReadPage, processVars, sourceVars
    <2>3. \A r \in source[cur] : r.ts <= r.ts
        BY <2>1 DEF TypeOK, Row
    <2>. QED
        BY <2>2, <2>3 DEF D!Known
<1>3. CASE pc' \notin {"send", "acked"}
    BY <1>3
<1>4. CASE UNCHANGED <<pc, cur, records, source>>
    BY <1>4 DEF D!Known
<1>5. CASE SendAccepted
    BY <1>5 DEF SendAccepted, sourceVars, processVars, D!Known
<1>6. CASE Tick \/ UNCHANGED vars
    BY <1>4, <1>6 DEF Tick, vars, processVars, passVars, sourceVars
<1>7. CASE Starting \/ Crash \/ CrashInSave \/ Cycle
    BY <1>3, <1>7 DEF Starting, Start, Crash, CrashInSave, Dead, Cycle, BeginCycle,
        BeginDatabase, SkipDatabase, EndCycle
<1>8. CASE Pass /\ ~ReadPage /\ ~SendAccepted
    BY <1>3, <1>8 DEF Pass, ReadFails, ReadNothing, HeartbeatSent, NoHeartbeat, SendFails,
        Advance, AdvanceFails, ReplayNext, ReplayDone, Return
<1>. QED
    BY <1>1, <1>2, <1>5, <1>6, <1>7, <1>8 DEF Next, Environment

LEMMA KnownInvariant == Spec => []KnownInv
<1>1. Init => KnownInv
    BY DEF Init, KnownInv
<1>. QED
    BY <1>1, KnownNext, TypeCorrect, PTL DEF Spec

-----------------------------------------------------------------------------
\* A step that only moves cursors, if it does, is a Move.
LEMMA MoveStep ==
    ASSUME SafetyInv', UNCHANGED <<now, source, acked>>
    PROVE  D!Move
<1>. DEFINE marks == [d \in DB |-> {cursors[d], file[d]}]
<1>1. cursors' \in [DB -> Time] /\ file' \in [DB -> Time]
    BY DEF SafetyInv, TypeInv, TypeOK
<1>2. marks' \in [DB -> SUBSET D!Time]
    BY <1>1 DEF Time, D!Time, ZeroTime, D!ZeroTime
<1>3. ASSUME NEW d \in DB, NEW c \in marks'[d]
      PROVE  /\ D!Reached(d, c)
             /\ \A r \in D!LeftBehind(d, c) : r \in acked[d] \/ D!Overtaken(d, r)
    <2>1. c \in {cursors'[d], file'[d]}
        BY <1>3
    <2>2. Backed(d, c)' /\ Covered(d, c)'
        BY <2>1 DEF SafetyInv, StoredInv
    <2>3. D!Reached(d, c)
        BY <2>2 DEF Backed, D!Reached, ZeroTime, D!ZeroTime
    <2>. QED
        BY <2>2, <2>3 DEF Covered, Served, Overtaken, D!LeftBehind, D!Overtaken
<1>. QED
    BY <1>2, <1>3 DEF D!Move

LEMMA DeliverStep ==
    ASSUME TypeOK, KnownInv, SendAccepted
    PROVE  \E d \in DB : D!Deliver(d)
<1>1. cur \in DB
    BY DEF SendAccepted, TypeOK, Processing
<1>2. acked' = [acked EXCEPT ![cur] = acked[cur] \cup records]
    BY DEF SendAccepted
<1>3. acked'[cur] = acked[cur] \cup records
    BY <1>1, <1>2 DEF TypeOK
<1>4. \A r \in records : D!Known(cur, r)
    BY DEF SendAccepted, KnownInv
<1>5. UNCHANGED <<now, source, cursors, file>>
    BY DEF SendAccepted, sourceVars, trackerVars
<1>6. acked'[cur] \subseteq D!Row
    BY <1>1, <1>3 DEF TypeOK, Row, D!Row
<1>7. D!Deliver(cur)
    BY <1>2, <1>3, <1>4, <1>5, <1>6 DEF D!Deliver
<1>. QED
    BY <1>1, <1>7

LEMMA DeliveryStep ==
    ASSUME TypeOK, KnownInv, SafetyInv', [Next]_vars
    PROVE  [D!Next]_(D!vars)
<1>1. ASSUME NEW d \in DB, NEW id \in Id, NEW ts \in 0..now, Write(d, id, ts)
      PROVE  D!Next
    <2>1. D!Commit(d, id, ts)
        BY <1>1 DEF Write, trackerVars, historyVars, D!Commit
    <2>. QED
        BY <2>1 DEF D!Next
<1>2. CASE Tick
    BY <1>2 DEF Tick, trackerVars, historyVars, D!Clock, D!Next
<1>3. CASE SendAccepted
    BY <1>3, DeliverStep DEF D!Next
<1>4. CASE UNCHANGED <<now, source, acked>>
    BY <1>4, MoveStep DEF D!Next
<1>5. CASE Starting \/ Crash \/ CrashInSave \/ Cycle \/ UNCHANGED vars
    BY <1>4, <1>5 DEF Starting, Start, Crash, CrashInSave, Dead, Cycle, BeginCycle,
        BeginDatabase, SkipDatabase, EndCycle, sourceVars, historyVars, vars
<1>6. CASE Pass /\ ~SendAccepted
    BY <1>4, <1>6 DEF Pass, ReadFails, ReadPage, ReadNothing, HeartbeatSent, NoHeartbeat,
        SendFails, Advance, AdvanceFails, ReplayNext, ReplayDone, sourceVars, historyVars
<1>. QED
    BY <1>1, <1>2, <1>3, <1>5, <1>6 DEF Next, Environment

\* The loop implements Delivery.
THEOREM LoopImplementsDelivery == Spec => ImplementsDelivery
<1>1. ASSUME Init PROVE D!Init
    <2>1. \A d \in DB : {cursors[d], file[d]} = {ZeroTime}
        BY <1>1 DEF Init, NoCursors
    <2>2. [d \in DB |-> {cursors[d], file[d]}] = [d \in DB |-> {ZeroTime}]
        BY <2>1
    <2>. QED
        BY <1>1, <2>2 DEF Init, D!Init, ZeroTime, D!ZeroTime
<1>. QED
    BY <1>1, DeliveryStep, KnownInvariant, TypeCorrect, SafetyInvariant, PTL
       DEF Spec, D!Spec, ImplementsDelivery
=============================================================================
