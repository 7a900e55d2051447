--------------------------- MODULE LifecycleProofs ---------------------------
(***************************************************************************)
(* For any set of databases, number of batches and grace period: however   *)
(* processes end, a stored cursor covers batches in the topic only, and a  *)
(* process that ends by itself leaves no call and no batch behind.         *)
(***************************************************************************)
EXTENDS Lifecycle, TLAPS

\* What holds while Run is at each place: its call is in flight while it sends and
\* never after Close, an acknowledged record was appended, the batch Run works on is
\* the one after the cursor in memory, and once it was appended it is in the topic.
RunInv ==
    /\ InCall <=> run = "sending"
    /\ closed => run = "returned"
    /\ run = "returned" => closed
    /\ producing = "acked" => appended
    /\ appended => InCall
    /\ run = "sending" /\ appended => batch \in topic[cur]
    /\ run = "acked" => batch # Heartbeat /\ batch \in topic[cur] /\ acked[cur] = batch
    /\ run \in {"sending", "acked"} /\ batch # Heartbeat => batch = cursors[cur] + 1

\* A cursor in memory covers batches in the topic, too: any save writes them all.
MemoryIsInTopic == \A d \in DB : 1..cursors[d] \subseteq topic[d]

InHand(d) == run = "acked" /\ cur = d

\* A batch known to be in the topic is behind the cursor in memory unless it is in
\* hand or its SetCursor failed; and behind the stored one unless, besides, the last
\* write failed, for a write that succeeds stores the whole memory.
Drained ==
    /\ main = "down" => acked = NoCursors
    /\ \A d \in DB : acked[d] > cursors[d] => d \in failed \/ InHand(d)
    /\ \A d \in DB : acked[d] > file[d] => d \in failed \/ lastFailed \/ InHand(d)

LifecycleInv == TypeOK /\ RunInv /\ MemoryIsInTopic /\ SavedIsInTopic /\ Drained

USE LifecycleAssumption DEF Heartbeat

\* TypeOK without the Boolean variables.
OtherTypes ==
    /\ main \in {"down", "waiting", "grace"}
    /\ exit \in {"none", "clean", "forced", "killed"}
    /\ elapsed \in 0..Grace
    /\ run \in {"none", "cycle", "sending", "acked", "select", "returned"}
    /\ main = "down" <=> run = "none"
    /\ dbs \subseteq DB
    /\ run \in {"sending", "acked"} <=> cur # NoDB
    /\ cur \in DB \cup {NoDB}
    /\ batch \in 0..MaxBatches
    /\ cursors \in [DB -> 0..MaxBatches] /\ file \in [DB -> 0..MaxBatches]
    /\ acked \in [DB -> 0..MaxBatches]
    /\ topic \in [DB -> SUBSET (0..MaxBatches)]
    /\ failed \subseteq DB
    /\ producing \in {"no", "waiting", "acked", "error"}

Booleans ==
    /\ signalled \in BOOLEAN /\ closed \in BOOLEAN /\ tick \in BOOLEAN
    /\ lastFailed \in BOOLEAN /\ appended \in BOOLEAN

LEMMA TypeParts == TypeOK <=> Booleans /\ OtherTypes
BY DEF TypeOK, Booleans, OtherTypes

LEMMA LifecycleInit == Init => LifecycleInv
<1> SUFFICES ASSUME Init PROVE LifecycleInv OBVIOUS
<1> USE DEF Init, KafkaInit, NoCursors
<1>1. Booleans BY DEF Booleans
<1>2. OtherTypes BY DEF OtherTypes
<1>3. RunInv BY DEF RunInv, InCall
<1>4. MemoryIsInTopic /\ SavedIsInTopic BY DEF MemoryIsInTopic, SavedIsInTopic
<1>5. Drained BY DEF Drained
<1>6. QED BY <1>1, <1>2, <1>3, <1>4, <1>5, TypeParts DEF LifecycleInv
-----------------------------------------------------------------------------
(* main.                                                                   *)

LEMMA TypeExit ==
    ASSUME TypeOK, NEW how \in {"clean", "forced", "killed"}, Exit(how) PROVE TypeOK'
<1>1. Booleans' BY DEF Exit, Dropped, Booleans
<1>2. OtherTypes' BY DEF Exit, Emptied, Dropped, OtherTypes, TypeOK, NoCursors
<1>3. QED BY <1>1, <1>2 DEF TypeOK, Booleans, OtherTypes

LEMMA TypeMain ==
    ASSUME LifecycleInv, Main PROVE TypeOK'
<1> USE DEF LifecycleInv, TypeOK, runVars, storeVars, kafkaVars
<1>1. CASE Return \/ ForceExit \/ Kill
    BY <1>1, TypeExit DEF Return, ForceExit, Kill
<1>2. CASE Signal \/ BeginGrace \/ Elapse
    <2>1. Booleans' BY <1>2 DEF Signal, BeginGrace, Elapse, Booleans
    <2>2. OtherTypes' BY <1>2 DEF Signal, BeginGrace, Elapse, OtherTypes
    <2>3. QED BY <2>1, <2>2, TypeParts DEF Booleans, OtherTypes
<1>3. ASSUME NEW resolved \in SUBSET DB, Start(resolved) PROVE TypeOK'
    <2>1. Booleans' BY <1>3 DEF Start, Booleans
    <2>2. OtherTypes' BY <1>3 DEF Start, OtherTypes
    <2>3. QED BY <2>1, <2>2, TypeParts DEF Booleans, OtherTypes
<1>4. QED BY <1>1, <1>2, <1>3 DEF Main

LEMMA ExitNext ==
    ASSUME LifecycleInv, NEW how \in {"clean", "forced", "killed"}, Exit(how)
    PROVE  LifecycleInv'
<1>1. TypeOK' BY TypeExit DEF LifecycleInv
<1>2. RunInv' BY DEF Exit, Dropped, RunInv, InCall
<1>3. MemoryIsInTopic' BY DEF Exit, MemoryIsInTopic, NoCursors
<1>4. SavedIsInTopic'
    BY DEF Exit, Emptied, LifecycleInv, SavedIsInTopic, NoCursors
<1>5. Drained'
    <2>1. acked' = NoCursors /\ cursors' = NoCursors BY DEF Exit
    <2>2. \A d \in DB : file'[d] \in Nat BY <1>1 DEF TypeOK
    <2>3. QED BY <2>1, <2>2 DEF Drained, NoCursors
<1>6. QED BY <1>1, <1>2, <1>3, <1>4, <1>5 DEF LifecycleInv

LEMMA MainNext ==
    ASSUME LifecycleInv, Main PROVE LifecycleInv'
<1>1. CASE Signal \/ BeginGrace \/ Elapse
    <2>1. UNCHANGED <<runVars, storeVars, topic, acked, kafkaVars>> /\ main' # "down"
        BY <1>1 DEF Signal, BeginGrace, Elapse
    <2>2. QED BY <2>1, TypeMain DEF LifecycleInv, RunInv, InCall, MemoryIsInTopic,
                SavedIsInTopic, Drained, InHand, runVars, storeVars, kafkaVars
<1>2. CASE Return \/ ForceExit \/ Kill
    BY <1>2, ExitNext DEF Return, ForceExit, Kill
<1>3. ASSUME NEW resolved \in SUBSET DB, Start(resolved) PROVE LifecycleInv'
    <2>1. run = "none" /\ run' = "cycle" BY <1>3 DEF Start, LifecycleInv, TypeOK
    <2>2. RunInv'
        BY <1>3, <2>1 DEF Start, LifecycleInv, RunInv, InCall, kafkaVars
    <2>3. MemoryIsInTopic' /\ SavedIsInTopic'
        BY <1>3 DEF Start, LifecycleInv, MemoryIsInTopic, SavedIsInTopic
    <2>4. acked' = NoCursors BY <1>3 DEF Start, LifecycleInv, Drained
    <2>5. TypeOK' BY <1>3, TypeMain DEF Main
    <2>6. Drained' BY <2>4, <2>5 DEF Drained, NoCursors, TypeOK
    <2>7. QED BY <2>2, <2>3, <2>5, <2>6 DEF LifecycleInv
<1>4. QED BY <1>1, <1>2, <1>3 DEF Main
-----------------------------------------------------------------------------
(* Run and its transport.                                                  *)

LEMMA TypeRun ==
    ASSUME LifecycleInv, Run \/ Appended \/ Produced PROVE TypeOK'
<1> USE DEF LifecycleInv, TypeOK, runVars, mainVars, storeVars, kafkaVars
<1>1. CASE TickerFires \/ EndCycle
    <2>1. Booleans' BY <1>1 DEF TickerFires, EndCycle, Booleans
    <2>2. OtherTypes' BY <1>1 DEF TickerFires, EndCycle, OtherTypes
    <2>3. QED BY <2>1, <2>2 DEF Booleans, OtherTypes
<1>2. CASE CloseTransport BY <1>2 DEF CloseTransport, Close
<1>3. ASSUME NEW resolved \in SUBSET DB, BeginCycle(resolved) PROVE TypeOK'
    BY <1>3 DEF BeginCycle
<1>4. ASSUME NEW d \in DB, Skip(d) PROVE TypeOK' BY <1>4 DEF Skip
<1>5. ASSUME NEW d \in DB, NEW b \in 0..MaxBatches, Send(d, b) PROVE TypeOK'
    BY <1>5 DEF Send, SendBatch
<1>6. CASE Appended
    <2>1. cur \in DB BY <1>6 DEF Appended, BrokerAppends, RunInv, InCall
    <2>2. topic' \in [DB -> SUBSET (0..MaxBatches)] BY <1>6, <2>1 DEF Appended
    <2>3. appended' \in BOOLEAN BY <1>6 DEF Appended, BrokerAppends
    <2>4. QED BY <1>6, <2>2, <2>3 DEF Appended, BrokerAppends
<1>7. CASE Produced BY <1>7 DEF Produced, BrokersAcknowledge, ProduceFails
<1>8. CASE Accepted BY <1>8 DEF Accepted, Accept, Returns
<1>9. CASE HeartbeatAccepted BY <1>9 DEF HeartbeatAccepted, Accept, Returns, Leave
<1>10. CASE Failed
    <2>1. Booleans' BY <1>10 DEF Failed, Fail, Returns, Leave, Booleans
    <2>2. OtherTypes' BY <1>10 DEF Failed, Fail, Returns, Leave, OtherTypes
    <2>3. QED BY <2>1, <2>2 DEF Booleans, OtherTypes
<1>11. CASE Save
    <2>1. Booleans' BY <1>11 DEF Save, Leave, Booleans
    <2>2. OtherTypes' BY <1>11 DEF Save, Leave, OtherTypes
    <2>3. QED BY <2>1, <2>2 DEF Booleans, OtherTypes
<1>12. CASE SaveFails BY <1>12 DEF SaveFails, Leave, NoCursors
<1>13. QED BY <1>1, <1>2, <1>3, <1>4, <1>5, <1>6, <1>7, <1>8, <1>9, <1>10, <1>11, <1>12
          DEF Run

\* A step that leaves the cursors, the topic and what is acknowledged alone.
LEMMA StoreUntouched ==
    ASSUME LifecycleInv, UNCHANGED <<main, storeVars, topic, acked>>,
           \A d \in DB : InHand(d) => InHand(d)'
    PROVE  MemoryIsInTopic' /\ SavedIsInTopic' /\ Drained'
BY DEF LifecycleInv, MemoryIsInTopic, SavedIsInTopic, Drained, storeVars

LEMMA SetCursorNext ==
    ASSUME LifecycleInv, TypeOK', Save \/ SaveFails PROVE LifecycleInv'
<1>1. /\ cur \in DB /\ batch = cursors[cur] + 1 /\ batch \in topic[cur] /\ acked[cur] = batch
      /\ cursors[cur] \in Nat /\ run = "acked" /\ run' = "cycle" /\ main # "down"
    BY DEF Save, SaveFails, Leave, LifecycleInv, RunInv, TypeOK
<1>2. UNCHANGED <<main, topic, acked, producing, appended, closed>> /\ ~closed /\ ~InCall
    BY <1>1 DEF Save, SaveFails, Leave, LifecycleInv, RunInv, kafkaVars, mainVars
<1>3. RunInv' BY <1>1, <1>2 DEF LifecycleInv, RunInv, InCall
<1>4. cursors' \in {cursors, [cursors EXCEPT ![cur] = batch]}
    BY DEF Save, SaveFails
<1>5. \A d \in DB : cursors'[d] = cursors[d] \/ (d = cur /\ cursors'[d] = batch)
    BY <1>1, <1>4 DEF LifecycleInv, TypeOK
<1>6. ASSUME NEW d \in DB PROVE 1..cursors'[d] \subseteq topic'[d]
    <2>1. 1..cursors[d] \subseteq topic[d] BY DEF LifecycleInv, MemoryIsInTopic
    <2>2. CASE cursors'[d] = cursors[d] BY <1>2, <2>1, <2>2
    <2>3. CASE d = cur /\ cursors'[d] = batch
        <3>1. 1..batch = (1..cursors[d]) \cup {batch} BY <1>1, <2>3
        <3>2. QED BY <1>1, <1>2, <2>1, <2>3, <3>1
    <2>4. QED BY <1>5, <2>2, <2>3
<1>7. file' \in {file, cursors', NoCursors} BY DEF Save, SaveFails
<1>8. ASSUME NEW d \in DB PROVE 1..file'[d] \subseteq topic'[d]
    <2>1. CASE file' = file BY <1>2, <2>1 DEF LifecycleInv, SavedIsInTopic
    <2>2. CASE file' = cursors' BY <1>6, <2>2
    <2>3. CASE file' = NoCursors BY <2>3 DEF NoCursors
    <2>4. QED BY <1>7, <2>1, <2>2, <2>3
<1>9. Drained'
    <2>1. CASE Save
        <3>1. cursors' = [cursors EXCEPT ![cur] = batch] /\ file' = cursors'
              /\ failed' = failed \ {cur}
            BY <2>1 DEF Save
        <3>2. cursors'[cur] = batch /\ acked'[cur] = batch
            BY <1>1, <1>2, <3>1 DEF LifecycleInv, TypeOK
        <3>3. ASSUME NEW d \in DB, acked'[d] > cursors'[d] PROVE d \in failed'
            <4>1. d # cur BY <1>1, <3>2, <3>3
            <4>2. cursors'[d] = cursors[d] BY <1>5, <4>1
            <4>3. d \in failed
                BY <1>2, <3>3, <4>1, <4>2 DEF LifecycleInv, Drained, InHand
            <4>4. QED BY <3>1, <4>1, <4>3
        <3>4. QED BY <1>1, <1>2, <3>1, <3>3 DEF Drained
    <2>2. CASE SaveFails
        <3>1. lastFailed' /\ failed' = failed \cup {cur} BY <2>2 DEF SaveFails
        <3>2. ASSUME NEW d \in DB, acked'[d] > cursors'[d] PROVE d \in failed'
            <4>1. CASE d = cur BY <3>1, <4>1
            <4>2. CASE d # cur
                <5>1. cursors'[d] = cursors[d] BY <1>5, <4>2
                <5>2. d \in failed
                    BY <1>2, <3>2, <4>2, <5>1 DEF LifecycleInv, Drained, InHand
                <5>3. QED BY <3>1, <5>2
            <4>3. QED BY <4>1, <4>2
        <3>3. QED BY <1>1, <1>2, <3>1, <3>2 DEF Drained
    <2>3. QED BY <2>1, <2>2
<1>10. QED BY <1>3, <1>6, <1>8, <1>9 DEF LifecycleInv, MemoryIsInTopic, SavedIsInTopic

LEMMA RunNext ==
    ASSUME LifecycleInv, Run \/ Appended \/ Produced PROVE LifecycleInv'
<1> USE TypeRun
<1>1. CASE TickerFires
    <2>1. RunInv' BY <1>1 DEF TickerFires, LifecycleInv, RunInv, InCall, storeVars, kafkaVars
    <2>2. QED BY <1>1, <2>1, StoreUntouched DEF TickerFires, LifecycleInv, InHand, mainVars
<1>2. CASE EndCycle
    BY <1>2, StoreUntouched
    DEF EndCycle, LifecycleInv, RunInv, InCall, InHand, mainVars, kafkaVars
<1>3. CASE CloseTransport
    BY <1>3, StoreUntouched
    DEF CloseTransport, Close, LifecycleInv, RunInv, InCall, InHand, mainVars
<1>4. ASSUME NEW resolved \in SUBSET DB, BeginCycle(resolved) PROVE LifecycleInv'
    BY <1>4, StoreUntouched
    DEF BeginCycle, LifecycleInv, RunInv, InCall, InHand, mainVars, kafkaVars
<1>5. ASSUME NEW d \in DB, Skip(d) PROVE LifecycleInv'
    BY <1>5, StoreUntouched
    DEF Skip, LifecycleInv, RunInv, InCall, InHand, mainVars, kafkaVars
<1>6. ASSUME NEW d \in DB, NEW b \in 0..MaxBatches, Send(d, b) PROVE LifecycleInv'
    <2>1. RunInv'
        BY <1>6 DEF Send, SendBatch, LifecycleInv, RunInv, InCall, storeVars
    <2>2. QED BY <1>6, <2>1, StoreUntouched DEF Send, InHand, LifecycleInv, mainVars
<1>7. CASE Appended
    <2>1. cur \in DB /\ run = "sending"
        BY <1>7 DEF Appended, BrokerAppends, LifecycleInv, RunInv, InCall, TypeOK
    <2>2. batch \in topic'[cur] /\ \A d \in DB : topic[d] \subseteq topic'[d]
        BY <1>7, <2>1 DEF Appended, LifecycleInv, TypeOK
    <2>3. UNCHANGED <<main, run, cur, batch, acked, cursors, file, failed, lastFailed,
                      producing, closed>>
        BY <1>7 DEF Appended, BrokerAppends, mainVars, runVars, storeVars
    <2>4. RunInv' BY <1>7, <2>1, <2>2, <2>3
        DEF Appended, BrokerAppends, LifecycleInv, RunInv, InCall
    <2>5. MemoryIsInTopic' /\ SavedIsInTopic'
        BY <2>2, <2>3 DEF LifecycleInv, MemoryIsInTopic, SavedIsInTopic
    <2>6. Drained' BY <2>3 DEF LifecycleInv, Drained, InHand
    <2>7. QED BY <2>4, <2>5, <2>6 DEF LifecycleInv
<1>8. CASE Produced
    <2>1. RunInv'
        BY <1>8 DEF Produced, BrokersAcknowledge, ProduceFails, LifecycleInv, RunInv, InCall,
                    runVars, storeVars
    <2>2. QED BY <1>8, <2>1, StoreUntouched DEF Produced, InHand, LifecycleInv, mainVars,
                    runVars
<1>9. CASE Accepted
    <2>1. /\ cur \in DB /\ batch # Heartbeat /\ batch \in topic[cur] /\ run' = "acked"
          /\ acked' = [acked EXCEPT ![cur] = batch]
          /\ UNCHANGED <<main, cur, batch, cursors, file, failed, lastFailed, topic>>
        BY <1>9 DEF Accepted, Accept, LifecycleInv, RunInv, TypeOK, mainVars, storeVars
    <2>2. main # "down" /\ acked'[cur] = batch /\ \A d \in DB : d # cur => acked'[d] = acked[d]
        BY <1>9, <2>1 DEF Accepted, LifecycleInv, TypeOK
    <2>3. RunInv'
        BY <1>9, <2>1, <2>2 DEF Accepted, Accept, Returns, LifecycleInv, RunInv, InCall
    <2>4. MemoryIsInTopic' /\ SavedIsInTopic'
        BY <2>1 DEF LifecycleInv, MemoryIsInTopic, SavedIsInTopic
    <2>5. run # "acked" BY <1>9 DEF Accepted
    <2>6. Drained' BY <2>1, <2>2, <2>5 DEF LifecycleInv, Drained, InHand
    <2>7. QED BY <2>3, <2>4, <2>6 DEF LifecycleInv
<1>10. CASE HeartbeatAccepted \/ Failed
    <2>1. RunInv'
        BY <1>10 DEF HeartbeatAccepted, Failed, Accept, Fail, Returns, Leave, LifecycleInv,
                     RunInv, InCall
    <2>2. QED BY <1>10, <2>1, StoreUntouched DEF HeartbeatAccepted, Failed, Leave, InHand,
                     LifecycleInv, mainVars
<1>11. CASE Save \/ SaveFails BY <1>11, SetCursorNext
<1>12. QED BY <1>1, <1>2, <1>3, <1>4, <1>5, <1>6, <1>7, <1>8, <1>9, <1>10, <1>11 DEF Run

LEMMA LifecycleInvariant == Spec => []LifecycleInv
<1>1. LifecycleInv /\ [Next]_vars => LifecycleInv'
    <2>1. CASE UNCHANGED vars
        BY <2>1 DEF vars, mainVars, runVars, storeVars, kafkaVars, LifecycleInv, TypeOK,
            RunInv, InCall, MemoryIsInTopic, SavedIsInTopic, Drained, InHand
    <2>2. QED BY <2>1, MainNext, RunNext DEF Next
<1>2. QED BY <1>1, LifecycleInit, PTL DEF Spec
-----------------------------------------------------------------------------
\* The types, and what Run holds where.
THEOREM LifecycleType == Spec => []TypeOK
<1>1. LifecycleInv => TypeOK BY DEF LifecycleInv
<1>2. QED BY <1>1, LifecycleInvariant, PTL

\* Every batch a stored cursor covers is in the topic, whenever processes are killed,
\* forced to exit, or exit by themselves.
THEOREM CursorsCoverTopic == Spec => []SavedIsInTopic
<1>1. LifecycleInv => SavedIsInTopic BY DEF LifecycleInv
<1>2. QED BY <1>1, LifecycleInvariant, PTL

\* The transport is not used after Close.
THEOREM CloseIsLast == Spec => []NeverUsedAfterClose
<1>1. LifecycleInv => NeverUsedAfterClose
    BY DEF LifecycleInv, RunInv, NeverUsedAfterClose
<1>2. QED BY <1>1, LifecycleInvariant, PTL

\* A process that ends by itself has no call in flight, has closed the transport,
\* and has stored a cursor for every batch it knows to be in the topic, but for
\* those whose own or whose latest write to the state file failed.
THEOREM CleanExitIsDrained == Spec => CleanExitDrains
<1> DEFINE AllStored ==
        main # "down" /\ main' = "down" /\ exit' = "clean" =>
            /\ ~InCall /\ closed
            /\ \A d \in DB : acked[d] > file[d] => d \in failed \/ lastFailed
<1>1. ASSUME [Next]_vars, main # "down", main' = "down", exit' = "clean" PROVE run = "returned"
    <2>1. CASE Return
        BY <2>1 DEF Return
    <2>2. CASE ForceExit \/ Kill
        BY <1>1, <2>2 DEF ForceExit, Kill, Exit
    <2>3. CASE Signal \/ BeginGrace \/ Elapse \/ \E resolved \in SUBSET DB : Start(resolved)
        BY <1>1, <2>3 DEF Signal, BeginGrace, Elapse, Start
    <2>4. CASE Run \/ Appended \/ Produced \/ UNCHANGED vars
        BY <1>1, <2>4 DEF Run, TickerFires, EndCycle, CloseTransport, BeginCycle, Skip,
            Send, Accepted, HeartbeatAccepted, Failed, Save, SaveFails, Leave, Appended,
            Produced, mainVars, vars
    <2>5. QED
        BY <1>1, <2>1, <2>2, <2>3, <2>4 DEF Next, Main
<1>2. LifecycleInv /\ [Next]_vars => AllStored
    BY <1>1 DEF LifecycleInv, RunInv, Drained, InHand
<1>3. LifecycleInv /\ [Next]_vars => [AllStored]_vars
    BY <1>2
<1>4. QED BY <1>3, LifecycleInvariant, PTL DEF Spec, CleanExitDrains
=============================================================================
