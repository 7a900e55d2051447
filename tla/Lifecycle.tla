------------------------------ MODULE Lifecycle ------------------------------
(***************************************************************************)
(* The life of a collector process (cmd/opencode-collector/main.go and     *)
(* Collector.Run) around a Kafka transport, the one that is closed at the  *)
(* end.  Two goroutines: Run, which cycles over the databases and makes    *)
(* one call at a time, and main, which waits for Run or a signal and, once *)
(* signalled, gives Run 30 seconds before it exits the process.  Run works *)
(* under a context detached with WithoutCancel; it looks at the signal     *)
(* only between cycles.                                                    *)
(*                                                                         *)
(* The batches of a database are numbered; a cursor is the number of the   *)
(* last batch it covers.  Cursors are kept in memory and, all together, in *)
(* one file, as in Tracker; that a damaged file may stop the next process  *)
(* from starting is Collector's.                                           *)
(***************************************************************************)
EXTENDS KafkaClient, Naturals

CONSTANTS
    DB,             \* databases
    NoDB,           \* no database is being sent
    MaxBatches,     \* batches per database
    Grace           \* the grace period, in ticks

ASSUME LifecycleAssumption ==
    NoDB \notin DB /\ MaxBatches \in Nat /\ Grace \in Nat

Heartbeat == 0      \* the empty batch

VARIABLES
    main,           \* "down", "waiting" for Run or a signal, or "grace"
    exit,           \* while the process is down: how the last one ended
    signalled,      \* SIGINT or SIGTERM has arrived: ctx is done
    elapsed,        \* ticks since the grace period began
    run,            \* where Run is
    tick,           \* the ticker's channel holds a tick
    dbs,            \* databases left in this cycle
    cur,            \* the database being sent
    batch,          \* the batch being sent
    cursors, file,  \* the cursor of each database, in memory and in the state file
    topic,          \* the batches of each database in the topic
    acked,          \* history: the last batch of each database this process knows to
                    \* be in the topic
    failed,         \* history: databases whose last SetCursor of this process failed
    lastFailed      \* history: the last SetCursor of this process failed

mainVars == <<main, exit, signalled, elapsed>>
runVars == <<run, tick, dbs, cur, batch>>
storeVars == <<cursors, file, failed, lastFailed>>
vars == <<mainVars, runVars, storeVars, topic, acked, kafkaVars>>

NoCursors == [d \in DB |-> 0]

Init ==
    /\ main = "down" /\ exit = "none" /\ signalled = FALSE /\ elapsed = 0
    /\ run = "none" /\ tick = FALSE /\ dbs = {} /\ cur = NoDB /\ batch = Heartbeat
    /\ cursors = NoCursors /\ file = NoCursors
    /\ topic = [d \in DB |-> {}]
    /\ acked = NoCursors /\ failed = {} /\ lastFailed = FALSE
    /\ KafkaInit
-----------------------------------------------------------------------------
(* main.                                                                   *)

\* NewCollector succeeds, with the cursors on file, and Run begins with a cycle.
Start(resolved) ==
    /\ main = "down"
    /\ main' = "waiting"
    /\ run' = "cycle" /\ dbs' = resolved
    /\ cursors' = file /\ exit' = "none"
    /\ UNCHANGED <<signalled, elapsed, tick, cur, batch, file, topic, acked, failed,
                   lastFailed, kafkaVars>>

\* The process ends; Run ends with it, wherever it is.  Inside os.WriteFile that may
\* leave the file empty.
Emptied == run = "acked" /\ file' = NoCursors

Exit(how) ==
    /\ UNCHANGED file \/ Emptied
    /\ main' = "down" /\ exit' = how /\ signalled' = FALSE /\ elapsed' = 0
    /\ run' = "none" /\ tick' = FALSE /\ dbs' = {} /\ cur' = NoDB /\ batch' = Heartbeat
    /\ cursors' = NoCursors /\ acked' = NoCursors /\ failed' = {} /\ lastFailed' = FALSE
    /\ Dropped
    /\ UNCHANGED topic

\* NotifyContext cancels ctx.  Further signals change nothing.
Signal ==
    /\ main = "waiting" /\ ~signalled
    /\ signalled' = TRUE
    /\ UNCHANGED <<main, exit, elapsed, runVars, storeVars, topic, acked, kafkaVars>>

BeginGrace ==
    /\ main = "waiting" /\ signalled
    /\ main' = "grace"
    /\ UNCHANGED <<exit, signalled, elapsed, runVars, storeVars, topic, acked, kafkaVars>>

Elapse ==
    /\ main = "grace" /\ elapsed < Grace
    /\ elapsed' = elapsed + 1
    /\ UNCHANGED <<main, exit, signalled, runVars, storeVars, topic, acked, kafkaVars>>

\* Run's result is there.
Return ==
    /\ main \in {"waiting", "grace"} /\ run = "returned"
    /\ Exit("clean")

\* The timer fires.  (Fault: a call that still runs is waited for.)
ForceExitPolitely ==
    /\ main = "grace" /\ elapsed = Grace /\ ~InCall
    /\ Exit("forced")

ForceExit ==
    /\ main = "grace" /\ elapsed = Grace
    /\ Exit("forced")

\* SIGKILL, or the machine stops.
Kill == main # "down" /\ Exit("killed")
-----------------------------------------------------------------------------
(* Run.                                                                    *)

\* The ticker drops a tick that finds its channel full.
TickerFires ==
    /\ main # "down" /\ run # "returned" /\ ~tick
    /\ tick' = TRUE
    /\ UNCHANGED <<mainVars, run, dbs, cur, batch, storeVars, topic, acked, kafkaVars>>

\* A tick in the channel may be taken although ctx is done, too: select picks any
\* of the cases that are ready.
BeginCycle(resolved) ==
    /\ run = "select" /\ tick
    /\ tick' = FALSE
    /\ run' = "cycle" /\ dbs' = resolved
    /\ UNCHANGED <<mainVars, cur, batch, storeVars, topic, acked, kafkaVars>>

EndCycle ==
    /\ run = "cycle" /\ dbs = {}
    /\ run' = "select"
    /\ UNCHANGED <<mainVars, tick, dbs, cur, batch, storeVars, topic, acked, kafkaVars>>

\* The next database has nothing to send, or fails before it sends.  iterate's
\* check of its context is not here: that context is never done.
Skip(d) ==
    /\ run = "cycle" /\ d \in dbs
    /\ dbs' = dbs \ {d}
    /\ UNCHANGED <<mainVars, run, tick, cur, batch, storeVars, topic, acked, kafkaVars>>

\* The next database sends the batch after its cursor, or a heartbeat.
Send(d, b) ==
    /\ run = "cycle" /\ d \in dbs
    /\ b \in {Heartbeat} \cup {n \in 1..MaxBatches : n = cursors[d] + 1}
    /\ run' = "sending" /\ dbs' = dbs \ {d} /\ cur' = d /\ batch' = b
    /\ SendBatch
    /\ UNCHANGED <<mainVars, tick, storeVars, topic, acked>>

Appended ==
    /\ BrokerAppends
    /\ topic' = [topic EXCEPT ![cur] = @ \cup {batch}]
    /\ UNCHANGED <<mainVars, runVars, storeVars, acked>>

Produced ==
    /\ BrokersAcknowledge \/ ProduceFails
    /\ UNCHANGED <<mainVars, runVars, storeVars, topic, acked>>

\* Fault: the database left is still the current one.
LeaveDirty ==
    /\ run' = "cycle" /\ batch' = Heartbeat
    /\ UNCHANGED <<mainVars, tick, dbs, cur, topic>>

\* The database is done with.
Leave ==
    /\ run' = "cycle" /\ cur' = NoDB /\ batch' = Heartbeat
    /\ UNCHANGED <<mainVars, tick, dbs, topic>>

Accepted ==
    /\ run = "sending" /\ batch # Heartbeat
    /\ Accept
    /\ run' = "acked"
    /\ acked' = [acked EXCEPT ![cur] = batch]
    /\ UNCHANGED <<mainVars, tick, dbs, cur, batch, storeVars, topic>>

HeartbeatAccepted ==
    /\ run = "sending" /\ batch = Heartbeat
    /\ Accept
    /\ Leave /\ UNCHANGED <<storeVars, acked>>

Failed ==
    /\ run = "sending"
    /\ Fail
    /\ Leave /\ UNCHANGED <<storeVars, acked>>

\* SetCursor: every cursor in memory goes to the file.  (Fault: the write is left to
\* the next save.)
SaveLater ==
    /\ run = "acked"
    /\ cursors' = [cursors EXCEPT ![cur] = batch]
    /\ file' = cursors
    /\ failed' = failed \ {cur} /\ lastFailed' = FALSE
    /\ Leave /\ UNCHANGED <<acked, kafkaVars>>

Save ==
    /\ run = "acked"
    /\ cursors' = [cursors EXCEPT ![cur] = batch]
    /\ file' = cursors'
    /\ failed' = failed \ {cur} /\ lastFailed' = FALSE
    /\ Leave /\ UNCHANGED <<acked, kafkaVars>>

\* The path does not resolve, or the cursor is in memory but the file is not
\* written, or emptied.
SaveFails ==
    /\ run = "acked"
    /\ \/ UNCHANGED <<cursors, file>>
       \/ /\ cursors' = [cursors EXCEPT ![cur] = batch]
          /\ file' \in {file, NoCursors}
    /\ failed' = failed \cup {cur} /\ lastFailed' = TRUE
    /\ Leave /\ UNCHANGED <<acked, kafkaVars>>

\* Fault: the transport is closed as soon as the signal is there.
CloseEarly ==
    /\ run \in {"select", "sending"} /\ signalled
    /\ Close
    /\ run' = "returned"
    /\ UNCHANGED <<mainVars, tick, dbs, cur, batch, storeVars, topic, acked>>

\* Run sees that ctx is done, closes the transport and returns.
CloseTransport ==
    /\ run = "select" /\ signalled
    /\ Close
    /\ run' = "returned"
    /\ UNCHANGED <<mainVars, tick, dbs, cur, batch, storeVars, topic, acked>>
-----------------------------------------------------------------------------
Main == Signal \/ BeginGrace \/ Elapse \/ Return \/ ForceExit \/ Kill
        \/ \E resolved \in SUBSET DB : Start(resolved)

Run ==
    \/ TickerFires \/ EndCycle \/ CloseTransport
    \/ \E resolved \in SUBSET DB : BeginCycle(resolved)
    \/ \E d \in DB : Skip(d) \/ \E b \in 0..MaxBatches : Send(d, b)
    \/ Accepted \/ HeartbeatAccepted \/ Failed \/ Save \/ SaveFails

Next == Main \/ Run \/ Appended \/ Produced

\* Only main and the clock are relied on: Run may stop for good in a call.
Fairness == WF_vars(BeginGrace) /\ WF_vars(Elapse) /\ WF_vars(ForceExit)

Spec == Init /\ [][Next]_vars /\ Fairness
-----------------------------------------------------------------------------
\* The types, and what Run holds at each place.
TypeOK ==
    /\ main \in {"down", "waiting", "grace"}
    /\ exit \in {"none", "clean", "forced", "killed"}
    /\ signalled \in BOOLEAN /\ closed \in BOOLEAN /\ tick \in BOOLEAN
    /\ elapsed \in 0..Grace
    /\ run \in {"none", "cycle", "sending", "acked", "select", "returned"}
    /\ main = "down" <=> run = "none"
    /\ dbs \subseteq DB
    /\ run \in {"sending", "acked"} <=> cur # NoDB
    /\ cur \in DB \cup {NoDB}
    /\ batch \in 0..MaxBatches
    /\ cursors \in [DB -> 0..MaxBatches] /\ file \in [DB -> 0..MaxBatches]
    /\ acked \in [DB -> 0..MaxBatches]
    /\ topic \in [DB -> SUBSET (0..MaxBatches)]
    /\ failed \subseteq DB /\ lastFailed \in BOOLEAN
    /\ producing \in {"no", "waiting", "acked", "error"} /\ appended \in BOOLEAN

\* However processes end, in the middle of a call, between an accepted batch and
\* its cursor, or cleanly, and whatever SetCursor failed to store: every batch a
\* stored cursor covers is in the topic (collector.go:639-654, main.go:108-121).
SavedIsInTopic == \A d \in DB : 1..file[d] \subseteq topic[d]

\* A process that was signalled exits, even if a call never returns
\* (main.go:104-121).
SignalStops == signalled ~> main = "down"

\* An exit that is not forced cuts nothing off: no call is in flight, the transport
\* is closed, and every batch known to be in the topic is behind a stored cursor,
\* unless SetCursor failed: the last one of its database, or the last one of all,
\* whose write may have spoilt the file for every database (main.go:86-90, 113-115,
\* collector.go:648-653).
CleanExitDrains ==
    [][main # "down" /\ main' = "down" /\ exit' = "clean" =>
        /\ ~InCall /\ closed
        /\ \A d \in DB : acked[d] > file[d] => d \in failed \/ lastFailed]_vars
=============================================================================
