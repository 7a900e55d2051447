# A verification model of open-gateway-collectors

The collector (`cmd/opencode-collector`, `internal/…`) polls the SQLite databases
OpenCode writes its messages to, and pushes usage records to a Gateway over HTTP or
Kafka.  It remembers per database how far it got in a cursor file.  This directory
holds TLA+ modules that model it, TLC configurations that check them, and proofs that
TLAPS checks.  Source lines below are those of `internal/collector/collector.go`
unless a file is named.

    tlc -config Batches.cfg MCCollector.tla         a run
    tlapm CollectorProofs.tla                       a proof

`PROJECT.json` lists the components, runs, source lines behind every definition, the
hazards with the properties that cover them, the theorems, and for each property of a
passing run a plausible fault of the code that makes TLC refute it.

## 1. Inventory

| component | source | state | operations | what makes it correct |
|---|---|---|---|---|
| collection loop | `collector.go` | `lastSuccess`, `seedOnce`, `replaySince/Until`, `replayCompleted`; locals of `processDatabase` | `Run`, `iterate`, `processDatabase`, `sendRecords`, `maybeSendHeartbeat` | no row is skipped; a failing database does not stop the others; a replay sends its whole window once and leaves the cursor where normal polling can go on |
| cursor store | `state/tracker.go` | map of cursors, `.collector-state` | `NewTracker`, `GetCursor`, `SetCursor`, `save`, `load` | the file never claims more than was delivered; it can be loaded after a crash |
| source reader, records | `sqlite/reader.go` | prepared statements | `ReadRecords`, `ReadRecordsAfter`, `ReadRecordsWindow` | a page is a prefix of what is left; pages are disjoint and complete |
| source reader, projections | `sqlite/reader.go` | schema information | `ReadSessionContexts`, `ReadProjectData`, `ReadProjectDirectoryData`, `ReadTodoData` | missing tables, columns and failed reads hold no usage back; a snapshot comes with later usage |
| database resolution | `resolveDatabases` | - | discover, gate, inspect, identify | a good database is always served again in the end |
| exclusion gate | `exclusion/gate.go` | one `.exclude` file per path | `IsExcluded`, `RecheckDue`, `Exclude`, `Remove` | an exclusion ends |
| identity store | `identity/identity.go` | one `.id` file per path | `GetOrCreateIdentity` | a path keeps its identity |
| discovery, inspection | `sqlite/discovery.go` | - | `DiscoverDatabases`, `OpenAndInspect` | a migration is noticed without a restart |
| HTTP transport | `gateway/client.go` | the retry loop's locals | `SendBatch` | nil only for a processed batch; it returns |
| Kafka transport | `gateway/kafka.go` | producer | `SendBatch`, `Close` | nil only for an acknowledged produce; never used after `Close` |
| wire mapping | `gateway/client.go`, `types.go` | - | `MapToIngestRecord`, … | field by field |
| configuration | `config/config.go` | - | `Load`, `Validate`, `ParseReplayUntil` | - |
| process lifecycle | `cmd/…/main.go` | - | start, signal, 30 s grace period | no exit loses data; a signal ends the process |

Interactions.  `main` calls `NewCollector` and runs `Run` in one goroutine; everything
else is called from it, one call at a time, so the only concurrency inside the process
is with the signal handler.  `iterate` resolves the databases and hands each to
`processDatabase`, which reads a cursor, opens a reader, sends a page through the
`Transport` interface and stores a cursor.  Outside the process are OpenCode, which
writes the databases all the time; the Gateway, which may process a batch and lose the
answer; the file system, where three kinds of file are rewritten in place; and whoever
kills the process.

What is hard here: the cursor is a millisecond timestamp while rows tie and arrive
late; every step between "accepted" and "cursor on disk" can be the last; memory and
file part company when a save fails; a replay moves around the same cursor that
normal polling relies on, in three different places with three clamps; and failures of
one database must stay with it.

## 2. Modules

| module | models |
|---|---|
| `SourceTime` | times as Unix milliseconds, with Go's zero time before all of them |
| `SourceReader` | what one read returns: the `WHERE`, `ORDER BY` and `LIMIT` of the four statements as sets of rows |
| `Tracker` | the cursors in memory and in the file, and every outcome of a save |
| `Collector` | the loop, its process's life and OpenCode; extends the three above |
| `MCCollector` | values of constants for TLC |
| `CollectorProofs`, `ReplayProofs` | theorems about `Collector` |
| `Delivery` | at-least-once delivery per database (abstract); `Collector` implements it |
| `DeliveryProofs` | the proof of that |
| `DeliveryPromise` | what `Delivery` promises whoever resumes from one of its marks |
| `Resolution` | `resolveDatabases` with the exclusion and identity files |
| `ResolutionProofs` | its types and the theorem about identities |
| `Transport` | what the loop relies on when it calls `SendBatch` (abstract) |
| `GatewayClient` | `SendBatch` over HTTP; implements `Transport` |
| `GatewayClientProofs` | the proof of that, and its delays |
| `KafkaClient` | `SendBatch` and `Close` over Kafka |
| `Lifecycle` | `main` and `Run` from start to exit; extends `KafkaClient` |
| `LifecycleProofs` | theorems about both |
| `Projections` | what a batch carries besides records; `MCProjections` holds its constants |
| `ProjectionsProofs` | theorems about it |

Definitions commented "fault" are not part of any specification.  They are the mutated
forms named in `PROJECT.json`.

### Collector

A row is an id and a `time_updated`; everything else of a message is left out, because
paging, cursors and delivery depend on nothing else.  `source[d]` is the set of rows of
database `d`.  OpenCode's `Write` adds a row or replaces it by a newer version, stamped
now or up to `CommitLag` earlier: a transaction may commit after its timestamp.

`pc` says where the single goroutine is: `down`, `idle` (waiting for the ticker),
`cycle` (in `iterate`, `dbs` still to do), and inside `processDatabase`: `read`,
`send`, `acked` (SendBatch has returned nil and nothing is stored yet) and `heartbeat`.
The locals `cursor`, `effectiveSince`, `effectiveLastID`, `records` have the code's
names.  One action is one call that other actors can interleave with, and what follows
it up to the next such call:

| action | code |
|---|---|
| `Start` | `NewCollector` 80-175, `NewTracker` |
| `BeginCycle` / `EndCycle` | `iterate` 222-271 with `seedOnce` 238-262 |
| `BeginDatabase` / `SkipDatabase` | 400-438; the reader opens or does not |
| `ReadPage` / `ReadNothing` / `ReadFails` | 443-491 |
| `SendAccepted` / `SendFails` | `sendRecords` 596-637; 503-530 with the rewind |
| `Advance` / `AdvanceFails` | 639-658, the cursor of normal mode |
| `ReplayNext` / `ReplayDone` | 539-581 |
| `HeartbeatSent` / `NoHeartbeat` | `maybeSendHeartbeat` 678-704 |
| `Crash` / `CrashInSave` | the process stops between two steps, or inside `os.WriteFile` |
| `Tick`, `Write` | the clock and OpenCode (external) |

The databases a cycle gets are any non-empty set: `Resolution` says which.  A heartbeat
may be withheld at any time, since the interval may not have passed.  A row in
`Unmappable` is one `mapRecord` rejects; a page that would contain one cannot be read.

`acked`, `heartbeats`, `loaded` and `owed` are history: rows of accepted batches,
databases with an accepted heartbeat, the cursors this process loaded, and the rows the
current replay pass has still to send.  Nothing in the code reads them.

### Tracker

A save truncates the file and writes it, without a temporary file.  `SaveFaults` lists
the ways it may go wrong: the path cannot be resolved (nothing changes), the write
fails before truncation (memory is ahead of the file), at it (the file is empty, which
loads as "no cursors"), or after it (the file is a prefix of a JSON object, which never
parses).  `torn` is the last; with it `NewTracker` fails and `Start` is disabled.

### Resolution

`gate[d]` is the exclusion file: `none`, `waiting` for its recheck, `due`, or `corrupt`;
`identity[d]` the identity file: none, `Torn`, or a UUID, numbered in order of
generation.  `resolved` is what a cycle hands to the loop.  Every check, inspection and
write may fail, and the process may die between any two and inside a write.  A call that
fails or is cut off may leave a part of a new identity on file, or all of it
(`LeaveIdentity`).

### GatewayClient and Transport

`Transport` allows a call to return "accepted" only when its batch was processed, and
"failed" at any time.  `GatewayClient` posts, gets one of seven kinds of answer or
error, and retries.  `Process` and `Refuse` are the Gateway and the network: the same
lost connection may follow a processed batch or an unprocessed one, and so may a body
cut short.  Other answers than 2xx and 5xx behave as `4xx`, except redirects, which
`SendBatch` never sees: `http.Client` follows them (`client.go:87`).  The model assumes
that the Gateway answers the POST itself.  If it does not, a 307 or 308 repeats the POST
elsewhere, and a 301, 302 or 303 turns it into a GET, whose 2xx with a JSON body
`SendBatch` would take for its batch accepted.

### KafkaClient and Lifecycle

`KafkaClient` has no `Next` of its own: `Lifecycle` calls it.  `BrokerAppends`,
`BrokersAcknowledge` and `ProduceFails` are the broker and `ProduceSync`, external: the
record may be appended, once or again, before an acknowledgement or an error, and the
call may never end.  `Accept` and `Fail` are what `SendBatch` does with the outcome.
That an acknowledged record is in the topic is the broker's promise; that an error is
never taken for an acknowledgement is the code's (80-82 of `kafka.go`).

`Lifecycle` has two goroutines.  `main` (`Signal`, `BeginGrace`, `Elapse`, `Return`,
`ForceExit`) waits for `Run` or a signal, and after a signal for `Run` or the grace
period.  `Run` cycles over the databases one call at a time and looks at the signal in
its `select` only, where `BeginCycle` (a tick is there) and `CloseTransport` (ctx is
done) may both be enabled and either may be taken, as in Go.  `iterate`'s own check of
its context (265-266) is not an action: the context comes from `WithoutCancel` and is
never done.  A database's batches are numbers, a cursor the last one it covers, and
`topic` what is in Kafka.  As in `Tracker`, `cursors` is the memory and `file` the state
file: `Save` writes the whole memory, and `SaveFails` changes nothing (the path does not
resolve), or moves the memory only, or also empties the file.  `Exit` ends both
goroutines wherever they are, in the middle of a save perhaps with an empty file; the
next `Start` begins with what is on file.  `acked`, `failed` and `lastFailed` are
history: the last batch of each database this process has an acknowledgement for, the
databases whose last `SetCursor` failed, and whether the last one of all did.

### Projections

One database in normal mode.  `backlog` is its usage beyond the cursor, each entry with
the version its session had; a cycle inspects the database (`Inspect` fills `dbInfo`),
reads a page, then reads the four projections one query at a time (`Read(k)`), sends and
advances.  Between any two of these OpenCode may update sessions, store and delete rows,
and migrate: an optional table is `absent`, `keyless` (without the column that tells
rows apart, which the query replaces by `''`) or `full`.  `Misfit` is a query for what is
no longer there.  `Dedup` goes through a query's rows as the code does, with `Seen` for
its map; the rows come in any order (`Orders`), since no query has an ORDER BY.
`Poisoned` is the Gateway's answer 422 to a blank directory, which 823-827 describe.

### Delivery

Rows, deliveries and marks, without process, page or replay.  `Move` lets marks go
anywhere, forwards or back, as long as each stays within what was delivered (`Reached`)
and what lies behind it was delivered or overtaken; `Deliver` delivers only what is, or
was, in the database.  Without `Reached` a mark could stand in the future, in front of
rows still to be committed; with it `Delivery` promises `NothingLeftBehind` by itself.
`Collector` implements it with the cursors in memory and on disk as marks.

## 3. Properties

| property | statement |
|---|---|
| `NoSilentGap` | no cursor, in memory or on disk, is past an undelivered row, unless a delivered row ties with it or follows within the commit lag (`Overtaken`) |
| `HeartbeatFollowsSuccess` | a heartbeat or a `lastSuccess` entry only follows an accepted batch, across restarts |
| `ReplayOwesNothing` | a replay pass is completed only when all of its window was sent again, or rewritten since |
| `CompletionClamped` | a completed pass moves the cursor neither back nor past the replay bound |
| `RegressesOnlyOnRewind` | in a living process only a failed replay batch moves a cursor back |
| `RewindBounded` | however often replay passes fail, no cursor falls below both the one the process loaded and the start of the window |
| `BatchAdvances` | every accepted batch moves reading forward: the composite key within a pass, the stored cursor in normal mode |
| `RewindExposesWindow` | after such a failure, normal polling reads again all the pass still owed, even if the rewind could not be saved |
| `EventuallyDelivered` | a row is delivered, rewritten, or overtaken |
| `ReplayTerminates` | every database leaves replay mode |
| `IdentityDurable` | a database is only ever resolved under the identity in its file |
| `EventuallyResolved` | a database that stays acceptable is resolved again and again |
| `KeepsBeingHeard` | a database heard of by this process goes on being heard of, by batches or heartbeats, however idle |
| `ImplementsDelivery` | the loop implements `Delivery` |
| `ImplementsTransport` | `GatewayClient` implements `Transport` |
| `SavedIsInTopic` | however processes end, a stored cursor covers only batches in the topic |
| `NeverUsedAfterClose` | no call is in flight when the producer is closed, nor made after |
| `SignalStops` | a signalled process ends, even if a call never returns |
| `CleanExitDrains` | a process that ends by itself has no call in flight, has closed the producer, and has a stored cursor for every batch it knows to be in the topic, unless that database's last `SetCursor` failed, or the last write of the file |
| `ContextNotOlder` | a session context is no older than the usage it comes with |
| `UsageNotDelayed` | usage is delivered although no projection can ever be read, and whatever the tables hold: no batch is refused for its directories |
| `SnapshotsConverge` | a settled row is sent again and again as long as its session or project is used |
| `DelayBounded`, `CallReturns` | delays stay between base and ceiling; the call returns |
| `CallProgresses` | every step of a call lowers the number of steps it has left |
| `NothingLeftBehind` | of `Delivery`: whatever lies behind a mark was delivered or overtaken, whenever it was committed |

The exception in `NoSilentGap` and `EventuallyDelivered` (`Overtaken`) is what the
strict `time_updated > ?` cursor of normal mode costs; `TieLoss` shows that the
documentation, which knows no exception, is wrong.  It excuses every row with a delivered
one at most `CommitLag` after it, because such a row may have been committed late; it
does not ask whether the row was.  Where no commit is late only ties are left
(`NothingSkippedButTies`).

Failed saves are the exception in `CleanExitDrains`: `SetCursor` failing is only logged
(648-653), the process goes on, and if nothing is saved afterwards the next one sends
the batch again.

`BatchAdvances` and `CallProgresses` are the safety under two liveness properties:
`ReplayTerminates` and `CallReturns` hold because reading, and the retry loop, cannot go
round in circles.  Unlike those they are proved.

## 4. Runs and bounds

| run | instance | shows |
|---|---|---|
| `ReplayWindow` | 1 database, 2 ids, batches of 1, clock 0-2, lag 1, replay on and off, two `since`, three `until`, all save faults; 1.3 M states | all safety properties of the loop |
| `Batches` | 1 database, 3 ids, batches of 2, clock 0-2, lag 1, replay on and off; 2.3 M states | pages of several rows, cut inside a tie, with rows rewritten in the middle of a pass |
| `Liveness` | 2 databases, one with a row that never converts, 1 id, batches of 1, clock 0-1; passes of two reads, two `since`, no bound, saves that fail unwritten or emptied; 35 k states | refinement of `Delivery`, one file with two cursors; the good database is delivered, completes its replay and keeps being heard |
| `Resolution` | 2 paths, 2 UUIDs | identities and re-admission |
| `GatewayClient` | 3 retries, base 1, ceiling 3 | refinement, delays, return |
| `Shutdown` | 2 databases with 2 batches each, every way a save can fail but one, a grace period of 2 ticks; 515 k states | exits of every kind at every point of `Run` |
| `Projections` | 1 session, its project, 2 paths and a blank one, tables that come and go, 2 versions, a backlog of 2, batches of 1; 99 k states | projections neither hold up nor spoil a batch |

Two rows, a batch of one and two ticks make every boundary happen: a full and a short
batch, a tie across a page, a row written after the read, a late commit, a bound and a
`since` before, at and after the cursor, and the epoch bound that disables itself.
Three ids with a batch of two add a page with a proper inside.  Bounds are constants:
`MaxTime`, `Id`, `MaxIdentities`, `MaxVersion`, `MaxBacklog`, `MaxBatches`,
`Grace`; nothing bounds crashes, failures or restarts.  A
replay `since` before time 0 is not modelled.  `ReplayWindow` and `TornState` switch deadlock
checking off because a torn state file stops the collector for good, which is what
`TornState` shows.

In `Projections` only the directories table has rows and stages: it is the one with a
filter, and the other tables go through the same actions.  One session and one project
are enough, because a snapshot depends on its own rows alone; the proofs take any number.
In `Shutdown` two batches make a cursor that could skip one, and two ticks a grace period
`Run` may finish within or overrun.

Runs that end in a violation show where a document or comment and the code differ:

| run | the text | the code |
|---|---|---|
| `TieLoss` | "no records are skipped or lost" (`docs/collector-workflow.md:111`) | rows in the millisecond of the cursor are |
| `ReplayRegress` | "never regresses below the pre-replay stored cursor" (`README.md:57`) | it does when a rewound, bounded pass is retried |
| `TornState` | "Restart-safe" (`docs/collector-workflow.md:162`) | not after a crash inside the save |
| `TornIdentity` | "fall through to generate a new one" (`identity.go:56`) | it falls into the error of line 59 |
| `TimeoutNotRetried` | "retries on … timeouts" (`client.go:122-123`) | a client timeout is not retryable |

What is true instead is proved, in the same order:

- `TimeCursorDropsTies`: the rows a page boundary hides are exactly those that tie with
  the page's last record.  `NothingSkippedButTies`: if no commit is late, a row a stored
  cursor has passed was delivered, or shares its millisecond with one that was.
- `RewindBounded`: the stored cursor does regress, but never below both the cursor the
  process loaded and the start of the window.
- `TornStateIsFinal`: once a process is down with a torn state file, none starts again.
  (A live process mends the file with its next successful save.)
- `TornIdentityIsFinal`: a torn identity file stays torn, and no cycle resolves its
  database again.

Smaller ones have no run:

- Retries are documented as "starting at 1 second" (`docs/collector-workflow.md:109`);
  `client.go:152` doubles the delay before the first sleep, as `Retry` does.
- Heartbeats are to "work immediately after restart for databases that were previously
  tracked" (234-236).  `seedOnce` sees the databases of the first non-empty cycle only: a
  tracked database that is resolved later, or whose cursor cannot be looked up then, and
  is idle, sends none until its next batch.
- 265-266 are to "respect context cancellation between databases"; that context is never
  done.  After a signal the cycle runs to its end, and may be followed by another.
- Shutdown "drains in-flight requests" (`docs/collector-workflow.md:290`); a batch that
  takes longer than the grace period is cut off, and sent again by the next process.
- Only `title` and `time_created` are looked up before the session table is read.  In a
  database without `session.model` every `ReadSessionContexts` fails; its error is
  dropped, so no context is ever sent.
- Todos of a session with equal descriptions are one todo on the wire (844-856), all of
  them if the column is missing.
- A changed project or todo is sent only with new usage of its session or project.

## 5. Fairness

`Scheduling`: the process is left alone from some point on (without that nothing can be
promised), is started again, its loop does not stop between two calls, and the ticker
fires.  All follow from the Go scheduler, `time.Ticker`, every call returning
(`CallReturns` for the HTTP transport), and whoever operates the process.

`RecurringSuccess(d)`, for a database without rows that never convert: it is among the
resolved ones again and again (`EventuallyResolved`), and opening, reading, sending and
saving each succeed again and again.  They may still fail in between without end, which
is enough for normal mode: there a cycle only repeats one batch.  It is **not** enough
for a replay pass of several pages, which starts from its first page after any failure:
TLC finds the run in which a page fails in every pass.  So failures inside `d`'s replay
passes are assumed to stop (`ReplayFailure`); those of normal mode are not.  Nothing is
assumed of the other databases.

`Resolution` assumes that crashes and failing reads and writes stop, databases stop
changing and recheck intervals pass; so it assumes that no directory entry stays
unreadable, which would keep every database out.  `GatewayClient` assumes that a request ends, if by
the client's own 30 s timeout (`client.go:35`), and that sleeps end.

`KeepsBeingHeard` needs that a heartbeat that is due is sent again and again, part of
`RecurringSuccess`: the interval passes and the call works.

`Lifecycle` relies on `main` and the clock alone (`BeginGrace`, `Elapse`, `ForceExit`):
nothing is assumed of `Run`, whose calls may block for ever.

`Projections` assumes that the process is left alone in the end, that the loop goes on,
and that reading records, sending and saving work again and again.  No projection read
is assumed ever to work, except the one `SnapshotsConverge` speaks of: from some point on
its query succeeds and its inspection sees the table as it is.

## 6. Proofs

All hold for every set of databases and ids, every batch limit, lag, clock bound, replay
setting and set of save faults, given the `ASSUME`s of the modules.

| theorem | module | argument |
|---|---|---|
| `TypeCorrect` | `CollectorProofs` | `TypeInv`: types, plus that the page in hand has a last row |
| `NoGap`, `HeartbeatsFollow` | `CollectorProofs` | `SafetyInv` |
| `CompletionIsClamped`, `RegressionIsRewind` | `ReplayProofs` | `SafetyInv`, and that a dead process has no cursors |
| `CompletedPassOwesNothing`, `RewindIsExposing` | `ReplayProofs` | `OwedInv` |
| `NothingSkippedButTies`, `TornStateIsFinal` | `CollectorProofs` | `SafetyInv` without lag; stability of a dead process |
| `RewindIsBounded` | `ReplayProofs` | inductive on `SafetyInv`: a rewind is clamped to the cursor the pass started from |
| `BatchesAdvance` | `ReplayProofs` | `BeyondInv` and `PassInv` |
| `PagesPartitionWindow`, `TimeCursorDropsTies` | `ReplayProofs` | lemmas about `Beyond`, `IsPage` and `LastRecord`, for any rows |
| `LoopImplementsDelivery` | `DeliveryProofs` | `SafetyInv` after each step makes it a `Move`; `KnownInv` for deliveries |
| `DeliveryKeepsPromise` | `DeliveryPromise` | `PromiseInv`: marks are reached, nothing is from the future |
| `ResolutionType`, `IdentityIsDurable`, `TornIdentityIsFinal` | `ResolutionProofs` | inductive with the types |
| `ClientType`, `ClientDelayBounded`, `ClientImplementsTransport` | `GatewayClientProofs` | `ClientInv`: each POST is counted once, and the delay lies between base and ceiling |
| `CallsProgress` | `GatewayClientProofs` | `StepsLeft` is a natural number that each step of a call lowers |
| `LifecycleType`, `CursorsCoverTopic`, `CloseIsLast`, `CleanExitIsDrained` | `LifecycleProofs` | below |
| `ProjectionsType`, `ContextsNotOlder` | `ProjectionsProofs` | below |

Why `NoSilentGap` needs more than itself.  A save writes *all* cursors, so memory and
file are treated alike, and a step that moves a cursor must know that everything up to
its new place was delivered.  `SafetyInv` carries that through a pass: `StoredInv` (each
stored cursor is backed by a delivered row, or zero, and covers its past), `Clocked`
(rows and deliveries are not from the future, so a new row can only tie or be late),
`PassInv` (where the current read starts, what the page in hand leaves behind, and,
after the acknowledgement, what its last row covers), and the heartbeat property, for
which a backed cursor is the evidence that survives a restart.  The replay clamps enter
in `FinalCursorGood` and `RewoundCursorGood`: when `since` lies after the cursor the
pass has proved nothing about the rows between, and the old cursor must stay.

`OwedInv` says that every owed row lies beyond the composite key the next read starts
from, within the window: so a read that finds nothing, or a page shorter than the limit,
leaves nothing owed once it is accepted.

The paging theorems say what one read after another yields.  They are about the
operators of `SourceReader` alone, for any set of rows, window and page.  With the
composite key the next read is the window without the page just sent
(`PagesPartitionWindow`); with the time alone it also lacks the rest of the last
record's tie (`TimeCursorDropsTies`).  `BatchesAdvance` carries the first into the loop,
where rows change between two pages: `BeyondInv` says that a replay page lies beyond the
key it was read from, so the key of its last record does too, whatever was committed
since; in normal mode `PassInv` says it of the stored cursor.

A rewind goes to the earlier of `since` and the cursor the pass started from.  So a
process's cursor never goes below the earlier of `since` and the cursor it loaded, by
induction over its steps: every other move is forward (`RegressionStep`).

`DeliveryKeepsPromise` is the abstract counterpart of `NoGap`.  A row committed after a
mark was moved is no gap, because the mark is reached by a delivered row, which is not
from the future, so that the new row can only tie with it or be late.
`LoopImplementsDelivery` therefore says more than that no step opens a gap: it places
every cursor within what was delivered.

`DeliveryProofs` needs one more fact than `SafetyInv`: `KnownInv`, that each row of the
page in hand is a row of its database or an older version of one, which OpenCode's
writes preserve because versions only grow.

`SavedIsInTopic` needs what `Run` holds in between (`RunInv`): a call is in flight exactly
while it sends, an acknowledged record was appended, a call whose record was appended has
its batch in the topic, and the batch in hand is the one after the cursor in memory, so
that storing it leaves no hole.  A save writes the memory, also what earlier saves failed
to write, so the memory must cover the topic as the file does (`MemoryIsInTopic`).

`CleanExitDrains` needs `Drained`: a batch known to be in the topic is in hand, or behind
the cursor in memory unless its database's last `SetCursor` failed; and behind the stored
one unless, besides, the last write of the file failed.  The first half is what makes the
second inductive, because a write that succeeds stores what others left in memory.
`RunInv` adds that `Run` has returned exactly when the producer is closed.

`ContextNotOlder` needs `BacklogNotNewer`, that versions only grow, and `NoContextYet`,
that the contexts in hand were read after the page.

Only model-checked: all liveness (`EventuallyDelivered`, `ReplayTerminates`,
`KeepsBeingHeard`, `EventuallyResolved`, `CallReturns`, `SignalStops`,
`UsageNotDelayed`, `SnapshotsConverge`), which is out of the prover's reach.  Of three of
them the safe half is proved: `BatchesAdvance` for `EventuallyDelivered` and
`ReplayTerminates`, `CallsProgress` for `CallReturns`; that steps go on being taken is
left to TLC.

## 7. Not modelled

On purpose: the copying of fields into wire types (`MapToIngestRecord` and the
projection mappings), logging, the parsing of environment variables and flags (the
settings they yield are constants and parameters), SQL beyond the record and projection
statements, the required-table queries of inspection (they pass or fail), path hashing,
the mock transport and the repository's scripts; and what happens outside: the consumer
of the Kafka topic, and what the Gateway does with records it rejects inside a 2xx
answer, which the loop counts as delivered (660-672).

Left apart: `Collector`, `Resolution`, `Projections` and `Lifecycle` are each checked
with what they need of the others (the set of resolved databases, a call that is
accepted or fails, a cursor) and not as one product, which would be too large for TLC;
`Transport`, and the fairness conditions of section 5, say what they take from each other.
