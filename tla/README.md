# UNS Archiver: TLA+ models, model checking and proofs

This directory holds a formal model of the UNS Archiver (`src/src/`), a
TypeScript service that takes MQTT events of a Unified Namespace and writes
them to QuestDB. Its promise is that an event it took in is not lost: it is in
memory, in a spool of files, in a durable journal, or in the database. The
models say how the parts keep that promise together with pauses, retries,
shutdown, crashes and restarts; TLC checks them on small instances, and TLAPS
proves their safety properties for all instances.

Paths below are relative to the repository root (`src/index.ts` is
`src/src/index.ts` of the checkout).

- [1. The system](#1-the-system)
- [2. Modules](#2-modules)
- [3. Runs](#3-runs)
- [4. Bounds](#4-bounds)
- [5. Fairness](#5-fairness)
- [6. Proofs](#6-proofs)
- [7. Findings](#7-findings)
- [8. What is not modelled](#8-what-is-not-modelled)
- [9. Plan](#9-plan)

## 1. The system

One Node.js process. Handlers run to their next `await` without interruption,
so the interleavings are those of awaited calls, timers and callbacks; the
process may die between any two of them.

```
 MQTT --> BoundedIngestQueue --> processEvent --> DurableTargetJournal --> QuestDBWriter
               |      ^             ^    |            (SQLite)          --> IlpBatcher --> QuestDB
          spill|      |buffered     |    |save
               v      |events       |    v
            .event files ------> StoredEventReplay

 source database --> HistoricalImport --> DurableTargetJournal
 spool of an old archiver --> LegacyImport --> DurableTargetJournal
 operator --> ReplayControl --pause--> StoredEventReplay, DurableTargetJournal, imports
```

| Component (source) | State | Operations | What makes it correct |
|---|---|---|---|
| Durable target journal (`target-journal.ts`) | SQLite rows, receipts, totals, observations, policy, commands; portable policy file; jobs in memory | `submit`, `acknowledge`, `replay`, `startWrite`, `command` pause/resume, `setGlobalPaused`, policy export/import, `close`, start | an accepted row stays until QuestDB has it; rows of a table in order; a pause is a barrier and survives restarts; totals count; a handover leaves nothing behind; a bad table does not starve the others |
| QuestDB writer and batcher (`writers/questDbWriter.ts`, `writers/questdb-ilp-batcher.ts`, `resilience.ts`) | setup chain per table, pending rows, timer, batch, one sender buffer, circuit breaker | `runWithTable`, `enqueue`, `configure`, `flushPending`, `withRetry`, `close` | what is acknowledged was sent; nothing is sent that was not asked; no wake-up lost; each write settles |
| Live ingest (`bounded-ingest-queue.ts`, `index.ts`, `inactive-topic-buffer.ts`, `event-deduplication.ts`) | queue, active workers, inactive buffer, ids in flight and processed | `enqueue`, `drain`, `process`, `processEvent`, `bufferInactiveEvent`, `flushInactiveBuffer` | every received event has a keeper; the live and stored path never hold the same one |
| Event spool and stored replay (`stored-event-replay.ts`, `durable-event-file.ts`, `bounded-directory-scan.ts`) | `.event` files, `.event.<pid>.processing` locks, a directory cursor | `run`, `lock`, `requeueLocked`, `recoverProcessingPass` | a file goes only after the journal accepted its event; no lock is left for ever |
| Shutdown (`archiver-shutdown.ts`) | the order of steps | release, stop input, drain live, drain stored, close | nothing is submitted to a closed journal; it ends |
| Replay control (`replay-control.ts`) | a file with the revision, the pause and the receipts of commands; its copy in memory | `command`, `ensureMaintenancePause`, status, start | a pause is durable before it is answered; the same request has one effect, over failures and restarts; an adopted store waits for an operator |
| Handover state (`archiver-handover-state.ts`) | none of its own | export, validate and import of the policy; assertion that nothing is left | a handover finds no row, receipt or pause |
| Legacy import (`legacy-import*.ts`, `legacy-source-file.ts`) | job, checkpoint, source lock, quarantine | commands, inspect, prepare, replay and verify passes | a source file is deleted only after its parts are receipts; one owner per source |
| Historical import (`historical-import*.ts`) | jobs and published history sources in SQLite; the step under way; timer | review, `start`, `step` (pages, checkpoints, verification), recovery of earlier jobs, `close` | no row of the source is passed over or invented, over crashes and retries; completed means counted; a job is blocked only for a cause; nothing is written at a paused boundary |
| Entity identity (`entity-binding-*.ts`, `entity-resolution-policy.ts`, `entity-identity-evidence.ts`) | binding cache | `resolveTopic`, `invalidate`, `invalidateTopics` | no binding older than an invalidation is served |
| Topics and subscriptions (`active-uns-topics.ts`, `topic-*.ts`, `subscription-state.ts`) | active topics | refresh, matching | |
| Health reports, control APIs, configuration, naming, generated schema | none of their own | | |

How they interact: the input handler and the stored replay both call
`processEvent`; it calls `submit` of the journal and awaits the write; the
journal calls the writer for each row through `options.write`, and its own
timer retries. A refused `submit` throws back through `processEvent`, into the
queue (live) or the replay pass (stored). The live queue tells the stored
replay whether it has headroom. Operators reach the journal (pause of tables),
the replay control and the imports over HTTP. The pause of the replay control stops
the passes of the stored replay, the retries of the journal and both imports; the
status reports a paused boundary once no write and no step is under way. The
imports write through the journal like everyone else, and acknowledge its receipts
themselves, after their own checkpoint.

The behaviours that are hard here, each listed at its line under `hazards` in
`PROJECT.json`:

- two stores written one after the other (SQLite and the portable policy file;
  spool file and journal), with a crash in between;
- counters kept by differences over a dozen handlers, from rows read before an
  `await`;
- one event reachable on two ways, with an `await` between the check for
  duplicates and the write;
- a single mutable sender buffer shared by batches and attempts;
- timers that are armed, brought forward and cleared in several places;
- passes that wait for writes, a shutdown that waits for passes, a `close()` that
  waits for both;
- error paths: each of them has to put the event somewhere.

## 2. Modules

| Module | Models |
|---|---|
| `DurableQueue` | abstract: a part that was accepted is held until it was delivered, at least once |
| `TargetJournal` | the journal: rows, jobs, faults, pause policy, portable file, handover, crash, restart |
| `TargetReplay` | the same class seen as a scheduler: the timer, the passes with their cursor and shares, the turns, `close()` |
| `IlpWriter` | a row from `runWithTable` to the answer of the flush |
| `IngestPath` | live queue, inactive buffer, spool, stored replay, shutdown, restart; both meet in `processEvent` |
| `LegacyImport` | archivers that share the spool of an old one: claim, checkpoint, passes, deletion, quarantine, completion |
| `ReplayControl` | the durable pause: commands, receipts, failed writes, adoption of a store, restart |
| `HistoricalImport` | extends `ReplayControl`: the import of a database through the journal, in a process that is paused, closed, killed and restarted |
| `TargetJournalProofs`, `TargetJournalPolicyProofs` | theorems on `TargetJournal` |
| `TargetReplayProofs`, `IlpWriterProofs`, `IngestPathProofs`, `LegacyImportProofs`, `ReplayControlProofs`, `HistoricalImportProofs` | theorems on the module of that name |
| `MCTargetJournal`, `MCTargetReplay`, `MCIlpWriter`, `MCIngestPath`, `MCLegacyImport`, `MCHistoricalImport` | instances for TLC |

In all of them synchronous code is one action, an awaited call ends it, and
failure of an awaited or guarded call is a disjunct. Definitions whose comment
begins with "mutated" are plausible errors of the code; no specification uses
them. Each property is checked to fail when the definition named beside it in
`PROJECT.json` is replaced by its mutation, so a property that could not fail
would be noticed.

### TargetJournal

The rows of SQLite are sets of parts: `queued` (state `pending`), `confirmed`
(receipts), `attempted` (`attempts > 0`), `inWrite` (`in_write = 1`), `delayed`
(`retry_at` in the future); `ahead` keeps the order of `seq` within a table.
`pending` and `retrying` are the `totals` rows, kept by differences exactly
where the code keeps them. `stored`, `observed`, `commands` are the meta,
observations and commands tables; `mirror` is the portable file. A job is in
`scheduled` while its promise is installed but its first microtask has not run,
then in `writing`. `sent`, `inDb` and `torn` are history: what was handed to QuestDB,
what it applied, and whether a ROLLBACK ever threw. A rule has `since`, the revision
that added it, which stands for its time and its place in the list.

| Actions | Code |
|---|---|
| `Submit`, `SubmitRejected` | `submit()`: transaction with observations and policy, portable file, start of the heads |
| `Replay` | a table's turn, `tryHead()` |
| `BeginWrite`, `WriteFails`, `WriteConfirmed`, `SettleFails`, `RetryDue` | `startWrite()` and its two outcomes, or a transaction that fails |
| `Apply` | QuestDB applies what it was sent, before or after the answer |
| `Acknowledge`, `AcknowledgeLegacy` | `acknowledge()`, `acknowledgeLegacy()`, the bounding of receipts |
| `Pause`, `PauseReturns`, `Resume`, `CommandAnswered` | `command()` with its probe of a faulted journal and its receipts |
| `SetGlobalPaused`, `ImportPolicy` | `setGlobalPaused()`, `importPolicy()` |
| `Close`, `Closed`, `Crash`, `Restart` | `close()`, `closeJournal()`, the process ends, the constructor |
| `StorageFails` | `fault()` from any failed use of the store |
| `RolledBack`, in `SubmitRejected` and in the failing branch of a command | the catch of `transaction()` |

A crash between the SQLite transaction and the portable file of one handler
leaves the disk of a failed file write followed by `Crash`, so it needs no
action of its own. A crash is one of the process: SQLite keeps what it
committed.

A failed transaction has two ends (`RolledBack`). If its `ROLLBACK` succeeds, memory
gets the previous policy back. If SQLite has already ended the transaction, as it does
for a full disk, an I/O error or its own page limit, the `ROLLBACK` throws, the policy
in memory stays the new one, and `torn` is set. Submits and commands that change the
policy have both ends; those that do not change it have nothing to restore.

### TargetReplay

Tables are numbered in the order of their names, because `replayPass()` rotates
that order with its cursor. `todo` are the tables of the pass still without a
turn, `turns` those being served (at most `Concurrency`), `awaits` the rows a
turn waits for. `Ready` are the places of `tryHead()`'s free rows up to the first
that has to wait, `Heads` the rows it starts, cut at the share and at `maxInFlight`. `WriteFails` treats
every exception alike, as `startWrite()` does. Storage faults and crashes are
in `TargetJournal`, and left out here.

### IlpWriter

`setup[t]` is the promise chain of `runWithTable` (`pendingWrites`). `pending`,
`flushAt` and `timer` are the batcher's queue; deadlines are only compared, and
an armed timer may fire at any moment. A flush runs through the phases
`append`, `flush`, `wait` (for a retry) and `settled`. `buffer` is the sender's
own buffer, which survives an attempt. `AppendRow`/`AppendFails` rebuild it row
by row; a row that cannot be built is rejected and the batch goes on without
it. `FlushRefused` is the open circuit, `FlushFails` a failure of the sender,
retriable or not, with the database having applied the rows or not; `FlushEmpty` is
`flush()` resolving without having sent.

### IngestPath

An event is one received occurrence. `live[e]` is where its live copy is:
`none` (not received), `queued`, `buffered` (inactive topic), `resolving` and
`writing` (in `processEvent`), `refused` (between `processEvent` throwing and
`process()` spilling), `gone`. `stored[e]` is its stage in the running replay
pass. `file` and `lock` are the disk: a lock carries the pid it was made by, and
several may exist. `journal[e]` is what `TargetJournal` shows: nothing, a row or
receipt, or a dropped receipt. `lost` collects the losses the program itself names
(no storage rule, invalid packet, evicted or expired inactive event, failed
disk, end of the process). `marked` are events that an earlier release left in the
spool when their topic had been inactive for too long; the replay drops them if it
still is (`GivenUp`, `isInactiveBufferSpill()`).

Two actions are freer than the code. The `Take` actions let a live worker start
late, where `drain()` runs within the handler that makes room, and `Recover`
may run whenever the process runs. Both only add behaviours, so what holds of the model
holds of the code.

### LegacyImport

Each archiver has one command under way (`call`, with `at` for the await it has
reached) beside one background pass (`pass`), in whose hands each selected file
has a `stage`. The source directory is shared: the files (`source`), the lock
with its `owner` and its `recovery` directory (`mutex`), the `checkpoint`, and
the quarantine (`kept`: a description or a preserved file). `ahead` and `unseen`
are the names the two directory cursors have still to give, `missed` and `found`
the counters `sweepRemaining` and `verificationRemaining`, of which only
"above zero" is ever asked. `inDb` is history: what QuestDB confirmed.

| Actions | Code |
|---|---|
| `Command`, `Enter`, `Apply` | `command()`, `applyCommand()` before and after `claim()` |
| `Claim`, `Own`, `Mutex`, `Judge`, `Takeover`, `Unmutex`, `Claimed` | `claim()`, one action per file operation |
| `Checkpoint`, `Save`; `Finish`, `SavePass` | `checkpoint()`, of a command and of a pass, one at a time |
| `Unlock`, `Rmdir`; `UnlockPass`, `RmdirPass` | `release()` |
| `Begin`, `Scan`, `ScanStops`, `ScanEnds` | `replayPass()` up to the end of the scan |
| `Skip`, `Admit`, `Written`, `Defers`, `Withheld`, `Rejected`, `Unlink`, `Acknowledge`, `Preserve` | `prepareChunk()`, `writePrepared()`, `writeLegacyPacket()`, `quarantine()` |
| `Swept`, `Verify`, `VerifyStops`, `Judged` | the end of `replayPass()`, `verifyEmptyPass()` |
| `...Fails`, `...Breaks` | an error, a refusal or a time limit at that place |
| `Close`, `CloseSource`, `Die` | `close()`, the end of a process |

`Defers` is a write that fails and is tried again in the next sweep; `Withheld` the
deferral of a file whose storage rule replaces a time window (`Window`), which is
repeated in every sweep.

Files do not change while they are imported, which the operator confirms with
`confirmSourceClosed`, and reading the checkpoint is one step. An archiver that
died does not come back under its name (a new process has a new pid and token,
so it is another member of `Proc`).

### ReplayControl

`disk` is the content of the file, `mem` that of memory, `fault` the failure of a
write, after which the process takes no command and reads as paused. A content has
the revision, the pause, the mark of the adoption (`maintenance`) and the newest
receipts; `log`, the receipts of all commands that ever took effect, is history.

| Actions | Code |
|---|---|
| `Command` | `command()`: the receipt, the revision, the fault; the file before memory, or a write that fails before or after its rename |
| `Boot`, `BootFails` | the constructor and `ensureMaintenancePause()`; a failed start |
| `Bind` | the adoption of a retained store while the instance is stopped |
| `Ends` | the process ends |

A repeated command is answered from memory and a refused one changes nothing, so
both are left out as steps.

### HistoricalImport

Rows of the source are numbered by the cursor. The id of an event is a function of
job and row, and QuestDB deduplicates by it, so the target is a set: `stored` is
what QuestDB took, `visible` what its WAL has applied. `entry` is what the journal
has of a row. `seal`, `contract` and `foreign` stand for all that may change after
the review: the source table, the configuration or the identity of a target, and
rows of others in the range. A step of the worker is cut at its awaits (`phase`).

| Actions | Code |
|---|---|
| `Review`, `Start`, `Refuse` | `start()` up to `buildPreview()`, after it, and its errors |
| `Begin`, `Inspect` | `step()`: `clearReceipts()`, `prepare()`, `inspectHistoricalTargets()` |
| `ReadSeal`, `ReadRows`, `ReadAgain` | `HistoricalReader.read()`: the seal, the page, the seal again |
| `HandOver`, `Settle`, `Yield`, `Checkpoint` | the loop over slices of eight, its refusals, the checks between slices, the checkpoint |
| `Verify` | `verifyHistoricalVisibility()`, `complete()` |
| `BeginRecovery`, `Recover` | `recoverCompletedSources()` |
| `Attempt`, `Confirm`, `Reject` | what the journal does with a row |
| `Apply`, `Change`, `Turn` | QuestDB, the outside, `canWrite()` |
| `Close`, `Die`, `Boots`, `Control` | `close()`, end and start of the process, with the actions of `ReplayControl` |
| `Fails` | in each of them: the catch of `step()`, also when the job cannot be stored |

The composition with `ReplayControl` is by `EXTENDS`: `Die`, `Boots` and `Control`
contain its actions, and `ImportKeepsControl` (section 6) says that the whole
implements it. The composition with the journal is by interface: `entry` takes the
steps of a part of `TargetJournal`, and `Confirm`, `Reject` those of its write.

The other compositions are by interface too, not by `INSTANCE`: `IngestPath` uses of the
journal that it refuses, accepts and then faults, or accepts; `TargetJournal`
uses of the writer that a write settles, one way or the other; `IlpWriter`
shows that it does (`EveryRowSettles`), and that an acknowledgement means what
the journal takes it to mean (`AckMeansStored`).

## 3. Runs

| Run | Question |
|---|---|
| `journal_rows` | Do the rows of the journal survive split packets, retries, crashes, storage faults and a paused table? |
| `journal_control` | Does the pause policy, over overlapping rules, two commands, failed files, restarts, an adopted and an imported policy, and is nothing left behind at a handover? |
| `journal_paused` | Does `paused` mean that no outcome is in doubt? (violated) |
| `journal_refused` | Does a journal open again on its own files? (violated) |
| `journal_unrestored` | Does a topic rule in force always pause the tables its topics write to? (violated) |
| `ilp_writer` | Are rows sent as asked, acknowledged truly, in order, and does every write settle? |
| `target_replay` | Do healthy tables go on beside one that can never be written, and does `close()` return? |
| `ingest_path` | Is each event kept, by one keeper, and does the spool drain and the shutdown end? |
| `ingest_refusal` | Does a refused live event stay out of the unbounded spool? (violated) |
| `legacy_import` | Is there one importer at most, and is each file deleted, acknowledged and counted in the right order? |
| `legacy_import_ends` | Is every command answered, and does an import end? |
| `historical_import` | Does an import take every row once it is reviewed, over pauses, crashes, faults and changes, and does it end? |

What the properties say:

- `journal_rows`. `CountersAgree`: the totals, changed by differences in many
  handlers, count the rows, and a job holds the current attempts of its row.
  `UncertainLeavesTrace`: a pending row QuestDB may hold is marked so, over
  every failure and crash. `HeadOfLine`: a row is
  started only when all older rows of its table are confirmed or in flight.
  `ImplementsQueue`: the journal refines `DurableQueue` with
  `held <- queued, delivered <- inDb`.
- `journal_control`. `PolicyDurable`: until a ROLLBACK throws, the policy in force is
  the stored one and the portable file is never ahead of it; in every state, the
  policy in force has no lower revision than the stored one, and at the same revision
  pauses what that pauses. `TopicRulesCover`: until a ROLLBACK throws, a topic rule,
  in memory and on disk, covers every table its topics write to, in whatever order
  observations, rules and rollbacks came. What a thrown ROLLBACK does to both is
  finding 3. `RevisionsNotReused`: two commands never end at one revision.
  `PauseIsABarrier`: no write is admitted to a paused table, and none is sent
  once the boundary reads `paused`. `ExportOnlyDrained`: an export for a handover
  leaves no row and no pause in force behind, also after `close()`.
- `ilp_writer`. `FlushSendsTheBatch`: the shared buffer holds exactly the rows
  whose promises the answer settles. `AckMeansStored`, `TableOrder`,
  `TimerCovers` (no lost wake-up), `EveryRowSettles` and `CloseReturns` as
  named.
- `target_replay`. `HealthyTablesContinue`: a row of a table without a rejected
  row is written once the table stays unpaused, whatever the other tables do.
- `ingest_path`. `Accounted`: a received event is in memory, on disk, in the
  journal, or lost for a cause the program names. `OneKeeper`: an event in the
  spool is in no queue, buffer or live worker. `SpoolKept`: the last file of an
  event goes only after the journal accepted it, or for an event that an earlier
  release had given up. `WrittenOnce`: one process does not put an event in the
  journal again after its receipt was dropped.
  `SpoolDrains`: a spooled event reaches the journal. `ShutdownEnds`: a shutdown
  ends, and with no work queued or under way when the journal has closed.

- `legacy_import`. `OneImporter`: whoever works on files, or runs a job, owns the
  source, over takeovers, releases and deaths at any step. `SourceKept`: a file
  leaves the source only after its write was confirmed or with an entry in
  quarantine. `ReceiptOutlivesFile`: a receipt is dropped only after its file is
  gone, so the file is never written twice by one archiver.
  `CompletedMeansDone`: a completed job has an empty source and an empty
  quarantine, also when the archiver that filled the quarantine died before its
  checkpoint.
- `legacy_import_ends`. `CommandsReturn`: commands wait for the pass, the pass
  stops for commands, `close()` waits for both, and all of them end.
  `ImportEnds`: a running job ends, or nothing is left in its source but files under a
  `window_replace` rule, which every sweep defers; no other sweep is repeated for ever.
- `historical_import`. `ImportIsExact`: the target holds rows of the reviewed source
  only, all that the cursor has passed, as many as the job counts, and all of them
  when the job is completed; the published sources are those of the rows there; an
  archiver that may be handed over has no row or receipt of the import.
  `BlockedForCause`: a job is blocked only if source, contract or target is not what
  was reviewed. `ControlPromise`: a command takes effect once, over lost answers,
  dropped receipts and restarts, and an adopted store stays paused until an
  operator resumes (`OneEffect`, `AdoptionHeld`). `PauseIsABoundary`: once the
  status reads `paused` with nothing in flight, nothing is written before the pause
  ends. `ImportEnds`: a running job is completed or blocked. One branch of the code
  never runs in the model: the check at the end that counts another number of rows
  than the job wrote. It is a safeguard, and `ImportKept` proves it to be one.

Deadlock is checked in the runs of `TargetJournal`, `IlpWriter` and
`HistoricalImport`. The others
say `CHECK_DEADLOCK FALSE`: a closed `TargetReplay` journal, an `IngestPath`
process that ended for the last time, and archivers of `LegacyImport` that are all
closed or dead are ends of the system.

## 4. Bounds

| Run | Bounds | Why enough |
|---|---|---|
| `journal_rows` | three parts, two tables, a packet over both and a legacy packet that queues behind it; 2 pending rows per table, 2 jobs, batch 2; no command, but a pause of one table brought by a host, or none, and a policy to import | a table with a head and a follower, a packet that is partly written, and a refused submit all occur; rows meet only through their table, the room for jobs, and the fault |
| `journal_control` | a packet of one topic with a part for each of two tables, and 2 jobs; a rule by table and one by topic that overlap; two commands; portable file absent or brought; a policy to import at revision 1; `MaxPending = 1`; revisions up to 2; the two commands are symmetric | a topic that appears after its rule, two rules on one table, a rolled back submit or command, one whose ROLLBACK throws, and a later submit that goes on from what it left need no more |
| `ilp_writer` | three rows, two of one table; batches of 1 or 3 rows and changes between them; 2 attempts, 2 failures to open; deadlines 1 and 2 | a batch in flight, one that waits, a row rejected in the middle, a timer to be brought forward, a retry and an open circuit |
| `target_replay` | two tables, a rejected row with one behind it, a healthy row; `Batch = 1` so that only the cursor gives the second table a turn, as with more tables than the 64 of `replayBatch`; `MaxInFlight = 2` | with a room of one, a row that always fails can also starve others through the room; production uses far more |
| `ingest_path` | two events of one topic, one of which turns out invalid, and may come from the spool of an earlier release; a queue of 1 so the second spills; a buffer of 1 so an eviction happens; one live and one stored worker, batch 2; one end of the process; two pids, so a restart has its old or a new one | every two-event conflict: overflow, eviction, both ways on one event, locks of a dead process |
| `legacy_import` | two archivers, symmetric; a good and a bad file, or the good one alone; a source untouched or with a dead owner; batch 1; two commands; one failure | two claimants and a dead owner meet at every step of the claim; start and pause, or start and cancel, or two starts; a job can complete, and can be blocked |
| `legacy_import_ends` | one archiver, a good file with or without a bad one and one under a `window_replace` rule; batch 2, writes one at a time, two commands, two failures | a pass with a file in hand and one that waits is what a command has to wait for |
| `historical_import` | four rows of two topics in pages of two, slices of one; one row after the cutoff of its mapping, one that appears late; two faults, one change; a pause and a resume with one receipt kept, two commands; no job, or one that an earlier version completed, with its rows or without | a page with a gap, a page without a row to write, a page written twice, a change before, within and after a page; a fault, and one more when that is recorded; a command repeated after its receipt is gone; adoption and operator in any order |

Bounds that exist only in the models: `MaxRevision` in `TargetJournal`, `MaxStops` in `IngestPath`, `MaxCalls` and
`MaxFaults` in `LegacyImport`, `MaxFaults`, `MaxChanges` and `MaxRevision` in
`HistoricalImport`, whose process may end and start without a bound; the finite
`Request` and `Row` sets (each is used once). `MaxPending` of the journal
counts rows; the code's byte budgets refuse in the same place with the same
effect. `MaxRevision` bounds the revision of the policy, because a command whose
ROLLBACK throws raises it in memory, is not recorded, and may be sent again. The newest 10,000 receipts and the last processed ids are more than
any instance reaches: their eviction is not modelled.

## 5. Fairness

Safety is checked of `Init /\ [][Next]_vars` alone, or holds a fortiori.

- `IlpWriter`: weak fairness of setups, of the timer, of the steps of a flush and
  of `close()`'s loop. These are settled promises, timers and a loop. It assumes
  nothing of the database: `EveryRowSettles` holds when every flush fails.
- `TargetReplay`: weak fairness of the interval timer, of the workers of a pass,
  of the retry delays and of the settling of a write. Strong fairness of
  `WriteSucceeds` for rows that are not rejected says that a row tried again and
  again is written at last; without it nothing can be promised of a database
  that is down for good. Nothing makes operators or producers act.
- `IngestPath`: weak fairness of the steps of a live or stored event, of starting
  and ending passes, of recovery, of the shutdown's steps and of the restart;
  strong fairness of `StoredSubmit`, by the same argument: an event that is
  offered again and again is accepted at last. `SpoolDrains` further assumes that
  the process stays up, unpaused, with the event's topic active.

- `LegacyImport`: weak fairness of the steps of commands, passes and `close()`,
  that is of awaited file operations and of the ticks of the timer. Failures are
  bounded by `MaxFaults` instead of assumed to be rare: after the last one,
  reads, writes and deletions succeed, except for the files of `Window`, whose deferral
  is no failure. `legacy_import` uses symmetry, and checks safety only, as
  `journal_control` does.
- `HistoricalImport`: weak fairness of the steps of the worker (its timer and its
  awaited calls), of the journal's attempts and of their answers, and of QuestDB
  applying its WAL. Failures are bounded by `MaxFaults`. `ImportEnds` assumes that the
  process in the end stays up, healthy and unpaused (`Steady`); nothing else makes an
  operator resume or a database recover.

`SpoolDrains` has an exception that the code has: a lock of this very pid that no
worker holds, left by a failed rename, or by an earlier process with the same
pid. `recoverProcessingPass()` takes it for its own; the README says that PID
reuse is not resolved (`README.md:133`).

## 6. Proofs

### The journal

`TargetJournalProofs` and `TargetJournalPolicyProofs` prove, for all sets of parts,
tables, topics, selectors, requests and policies and all bounds:

| Theorem | Property |
|---|---|
| `TypeCorrect` | `TypeOK` |
| `TotalsCorrect` | `CountersAgree` |
| `UncertaintyKept` | `UncertainLeavesTrace` |
| `ExportSafe` | `ExportOnlyDrained` |
| `HeadOfLineHolds` | `HeadOfLine` |
| `QueueImplemented` | `ImplementsQueue` |
| `PolicyKept` | `PolicyDurable` |
| `RulesCover` | `TopicRulesCover` |
| `RevisionsUnique` | `RevisionsNotReused` |
| `PauseHolds` | `PauseIsABarrier` |

They are every property that the passing runs of `TargetJournal` check. `PolicyKept`
and `RulesCover` prove them as section 3 states them, with the thrown ROLLBACK among the
steps: both claim the whole while none has thrown, and `PolicyKept` the order of the two
policies always.
Assumptions, which TLC evaluates on each run: `PartsAssumption` (finitely many
parts and tables, and no packet with two parts of one table, as
`resolvePacketTargets` gives each part its own), `PolicyAssumption` (what a
selector names; an imported policy has no rules, as `importPolicy()` refuses
any other; the "none" values are no policies), `BoundsAssumption`.

The argument. None of the properties is inductive alone.

- `RowInv` holds of the rows whatever the policy is. `Counted` needs
  `RowTypes`, which adds that a job holds the current `attempts` of its row
  (`snapshot = Jobs \cap attempted`) and that a delayed row has no job: both
  are what keeps a stale row read before an `await` from corrupting the totals.
  `Delivery` adds to the trace of uncertain rows that everything that left the
  queue is in the database, which makes the refinement go through. `Ordered`
  says that `ahead` is transitive within a table, which `HeadOfLine` needs to
  conclude from a started row to all older ones.
- `LifeInv` ties the process to the jobs: none while down or closed, and
  `closedDrained` only with an empty queue and no rule.
- `PolicyInv` has two parts. What holds in every state: the memory of a stopped process
  holds no policy, a running one has stored one, and the policy in force succeeds it
  (`Succeeds`: no lower revision, and at the same one nothing less paused), so an
  extension made by `observe()` or a new command keeps that order even when it is left
  in memory alone; a journal that stored no policy observed nothing; revisions are not
  reused. What holds while no ROLLBACK has thrown (`Untorn`): the two policies are equal,
  the file is not ahead, and the coverage of topic rules holds of the stored policy too,
  so a restart and a successful rollback restore it.

Each has a lemma per action (`SubmitRows`, `WriteFailsRows`, `RecordPolicy`, ...),
and counting is done by five lemmas on `Cardinality(At(S, t))` (`CountAdd`,
`CountInsert`, `CountRemove`, ...). An action property follows from the
invariant and one lemma on the step (`HeadOfLineStep`, `BarrierStep`).

### The control of replay

`ReplayControlProofs` proves `ControlKept` (`ControlPromise`, with the types), for all
requests, all numbers of receipts kept and all numbers of commands and starts, from
`ControlAssumption` (the id of an adoption is none of an operator's). The promise is
not inductive: the receipts that are still there say nothing of the dropped ones.
The invariant `Sound` says it of the numbers instead. The receipt at position `i` of
the log expected revision `i - 1` (`Numbered`), so no two commands of one id that
expected the same revision are in it, whichever receipts were kept; the pause is that
of the last one (`PauseOfLast`); the mark is there with the one receipt of the adoption
(`AdoptedOnce`). `SuccessorSound` shows it of what any command makes of a content.
`Follows` ties memory to the file: they are equal, except after a failed write, when
the file may hold one command more, and then no command is taken.

### The historical import

`HistoricalImportProofs` proves, for all sources, mappings, sizes of pages and slices
and numbers of faults and changes:

| Theorem | Property |
|---|---|
| `ImportKeepsControl` | `ControlPromise`: every step of the import is one of `ReplayControl` or leaves its variables alone, so `Spec => ControlSpec` |
| `ImportTypes` | `TypeOK` |
| `ImportKept` | `ImportIsExact` |
| `BlockedHasCause` | `BlockedForCause` |
| `PauseIsHeld` | `PauseIsABoundary` |

They are every safety property of the run `historical_import`. `HistoryAssumption`: the
rows are numbered from 1, late and skipped ones are among them, pages and slices are not
empty, and "no job" is no job.

The invariant `ImportInv`, checked by TLC before it was proved, has five parts.
`JobInv`: what was reviewed is not newer than what there is, so a difference stays.
`EntryInv`: the journal holds rows of a job that is not completed, and of those the
cursor has passed only the confirmed ones the job keeps receipts of. `Exact`: rows and
count of the property, with what is known of an earlier job. `WorkerInv`: in which
states of the job a step, a timer or a review is possible. `PageInv`: between two
reads that agree the seal did not change, and the page of the worker is the part of
the reviewed source that follows the cursor, without a gap, of which everything not
to be written any more is confirmed (`HeldPage`). The last two are what makes the
checkpoint sound (`CheckpointHolds`): a row up to the last one of the page is either
before the cursor or in the page. `AllPassed` concludes that at the end the count is
right. There is one lemma per action; a step that fails, in whatever phase, is one
lemma (`FailsHolds`), and so is the return to rest (`RestsHolds`). Pages rest on
`FirstIsInitial` and `LastRow`, which use that the natural numbers are well founded.

### The writer

`IlpWriterProofs` proves, for all rows, tables, deadlines and configurations and any
number of attempts and failures:

| Theorem | Property |
|---|---|
| `WriterTypes` | `TypeOK` |
| `BufferIsBatch` | `FlushSendsTheBatch` |
| `AckedIsStored` | `AckMeansStored` |
| `NoWakeUpIsLost` | `TimerCovers` |
| `TableOrderKept` | `TableOrder` |
| `RowsSettleOnce` | `SettledOnce`, stated beside it: no step changes an outcome |

From `WriterAssumption`: a row has one table, no deadline is "no timer", a batch is not
empty and fits into the pending rows, there is an attempt, and the circuit breaker opens
after some failure. The run has three rows; here a table may have any number.

`TableOrder` speaks of batch and pending rows only, and is not inductive: a row comes
to the pending rows from the setup chain of its table, which a new table has. `Lines` says
that batch, pending rows and each chain are in the order of arrival, and that a row in
one of them arrived before those of its table in the next. As a row arrives once
(`ArriveOnce`), no row stands in two places (`Apart`), so a batch or chain that settles
settles no other row (`Waits`), and none twice. `Built` says what the buffer is during
`appendRows()`: the part of the batch built so far, also after a row was taken out of the
batch because it could not be built, which is why a flush sends the batch. `TimerCovers`
is inductive with the types; `ScheduleHolds` shows it of `scheduleFlush()` once for all
its callers.

### The way in

`IngestPathProofs` proves, for all events, topics, limits, process ids and numbers of
ends and starts:

| Theorem | Property |
|---|---|
| `PathTypes` | `TypeOK` |
| `NothingVanishes` | `Accounted` |
| `OneWayAtATime` | `OneKeeper` |
| `SpoolIsKept` | `SpoolKept` |
| `EventsWrittenOnce` | `WrittenOnce` |

From `IngestAssumption`: an event has one topic; limits are positive; there are no more
workers than a pass takes; a process has some pid.

`StoredOK` adds that an event a replay pass works on, or that its cursor has still to
give, is out of the live path, so `inflightEventIds` never stands for two copies of it
(`MemoryOK`), though both ways add and remove ids. `Settled` keeps the reason for which
a lock is about to be deleted (`"delete"`) true until it is: another file, a row of the
journal, or nothing to store; the deletion comes steps later and may fail.
`JournalOK` ties the processed ids to the journal: without an end of the process they
are those of the dropped receipts, which is `WrittenOnce`. Lemmas about sequences carry
the queue: `JoinedQueues` for what is put behind it, `TailLeaves` for what its head
leaves, `OrderOf` for the order in which a flush of the inactive buffer queues its
events.

### The legacy import

`LegacyImportProofs` proves, for all files, archivers, limits and numbers of commands and
failures:

| Theorem | Property |
|---|---|
| `ImportTypes` | `TypeOK` |
| `OneAtATime` | `OneImporter` |
| `CompletedIsDone` | `CompletedMeansDone` |
| `SourceIsKept` | `SourceKept` |
| `ReceiptStays` | `ReceiptOutlivesFile` |

From `ImportAssumption` (finitely many files, of which some belong into quarantine;
positive limits; the former archiver and "no owner" are no archivers) and
`NoJobAssumption` ("no job" is no job). TLC checks two archivers; the hand-over of the claim
is proved for any number of them.

- `LockOK` is the claim. `owner.json` is absent exactly in the steps between the making
  of the lock directory and the writing of the file, or between its removal and that of
  the directory, and one archiver at most is there, in a command or in a pass. One
  archiver at most holds `lock/recovery`, and while it is about to replace the owner, that
  owner exists and is dead. Who claims has no token yet.
- `OwnOK` says when an archiver relies on its claim (`Relies`): about to apply a command
  that is no pause, in a pass, or with a running job. It has its name in `owner.json` then.
  A pause relies on nothing: it may run beside a pass that gives the claim
  away, and may then write the checkpoint of the former owner (section 8).
- `PassAlone` follows: while one archiver is in a pass, no other has a file in hand. That
  is what lets `FileOK` say that a written file is in the database, that a rejected
  one is still there, that a selected name is one the cursor has passed, and that names a
  verification has not seen cover the source (`source \subseteq unseen`), so that a
  verification that found nothing ends over an empty source.

There is a lemma per action. Those of commands rest on `CallHolds` and `ClaimFrame`,
those of passes on `PassHolds`, `PhaseHolds` and `FileMoves`.

### The replay passes

`TargetReplayProofs` proves, for all rows, tables and limits:

| Theorem | Property |
|---|---|
| `ReplayTypes` | `TypeOK` |
| `PassesGoRound` | `RoundRobin`, stated beside it |

From `ReplayAssumption`: finitely many tables, numbered from 1 on; a row has one table;
the limits are positive.

`TypeOK` contains what a queue is (the accepted rows of its table that are not written)
and the limits. It needs that a queue holds no row twice (`RowsOK`), and `HeadsFit`: of
the free places those with fewer than `room` free ones before them are at most `room`
(`FirstFew`), so `tryHead()` starts no more than there is room for, whatever the share is.

`RoundRobin` is the safety part of `HealthyTablesContinue`. A pass has `replayBatch` rows
to give and may be cut short; the targets it leaves out come, from the cursor on, after
those it takes, and turns are given in that order, so the next pass goes on where the
last one stopped. `InTurn` is why: the tables still to come are in cyclic order from the
cursor, and stay so when the cursor moves to the first of them (`TurnMoves`). That the
two sorted halves have every target once is `FairIs`, and that a set of tables can be
sorted at all is proved in `InOrderIs` by counting the tables below each. The sorting of
the community modules is not defined by TLA+ formulas the prover knows, so `InOrder` is
the model's own.

### Only model-checked

All liveness: fairness and `ENABLED` are out of the proof system's reach. Every invariant
and action property of the passing runs has a theorem.

## 7. Findings

Each is a property that states what the documentation says, violated by a run of the
model of the code.

1. `PausedMeansSettled` (`target-journal.ts:664`). When the transaction that
   records the outcome of a write fails, the job is gone, the row keeps
   `in_write = 1` with `attempts = 0`, and `totals.retrying` is unchanged. A
   later command clears the fault, and the boundary reads `paused` (or a resume
   needs no confirmation) with a write in doubt, until the next restart. The property
   excepts states after a thrown ROLLBACK, so the run shows a cause of its own.
2. `RestartNotRefused` (`target-journal.ts:259`). `observe()` extends a topic
   rule without a new revision. If the process dies, or the file cannot be
   written, between the commit and the portable file, the file holds other rules
   at the same revision, and the next start refuses the archiver's own files.
3. `BranchRulesCover` (`target-journal.ts:354`). When a statement or the COMMIT fails
   for a full disk, an I/O error or the page limit of the journal, SQLite has ended the
   transaction by itself. `db.exec("ROLLBACK")` then throws, and the line that restores
   the previous policy is never reached. A failed submit leaves an extended topic rule
   in memory only; the next submit finds the rule extended, records the observation
   without storing the rule, and after a restart the table is written although the
   branch is paused, against `README.md:729`. The same path keeps a failed pause or
   resume in force, and can bring a portable file ahead of SQLite. `PolicyDurable` and
   `TopicRulesCover` therefore except what follows a thrown ROLLBACK (`torn`), and say
   what remains true after it.
4. `RefusalNotSpooled` (`index.ts:1895`). The refusal of a bounded journal is
   rethrown so that no unbounded file takes its place; the live queue catches
   it and spills the event to a file.

## 8. What is not modelled

- The entity binding cache: an answer fetched before an invalidation and stored after
  it. `IngestPath` keeps of it only whether a resolution asks for a retry.
- Of the replay control: the checks of the file's owner, mode and size at the start.
- Of the handover: the assertion that the spool was seen empty after the last spilled
  file, which needs the inventory of the stored replay; and the replay of the journal
  while a handover drains, when `canReplay` no longer looks at the shutdown.
- Of the historical import: more than one job (while one is active no other starts;
  afterwards one that overlaps is refused), status and preview without a start, the
  validation of settings, schemas and rows, whose failures block a job like a
  changed contract, and time limits of single reads, which are failed reads.
- Of the legacy import: repeated request ids, inspection passes, metrics, files
  that change meanwhile, entries that are no regular files, several sources of
  one importer. A job with a file under a `window_replace` rule stays `running` for ever,
  deferring it in every sweep (`legacy-import-writer.ts:94`, `README.md:322`):
  `ImportEnds` excepts that, and promises nothing for such a job but that its other
  files are gone. A write that a paused table holds up counts as a failed one, within
  `MaxFaults`. Two things the model shows have no property yet: a `release()`
  whose `rmdir` fails because a claimant has just made `lock/recovery` leaves a
  lock without an owner that no `claim()` takes; and a pause that asserted its
  ownership before a completed pass released the source still writes the
  checkpoint.
- Power loss: a file or SQLite transaction that was written but not synced, and a
  transaction whose COMMIT failed and whose frames a later recovery finds after all.
- A row the writer rejects for good (`NonRetryableError`) is retried for ever, as every
  exception is (`target-journal.ts:647`); `TargetReplay` has such rows, and
  `HealthyTablesContinue` says what they may not do to other tables. For the rows behind
  it in its own table there is no property: whether they start depends on the share
  of the table and the free places.
- Byte limits (a row near the byte budget of the journal waits until no other row is in
  flight), changes of limits or storage rules at run time, the eviction of
  receipts and processed ids (see bounds), the move of malformed files to the
  failed directory, inventory counts.
- Topic matching, GraphQL reads, MQTT subscriptions: `IngestPath` lets the set
  of active topics change at any time. The columns of a row and the deletion of
  a time window (`performWindowDeleteOnce`): their effect here is that a write
  fails or is rejected.
- Health reports, HTTP schemas and rights, configuration, naming, generated code:
  functions without state of their own.

## 9. Plan

The journal came first, as it carries the promise; then the writer it relies on,
its scheduling, the way into it, the import that competes for files, the control of
replay, and the import that obeys it. Left, in this order:

1. `LegacyImport`, beyond what is there: a run of three commands for the
   checkpoint that a former owner writes, and the release that leaves a lock.
2. The binding cache against invalidations during a fetch, and liveness of the
   journal under storage faults of one table.
3. Power loss in the spool: a second, unsynced state of each file.
4. Proofs: that the journal seen as a scheduler also starts the rows of a table in
   order, and that the import through the journal implements an abstract copy.
