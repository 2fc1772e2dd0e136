# autodngconverter in TLA+

Specifications of the RawImport pipeline (`src/`): a daemon that watches a folder,
converts camera RAWs to DNG with an external converter, numbers them, records them in
MariaDB, archives the originals, and afterwards keeps orientation and hashes of the DNGs
in step with the editors that use them. Line numbers refer to the files under `src/src/`
unless a path says otherwise.

| module | what it is |
|---|---|
| `Ingest` | from `/watch` to `/output` and `/archive`: poller, worker pool, database, crash and restart |
| `MCIngest` | small instances of `Ingest` (feeds, fingerprints, symmetry) |
| `IngestProofs` | theorems about `Ingest`, checked by TLAPS: numbers, rows, renames |
| `IngestNamesProofs` | more about `Ingest`: what rests on the name of a file (hashes, duplicates, dead letters, copies between devices) |
| `Library`, `MCLibrary` | from an empty database and a library that exists already: open, migrate, reconcile, reserve numbers, allocate; crash and restart at any statement |
| `LibraryProofs` | theorems about `Library` |
| `Dispenser` | what `Store::AllocateSequence` promises; `Ingest` and `Library` implement it |
| `Children`, `MCChildren` | the processes the Worker starts: one exiftool behind two pipes and a mutex, one converter per worker under a deadline; start and stop of the Worker |
| `ChildrenProofs` | theorems about `Children` |
| `Sync`, `MCSync` | after the import: HTTP thread, rotation manager, shutdown, darktable plugin |
| `Coalescer` | what the rotation manager promises: intents replace one another and go one way; the manager and the shutdown in `Sync` implement it |
| `SyncProofs`, `SyncTrailProofs` | theorems about `Sync`: intents, locks and hashes; the grace, the audit trail and the refinement of `Coalescer` |
| `CoalescerProofs` | what every coalescing queue is good for |
| `Algorithms`, `MCAlgorithms` | functions that only compute, each against what it is meant to compute |
| `AlgorithmsProofs` | all four of them, for inputs of every length |

## The system

| component | state | operations | talks to |
|---|---|---|---|
| Poller (`worker.cpp` 124-203) | `seen` (TTL map), the queue `files` | scan, queue, expire | `/watch`; the workers through `Impl::mtx` and `cv` |
| Worker pool (205-477) | `inflight`, `fail_counts`, `fp_cache`, one database connection each | hash, duplicate check, number, convert, record, archive, retry, dead-letter | poller, Store, converter, disks |
| Reconversion thread (479-507) | `reconverts` | convert again, update hash | nobody queues a job: `api.cpp` 302 inserts the row only |
| Store (`db.cpp`) | `sequences`, `imports`, `reconversions`, `processing_locks`, `alerts`, `preview_edits` | one statement, or one transaction for a number, per call | MariaDB; no lock of its own |
| Reconciliation (`reconcile.cpp`) | none | legacy rows for the DNGs found, reserve numbers | Store, at start-up |
| Rotation manager (`rotation.cpp`) | `pending` (id to intent and deadline) | Queue, grace timer, Dispatch, Stop | exiftool, Store (shared connection) |
| REST API (`api.cpp`) | one accept thread, `stop` | two callbacks, reconvert, read-only endpoints | Store (shared connection), rotation manager |
| Converter, embedder (`converter.cpp`) | none | run an external program with a timeout | dnglab and others |
| ExifTool daemon (`exiftool_daemon.cpp`) | child process, pipes, health flag | extract the date | workers, one mutex |
| Utilities (`util.cpp`, `pipeline.cpp`, `metrics.cpp`, `config.cpp`) | metrics counters | `move_file`, hashes, fingerprint, folder schema, SQL splitter, `.env` | everyone |
| Darktable plugin (`tools/betterembeds.lua`) | none shared | re-embed a preview, rotate, call back | REST API, the DNGs themselves |
| Start-up and shutdown (`main.cpp`) | `g_stop` | open, migrate, reconcile, start; stop in order | all of them |

What makes it hard, and where it is listed: the interleaving of poller and workers over
`seen`, `inflight` and the queue; files that are read four times by one pass and may
change in between; calls that fail half way (converter, statements, moves across
devices); a process that dies between any two of them; a database connection shared by
threads; a map that changes while it is iterated; condition variables and sockets at
shutdown. `PROJECT.json` lists each hazard at its line with the properties aimed at it.

What makes each component correct:

- ingest: a row always has its DNG; numbers and DNGs are never reused; a photo has one
  row; the recorded hash is that of what was converted; nothing the user handed over is
  lost; dead letters have earned it; every file leaves `/watch`, and a good one is imported;
- start-up: nothing runs on half a schema, new numbers are beyond every file of the
  library, and the process comes up however often it dies on the way;
- children: a date is that of its own photo, a conversion reported as done is whole, no
  child is left, and neither a dead exiftool nor a hung converter blocks anyone for ever;
- rotation: the last intent of a burst is the one that ends up in the DNG and in the row,
  after a whole grace, and none is forgotten;
- hashes: the recorded output hash is that of the file, and the audit trail explains
  every change of it;
- shutdown: it ends, and nothing queued is dropped.

## `Ingest`

One action per critical section of `Impl::mtx`, per database statement, per file system
call and per run of the converter.

| code | actions |
|---|---|
| `PollLoop` 124-190 | `StartScan`, `Visit`, `Enqueue`, `EndScan`, `Idle` |
| `WorkerThread` 205-241 | `Connect`, `Pop` |
| `ProcessFile` 243-315 | `TakeFingerprint`, `LookUp`, `Hash`, `Store`, `Dedup` |
| `ProcessFile` 330-415 | `Alloc`, `Convert`, `Clear`, `Insert`, `Release` |
| `move_file` (`util.cpp` 175-251) | `Move`, `Copy`, `Unlink` |
| `move_to_dead_letter` 435-477 | `ReleaseForRetry`, `CountFailure`, `Move`..., `Alert` |
| `main` 36-75 with `ReconcileLibrary` | `Crash` |
| the user and the clock | `Drop`, `Replace`, `Remove`, `Tick` |

The state is that of `Worker::Impl` under the source's names, the disks (`watch`, `young`,
`archive`, `output`), the tables (`nextSeq`, `imports`, `legacy`, `alerts`), the program
counters and locals of the threads (`pc`, `job`; `poller`, `scan`, `cand`, `sinceScan`),
and history that only properties read (`drops`, `entrusted`, `failures`, `faults`).

Abstractions:

- A content stands for its SHA-256. The half `output_hash=?` of `GetImportByHash` is
  left out: a DNG's hash is never a RAW's.
- The directory listing is a snapshot of the scan's start. `sinceScan` stops counting
  when a scan is due; `seen` ages saturate beyond the TTL.
- All files go to one schema folder, the worst case for name collisions; the EXIF date,
  and the daemon that finds it, are in `Children`.
- The converter reads the source atomically. What a failed or killed one leaves is a
  `Torn` file. A dnglab that survives a crash writes a number nobody uses.
- A `.failcount.N` suffix has one value (`MaxRetries`), so dead letters of one name share
  a target, as they do on disk.
- `evict_fp_cache` drops any other entry, not the oldest.
- `AllocateSequence` is one transaction that may fail and burn a number. That includes
  failures by the clean-up of `TMP_` rows of concurrent allocations.
- A restart finds a database that knows the library and whose statements do not fail
  (the first start is in `Library`); identical legacy rows of several restarts count once.
- Data races: none of the modelled state is touched outside `Impl::mtx`.

Bounds: `MaxDrops` (drops of one name), `MaxFaults` (failures and crashes), `MaxQueue`
(queue entries), `MaxSeq` (numbers). They only stop the environment or a counter; two
drops are enough for a name to come back, one fault for each failure path, two queue
entries for a stale one behind a fresh one, and `MaxSeq` is above what the drops and
retries of a run can use up in the runs about liveness.

Properties, and what holds when:

| property | states | holds for |
|---|---|---|
| `TypeOK` | types and bounds of every variable | proved for all |
| `ImportHasDng` | a row's DNG is on disk, complete, unchanged | proved for all |
| `NoDngOverwritten` | no step overwrites a finished DNG | proved for all |
| `OneImportPerPhoto` | a photo has one row | proved for one worker whose duplicate query does not fail; false with two (below) |
| `NoOriginalLost` | what the user handed over is in `/watch`, in `/archive` or open in `move_file` | proved for names that do not come back, on one file system for any number of workers, across devices for one; false across devices with two (below) |
| `RecordMatchesConversion` | the recorded hash is that of the converted content | proved for names that do not come back, any number of workers, with the cache; false when a file is replaced between its hash and its conversion (below) |
| `DuplicateWasImported` | what lies in `duplicates` was imported | proved likewise; false when names come back (`IngestStale`) |
| `DeadLetterDeserved` | `MaxRetries` failures of its own before the dead letter | proved for names that do not come back; false when they do (below) |
| `NumberingSpec` | the numbers are handed out as `Dispenser` allows | proved for all |
| `PhotoGetsImported`, `FileLeaves` | liveness | checked with one worker and one failing call or crash |

Fairness (`FairSpec`): weak fairness of the clock, of the poller's thread and of each
worker's thread, which is what the operating system's scheduler gives; no step of the
code waits for another thread except to take a short mutex. The user and the crash are
not fair. `Tick` is always possible, so the deadlock check can only find a model error,
not a system that waits for ever: that is what the liveness runs are for.

### Runs of `Ingest`

| run | asks | size |
|---|---|---|
| `IngestNames` | one worker, one name that comes back with another photo, is replaced or removed by the user at any step; any one call fails except the duplicate query, or the process dies (`TypeOK`, `ImportHasDng`, `NoDngOverwritten`) | 4.1 M states |
| `IngestUnique` | two names for one photo or two of the same fingerprint, cache of one entry, a failing insert, moves across devices, crash (`OneImportPerPhoto`, `NoOriginalLost`, `RecordMatchesConversion`, `DuplicateWasImported`) | 2.6 M |
| `IngestPool` | two workers, a file good or bad that both may own, one fault (`ImportHasDng`, `NumberingSpec`, `DeadLetterDeserved`) | 1.1 M |
| `IngestLeaves` | liveness, one worker, a good and a bad file under one name, one fault (`PhotoGetsImported`, `FileLeaves`) | 47 k |
| `IngestStale` | one worker with the cache, a name that comes back twice, no fault and no edit | violation of `DuplicateWasImported` |

What the runs do not reach: in `IngestUnique` and `IngestPool` no name comes back, so their
properties say nothing about what a cached hash, a failure count or an archived original
does to the next file of its name. All three go wrong in the code: the first is
`IngestStale`, the others are in the list below. `IngestNames` lets a file change at any
step; `ImportHasDng` then says that the DNG is there and finished, not of which photo it is.

`IngestUnique` takes fingerprints that do not tell the two photos apart (`Blind`: frames of
one burst agree in size, second and header). The cache is asked by path, so neither photo
gets the other's hash; asked by fingerprint alone (`KeyedByPrint`) it would record the wrong
hash, or set a photo aside unimported.

`IngestStale` needs no replaced file. `seen` forgets a path that still waits in the queue,
and the path is queued again. When the second entry is processed the file is gone: its
fingerprint is all zeros. A photo dropped before `sha256_file` is stored under the zeros, and
at the next such entry they match. The hash belongs to an import, and `move_file` sets aside
whatever bears the name by then: a photo nobody has hashed. Without the
cache the property fails when the user replaces the file between the duplicate check and the
move (the constants of `RecordMatchesConversion` below, with `MaxDrops = 3`).

`NumberingSpec` reads `Ingest` as the dispenser: a worker's hand holds the number of its
job, and taken are the numbers below `nextSeq`.

## `Library`

One action per statement the database gets, because the process may die between any two,
and because other connections' statements come in between.

| code | actions |
|---|---|
| `docker-compose.yml` 7 `restart: unless-stopped` | `Start`; `Crash` and a `main` that returns 1 (`Die`) lead back to it |
| `Store::Open` (`db.cpp` 163-183) | `Open` |
| `Store::Migrate` (185-243) | `AskVersion`, `Apply` (one statement of the migration), `RecordVersion` |
| `ReconcileLibrary` (`reconcile.cpp` 13-72) | `Visit` (a file), `EndScan`, then `Allocate("main")` in a loop that `Return` closes |
| `Store::AllocateSequence` (`db.cpp` 245-322) | `Begin`, `InsertTmp`, `Rename`, `Commit` |
| `ProcessFile` from 330 on | `Take`, `Allocate(w)`, `Convert`, `InsertImport` |
| the user | `Bring`, while the process is down |

State: the numbers on disk (`library`), the tables that exist and the version (`tables`,
`applied`), AUTO_INCREMENT and the committed rows (`nextId`, `sequences`), rows of imports
(`legacy`, `imports`), main's locals (`at`, `met`, `maxN`, `round`), the id each thread
has got (`num`).

- A transaction that rolls back gives its id up but not back, as InnoDB's counter does.
- The clean-up of `TMP_` rows (251) needs the locks of the rows that other connections
  have just inserted: it waits for them, or fails and is only logged.
- A COMMIT that reports an error may have been done or not.
- The schema's foreign keys decide which statement is rejected: `Rejected` for CREATE
  TABLE, the guards of `Visit` and `InsertImport` for rows.
- A crash rolls back what is open; what was on disk and committed stays.

| run | asks | size |
|---|---|---|
| `Library` | two workers, a library with numbers up to 3 that may grow while the process is down, two faults of ten kinds or crashes | 89 k states |

`MaxSeq` is above what three rounds of reservation and two photos use up within the
faults; three numbers are enough for a gap, two workers for allocations that overlap, two
faults for a failure and a crash, or a crash in the recovery from one. Fairness: the
restart policy and the scheduler. `CHECK_DEADLOCK FALSE`: when every photo is done the
process only waits.

`NumbersNeverCollide` is the promise of `reconcile.h` 10-11; `NumberingSpec` the same by
refinement (hands are the numbers the workers hold, taken is what is on disk or was ever
given). Both hold only if no allocation of the *reservation* fails: with `"reserve"` among
the faults they do not (below).

## `Children`

| code | actions |
|---|---|
| `Worker::Worker`, `ExifToolDaemon::start` (34-105) | `StartDaemon`, then `Write`, `Read` for `-ver`; on failure `StopDaemon("giveup")`, `Reap("bury")` |
| `send_command` (107-140) | `Write` takes the mutex and writes; `Read`, a line at a time, gives it back |
| `extract_date` (142-200) | `ExtractDate` tests `running_` without the mutex; `Returns` parses |
| `ExifToolDaemon::stop` (202-230) | `StopDaemon` writes and closes, `Reap` waits for the child |
| `run_timed` (`converter.cpp` 26-72) | `Spawn`, `Poll`, `Kill` |
| `Worker::Start`, `Worker::Stop` | `Begin`, `Join`; `Signal` is main's |
| exiftool, the converter, the clock | `Answer`, `Die`, `Convert`, `Tick` |

- A request is one message and an answer a few lines: one with the date (the file stands
  for its own date), others, and the sentinel. exiftool may die after any of them.
- A write to a child that has died fails: `SIGPIPE` is ignored by then, as libmariadb
  does so when it connects. A request written just before the death is lost with it.
- `sh -c` replaces itself by the converter (dash, a single command), so that SIGKILL hits it.
- A child that has ended stays until it is waited for; that is what `NoChildLeft` is about.

| run | asks | size |
|---|---|---|
| `Children` | two workers, a photo with a date and one without, two faults (fork fails, exiftool dies, the converter fails), a converter that may hang, a signal at any step | 38 k states |

Two workers are enough to ask for each other's answers and to wait for a dead daemon's
mutex; two faults for a daemon that dies while the other worker's converter fails. Fairness:
the scheduler, the clock, and an exiftool that answers or dies, because the code reads its
answers without a deadline; none for the converter, which has one. `CHECK_DEADLOCK FALSE`:
it stops.

## `Sync`

Three threads of the process and the plugin, over the DNGs and the rows of `imports`.
A thread at a label is in the call the label names; the step out of it is the effect.

| code | actions |
|---|---|
| accept loop (`api.cpp` 378-392) | `ApiTop`, `Accept` |
| read-only endpoints (214-286) | `HandleGet` |
| preview-updated (309-324) | `Find`, `HashDng`, `UpdateHash`, `RecordEdit` |
| rotation-updated (325-339), `RotationManager::Queue` | `Find`, `Queue` |
| manager's thread (`rotation.cpp` 33-62) | `Check`, `Block`, `Wake`, `NextDue` |
| `Dispatch` (82-121), and the same calls in `Stop` (134-147) | `AcquireLock`, `ReadDng`, `WriteDng`, `UpdateOrientation`, `ReleaseLock` |
| `main` 79-94, `ApiServer::Stop`, `RotationManager::Stop` | `Signal`, `StopApi`, `StopRotation`, `JoinManager`, `Drain` |
| plugin (`tools/betterembeds.lua`) | `Rotate`, `StartEmbed`, `FinishEmbed`, `NotifyPreview` |

- Orientations are numbered in the order they are asked for, so that "older" and "newer"
  can be told apart; previews likewise. A DNG is the pair; the pair is also its hash.
- `Block` is the window in which the manager has tested its predicate and holds the mutex
  but is not yet blocked: `Queue` must wait for it, `Stop`, which takes no mutex, need not.
- A pass over `pending` releases the mutex during each dispatch and goes on with the old
  iterator. An insertion may have rehashed the map by then, which the standard makes
  undefined; with the node-based map of the builds the iterator stays valid but the order
  changes, so the pass may skip entries: `rehashed` lets it end early.
- `AcquireLock` never finds another holder, as "rotation-mgr" is the only name the code
  uses; it can only fail as a statement. Two statements at once on the shared connection
  may make either fail (`"race"`); worse outcomes are not modelled.
- The Immich and digiKam notifications and `Worker::Stop` touch none of this state.
- `close` on the listening socket does not wake a thread that is in `accept` (Linux); the
  kernel keeps taking connections for that thread.
- Times: a deadline is the number of ticks left; `since` counts them independently for
  the property about the grace.

`Coalescer` is the promise of `rotation.h` 14-15, "coalesces spammy rotation intents" and
"dispatches exactly one job": a place for one intent per image (`Put` replaces it), one
intent in hand (`Take`), which shows in the end (`Apply`) or, if calls may fail, does not
(`GiveUp`). `Sync` implements it twice. Seen from the rows of `imports` (`InRow`) the hand
holds an intent from its dispatch to `UpdateOrientation`, seen from the DNGs (`OnFile`)
only until exiftool has written, and the hand is the manager's or, once it has exited,
main's; `last` is what was queued last. The DNGs are those of `Steady` photos, that the
plugin does not embed previews in: an embed may write back the orientation it has read
(the lost edit below), which no coalescing queue does.

Bounds: `MaxIntents`, `MaxEmbeds`, `MaxBacklog`, `MaxFaults`. Three rotations over two
imports are enough for a burst, a rotation during the dispatch of another for the same
import, and an insertion during a pass; two embeds of one DNG for overlapping callbacks.

| run | asks | result |
|---|---|---|
| `Sync` | rotations of two imports, previews of a third: the last intent wins, in file and row, nothing is left at the end (`LastIntentWins`, `OrientationAgreed`, `NothingLeftBehind`, `TypeOK`); the DNGs are a coalescing queue's (`FilesCoalesce`); the hash is current once the callbacks are handled, the audit trail is a chain (`HashIsCurrent`, `AuditChain`) | pass, 1.2 M states |
| `SyncServed` | whatever call fails, every queued intent is dispatched (`IntentServed`, fairness), and not before its grace (`GraceKept`); the rows are a coalescing queue's (`RowsCoalesce`) | pass, 0.4 M |
| `SyncWakeup` | the manager misses the notification of `Stop` | violation of `RotationStops` |
| `SyncAudit` | the row of the audit trail does not fit its column | violation of `AuditChain` |

`Strict` is whether the server rejects a string that is too long (its default) or cuts it
off. `api.cpp` 320 writes "api-preview-updated" into a column of 16 characters
(`0001_init.sql` 86), so that with `Strict` no preview ever gets its audit row. `Sync`
has `Strict = FALSE`, to see what the trail is worth where the row is accepted;
`SyncServed` and the violations have the default.

`HashIsCurrent` is about imports the run does not rotate, because a rotation leaves the
hash behind (below); for them it holds although hash and update are two steps.

The two rotated imports of `Sync` are interchangeable: nothing in the specification, its
properties or the mapping names one of them, and the run has no liveness property, so
`SYMMETRY` over them is sound. `SyncServed` has one and takes none.

Fairness: the clock and the three threads; neither the clients nor the signal. `SyncWakeup`
therefore shows a process that waits although every thread that can run does.

## `Algorithms`

Inputs grow by one part at a step, and every prefix is compared with a definition that
says what the result should be, not how it is found.

| property | code | inputs |
|---|---|---|
| `SplitBetweenStatements` | `split_sql`, `trim` (`util.cpp` 24-29, 130-173) | scripts of 2 statements out of words, quoted semicolons, other quotes in quotes, doubled and escaped ones |
| `FieldsAreRead` | `json_get` (`api.cpp` 126-141) on what the plugin sends (`betterembeds.lua` 437-439) | up to 3 fields, numbers and strings of two marks, key names among them |
| `ThumbnailIsLargest` | `extract_thumbnail` (`pipeline.cpp` 134-166) | all strings of up to 9 bytes of four kinds |
| `BucketsCount` | `observe_conversion_duration`, `Render` (`metrics.cpp` 25-33, 118-126) | up to 4 durations at, below and above edges |

The run `Algorithms` (0.4 M states) compares them; it ends when no input can grow. All four
are also proved, for inputs of every length and, for `FieldsAreRead`, strings of every
length in a body of up to three fields (the plugin sends no more). The limit of 64 bytes for
a thumbnail is 5 in the model, whose segments have at least 4. What the definitions leave out
and the code gets wrong is in the list below.

## Known disagreements without a run of their own

The modules state these properties too, and TLC finds each violated with the constants
given. Unless the row says otherwise, in `Ingest` they are `Spec`, one worker, `Paths =
{p1}`, `Contents = {c1}`, `Corrupt = {}`, `Feed <- OneFile`, `Fingerprint <- Exact`,
`MaxRetries = 2`, `PollInterval = 1`, `CacheLimit = 1`, `MaxDrops = 1`, `MaxQueue = 2`,
`MaxSeq = 6`, `QueueSize = 1`, no faults and every switch `FALSE`; in `Sync` those of
`SyncWakeup.cfg`; in `Library` one worker, `MaxLibrary = 2`, `MaxPhotos = 1`, `MaxSeq =
4`, `MaxFaults = 1`.

| property | constants | what happens | contradicts |
|---|---|---|---|
| `NoTwoOwners` | `Workers = {w1, w2}` | `seen` forgets a path 2 x poll interval after it was queued (`worker.cpp` 192), whether or not it was popped: it is queued again and two workers take it | `worker.cpp` 37 "Files currently owned by a worker thread (D24): the poller must not requeue them mid-conversion." |
| `RecordMatchesConversion` | `UserEdits = TRUE`, `Feed <- SameName`, `Contents = {c1, c2}`, `MaxDrops = 2` | the file is replaced between its hash (`worker.cpp` 273) and its conversion (353): the row has the hash of the first photo, the DNG the second | `src/README.md` 3 "records SHA-256 of source/output in MariaDB" |
| `NoOriginalLost` | `Workers = {w1, w2}`, `CrossDevice = TRUE`, `Faults = {"range"}`, `MaxFaults = 1` | two owners move one file: one truncates the copy the other has finished (`util.cpp` 199), and its own source is gone | `worker.cpp` 464-465 "move_file() gives rename-when-possible and durable copy+fsync fallback across devices" |
| `DeadLetterDeserved` | `Feed <- SameAndBad`, `Contents = {c1, bad}`, `Corrupt = {bad}`, `MaxDrops = 2` | a stale queue entry leaves a count that is charged to the next file of its name | `src/.env.example` 41 "consecutive failures before move to /archive/failed/", `worker.cpp` 34 |
| `BoundedQueue` | `Paths = {p1, p2}`, `Contents = {c1, c2}`, `Feed <- TwoPhotos` | `cfg.queue_size` is read and never used | `worker.h` 19 "Bounded in-memory queue (cfg.queue_size)." |
| `NoOriginalLost` | `Feed <- SameName`, `Contents = {c1, c2}`, `MaxDrops = 2` | an archived original is overwritten by the next of its name | `src/README.md` 36 "originals archived to `/archive/<schema>/`" |
| `ArchivedIsRecorded` | `Faults = {"insert"}`, `MaxFaults = 1` | `worker.cpp` 387 ignores the result of `InsertImport` and archives the original | `src/README.md` 3 "records SHA-256 of source/output in MariaDB" |
| `OneRowPerDng` | `Faults = {"crash"}`, `MaxFaults = 1` | the DNG's path is looked up among the source paths, so every restart adds a legacy row for each DNG | `reconcile.cpp` 32 "skip if already known by output_path" |
| `OneCaller` | as `SyncWakeup` | HTTP, rotation and main thread call the database on one connection | `worker.cpp` 206-207 "libmariadb connections are NOT safe for concurrent use across threads" |
| `OneWriter` | `MaxEmbeds = 1` | the plugin embeds while exiftool rewrites the same DNG: it takes no lock | `db.h` 63 "serialization for reconvert/re-embed/rotation" |
| `OrientationAgreed` | `Faults = {"exiftool"}`, `MaxFaults = 1` | `Stop` (`rotation.cpp` 142) ignores what exiftool returned, unlike `Dispatch` | `src/migrations/0001_init.sql` 34 "EXIF Orientation 1-8 agreed across apps" |
| `SyncedIsSynced` | `MaxIntents = 0`, `MaxEmbeds = 1`, `Faults = {"db"}`, `MaxFaults = 1` | the update fails, the client hears "synced" | `api.cpp` 316 "Recompute the output hash [...] and sync." |
| `ShutdownEnds` | `FairSpec`, as `SyncWakeup` | `close` does not wake the thread in `accept` that main joins | `main.cpp` 69 "signal handling for graceful shutdown" |
| `NumbersNeverCollide` | `Faults = {"reserve"}` | one failed allocation ends the reservation (`reconcile.cpp` 69) and `main` ignores it: the next photos get numbers of files that exist, and overwrite them | `reconcile.h` 10-11 "reserves the sequence counter past the max on-disk n so new imports never collide" |
| `LibraryRegistered` | `Faults = {}` | the rows are inserted before the numbers are reserved: `imports.sequence_id` refers to rows of `sequences` that do not exist, and the insert fails | `reconcile.h` 9 "registers 'legacy' placeholders in the DB" |

`OneImportPerPhoto` fails with `Workers = {w1, w2}` (`worker.cpp` 296: both ask for the hash
before either has inserted its row); no document of the repository promises it for more
workers than one, so it is no disagreement.

Read in the code, and not a property of a module:

- A rotation (`rotation.cpp` 98) changes the DNG and leaves `output_hash` behind, which
  `0001_init.sql` 81-82 wants to tell from "silent DNG corruption".
- `POST .../reconvert` (`api.cpp` 302) inserts a row and queues no job, so the reconversion
  thread never has one (`worker.h` 33).
- `metrics.cpp` 47-87 count the durations of the stages by edges of milliseconds;
  `render_histogram` (98) prints the labels 1 to 300 for them, in seconds.
- `set_queue_depth` and `set_db_size_bytes` are never called; both gauges stay 0.
- `Available` (`converter.cpp` 123) is true for a tool that is missing: the shell exits
  with 127, and only a negative result counts.
- `rotate_cw` turns a mirrored photo to the left, under the comment "Standard EXIF
  orientation CW cycle" (`betterembeds.lua` 417).
- `json_get` does not undo the backslashes the plugin puts before quotes
  (`betterembeds.lua` 436).
- `split_sql` knows no comments: an apostrophe in one would swallow the statements after it.
- `folder_schema` is `VARCHAR(16)`; the relative folder of a nested legacy DNG may be longer.

## Proofs

`IngestProofs` proves, for every value of the constants that satisfies the three named
assumptions of `Ingest`:

- `TypeCorrect`: `Spec => []TypeOK`. `TypeOK` is not inductive: that a
  worker at `"convert"` has a number, at `"store"` a hash and at `"move"` a folder depends
  on the steps before; `TypeInv` adds which locals each label may rely on.
- `NumberCorrect`: `Spec => [](TypeInv /\ NumberInv)`. This is the heart: a number in the
  hands of a worker is below `nextSeq` and in nobody else's, `/output` has no file for it
  before its worker has converted, nothing is at or above `nextSeq`, the worker between
  conversion and insert has a finished DNG, and rows point to finished DNGs. Rows alone
  are not inductive: that no later conversion hits a recorded DNG needs the uniqueness of
  the numbers in flight, and that needs the fact about `nextSeq`. A crash keeps it because
  it clears every `job` and never lowers `nextSeq`.
- `ImportsHaveDngs` (`ImportHasDng`) and `DngsAreNeverOverwritten` (`NoDngOverwritten`)
  follow from that invariant, the second as an action property.
- `OneWorkerImportsOnce` (`OneImportPerPhoto`), assuming any two workers are equal and
  `"lookup"` is no fault: the invariant says that from the duplicate check to the insert the one worker
  holds a hash no row has. With more workers the property is false: two can ask before
  either has inserted.
- `RenameLosesNothing` (`NoOriginalLost`), assuming no cross-device moves and names dropped
  at most once (so that the user may remove files, not replace them): the invariant says
  that a name whose file has left `/watch` never gets another, so that no move has anything
  to overwrite.
- `IngestImplementsDispenser` (`NumberingSpec`): every step of `Ingest` is a step of
  `Dispenser` or leaves it alone. `NewSequence` hands out `nextSeq`, which no worker holds
  and no file has, by `NumberInv`; a failed allocation burns it; a crash empties the hands.

`IngestNamesProofs` proves what depends on a name standing for a photo. None of these
properties is inductive, because each compares what a worker remembers with what lies under
the name *now*. Faults and crashes are any. "Dropped at most once" (`MaxDrops <= 1`) leaves the
user the removal of files: a file that replaces another counts as a drop.

- `DeadLettersAreDeserved` (`DeadLetterDeserved`), for names dropped at most once. A name
  never dropped is nowhere, not even in `fail_counts` (`UnusedInv`), so the drop that resets
  `failures` finds no count left over from an earlier file; a count is never above the
  failures, and a worker heads for `failed` only with `MaxRetries` of them (`FailureInv`).
- `UniqueNamesAreRecorded` and `UniqueNamesSetDuplicatesAside` (`RecordMatchesConversion`,
  `DuplicateWasImported`), for names dropped at most once and any number of workers, with or
  without the fingerprint cache, whatever the user removes. `NameInv` says that some
  assignment of one content to each name explains all there is of it: the file in `/watch`, the
  copies under `/archive` (or a torn one), the cache entry, every hash and every open file in
  a worker's hands. Only `Drop` changes the assignment, and by `UnusedInv` there is nothing
  under the name then. `RecordInv` carries the hash from the conversion to the row, and from
  the duplicate check to `duplicates`. The hypothesis is needed: `IngestStale`, with the cache, and the
  list above, with a file that is replaced, show one worker break them.
- `OneWorkerLosesNothing` (`NoOriginalLost`), for one worker and names dropped at most once,
  with moves across devices: a target is truncated only while its source is there, and the
  source is removed only when what lies at the target is the same (`DeviceInv`). That the
  target held nothing else needs `UnusedInv`, and that the copy is of the right file, which
  the user may have removed meanwhile, needs `NameInv`.

`LibraryProofs`, under `LibraryAssumption`, and for all of it `"reserve" \notin Faults`:

- `CounterStaysAhead` proves the inductive invariant. Its core is how far the counter is:
  while main reserves, `nextId` exceeds the rounds it has made, and what the scan has met
  is at most `maxN`; when it is up, every number on disk is below `nextId`, and stays so
  until the process is down again, when the user may bring more. So a loop of `maxN`
  rounds always suffices, wherever AUTO_INCREMENT was. The other part is about the numbers
  in flight: two threads never have the same, one that may be converted to is committed,
  and `applied` or a label beyond the migration means all tables.
- `NeverCollide`, `EveryNumberHasRow`, `SchemaStaysComplete` and `LibraryTypes` follow from
  it, and `LibraryImplementsDispenser` step by step.

`ChildrenProofs`, under `ChildrenAssumption`, for any number of workers, files and faults:

- The invariant says what is in the pipes. Whenever nobody holds the mutex and exiftool is
  alive both pipes are empty; the thread that holds it has either its request in one, or
  the rest of the answer to it in the other, and what it has read is the answer's
  beginning (`OneAnswer`). That alone makes `OwnDate` inductive: an answer cut short can
  only lose the date. `Births` says that workers exist only when main has got the daemon
  up or given it up, `Idle`, `AtWork` and `Reaped` which children each label may have, and
  `Healthy` that without a fault the daemon is there and marked running.
- `DatesAreOwn`, `DaemonServes`, `ConversionsAreWhole`, `ChildrenAreReaped` and
  `ChildrenTypes` follow from it.

`SyncProofs`, under `SyncAssumption`, for any number of photos, requests and any grace:

- `SyncTypes` holds whatever fails. Its invariant has what each label knows of the request
  and the job in hand, and `Phases`: main dispatches only when the manager has exited, and
  the manager is told to stop only when the HTTP thread has.
- `SyncNothingLeftBehind`, if no statement fails: a lock belongs to a rotation in hand that
  is past `"acquire"`. (A failed release leaves the lock behind, and the next dispatch under
  the same name takes it over.)
- `SyncLastIntentWins`, `SyncOrientationAgreed` and `SyncWrittenInOrder`, if no statement
  and no exiftool fails and no photo is both rotated and embedded (`Reliable`). The
  invariant follows an intent on its way. `Coming`: the requests in the backlog and in hand
  are in the order they were sent, none older than what has been queued. `Underway`: what
  is pending is the last intent queued; what is dispatched is not older than the DNG, and
  is the last one unless a newer one is pending. `Written`: behind the write the DNG, and
  behind the update the row, has what the job says. By `Phases` only one of manager and
  main has a job, so no write falls between another's read and write. Without the last part
  of `Reliable` the embedder writes back the orientation it has read, and all three fail.
- `SyncHashIsCurrent`, if no statement, hash or callback fails (`Heard`), for photos that
  are not rotated: a DNG whose row has another hash is `Announced`, by the plugin or in the
  backlog, or in hand. The HTTP thread has one request at a time, so a DNG embedded
  again after `HashDng` is announced again before it is changed.

`SyncTrailProofs` adds what is about history:

- `SyncGraceKept` (`GraceKept`), whatever fails: for a pending intent, what is left of its
  deadline and the time since it was queued add up to the grace (`GraceInv`). The delicate part
  is the pass: an intent that arrives while the mutex is free takes its photo out of `due`.
- `SyncAuditChain` (`AuditChain`), if the server cuts the string that is too long and
  no statement fails, also not for sharing the connection (`Recorded`): the hash the handler
  has read stays the row's until the handler writes it, because nobody else writes it, and
  until its audit row is in, the row is one edit ahead of the trail (`TrailInv`).
- `SyncRowsCoalesce` (`RowsCoalesce`) and `SyncFilesCoalesce` (`FilesCoalesce`), whatever
  fails and with no other hypothesis: every step of `Sync` is a step of `Coalescer` or leaves
  it alone (`StepKinds`, then `QueuePuts`, `DispatchTakes`, `RotationHolds`, `OthersKeep`,
  each for any set of photos and any labels a hand may have; `RowStep` and `FileStep` fill
  in what shows). The invariant is `CoalesceInv`: the intents on their way come in order
  (`Coming`), so that `Put` is given a newer one, and none has number 0, which stands for an
  empty place. That there is one hand although two threads dispatch is `Phases` again.
- `SyncOnlyForward` and `SyncNothingForgotten` carry the theorems of `CoalescerProofs` over
  to the rows and the DNGs. The first holds whichever calls fail: a rotation is never undone
  by an earlier one. The second, if no statement and no exiftool fails, says of every row
  what `SyncLastIntentWins` and `SyncOrientationAgreed` need `Reliable` for, so also of
  photos that are rotated and embedded: with them only the DNG is at stake.

`CoalescerProofs`, for any images and intents that are numbers other than 0, needs one
invariant: the last intent queued waits, or is in hand, or shows, and what shows is not newer
than what is in hand, which is not newer than the last (`InOrder`). `OnlyForward` and
`NothingForgotten` follow; the second needs that no job is given up.

`AlgorithmsProofs` is about single functions. The library's induction theorems have an
operator for a parameter and cannot be used here, so every induction is the absence of a least
counterexample, from the well-foundedness of `<` on the naturals; and that a recursive
function, the folds of the community modules among them, has the value its definition gives
it is shown first, by the existence of a solution.

- `ThumbnailSearch` and `ThumbnailsAreLargest` (`ThumbnailIsLargest`), for every sequence of
  bytes and any least size, the 64 of the code among them. The search resumes behind the end
  of each segment it finds, so it never looks at those that start inside: such a one ends
  at the same marker and is shorter, or is the two bytes of the marker itself and starts
  none. The induction is from the end of the file.
- `HistogramCounts` and `BucketsAlwaysCount` (`BucketsCount`), for every sequence of whole
  seconds: one more duration adds one to exactly the rendered lines whose label it does not
  pass, because the edges grow.
- `SplitCuts` and `MigrationsAreCut` (`SplitBetweenStatements`), for any number of statements
  that begin and end with something and close their quotes (`Whole`). A scan of joined texts
  is the scans of both, one after the other (`RunsConcat`), so it is enough to follow one
  statement: a string that closes its quotes brings the scanner back to where it was
  (`Leads`), and the semicolon behind it moves what was kept to the output, trimmed of what
  is left of the line before. The strings of the model, with a semicolon, with another
  quote, with a quote escaped or doubled, are such; so is whatever is joined from them.
- `FieldsReadBack` and `BodiesAreRead` (`FieldsAreRead`), for up to three fields, numbers or
  strings of any length over any characters but the quote. `LaidOut` gives each field its
  place in the body; `OwnField` says that a name with its quotes and its colon stands only
  where its own field starts, although a string may spell one of the names, a comma or a
  brace: inside a string there is no quote, and the quote that closes it has a comma or a
  brace behind it. So `json_get` finds the right place, and `CutAt` says it stops in time.
  A quote in a string would end it early, which is why the plugin escapes it; the code does
  not undo that (above).

Only model-checked:

- the liveness properties `PhotoGetsImported`, `FileLeaves` and those of `Library`,
  `Children` and `Sync`: the prover has neither fairness rules nor `ENABLED`;
- whatever the theorems' hypotheses leave open, for instance names that come back with two
  workers, where the table above says what is false.

## Not modelled

- `AcquireLock` and `ReleaseLock` with several holders: "rotation-mgr" is the only name
  that takes locks, and its two users never run at once.
- `ReconvertDrain` and the rows of `reconversions`: nobody queues a job.
- `Worker::Stop` together with the queue and the condition variable of `Ingest`: the poller
  and the workers wait with timeouts and test `stop_` on waking; `Children` has the join.
- The refusal of a path with a line break (`exiftool_daemon.cpp` 157-165), which gets the
  date of its mtime: paths are names without characters here.
- The folder schema, the `.env` loader, token generators, HTTP routing and all formatting.
- Configuration (its settings are the modules' constants), packaging and scripts, the
  vendored option parser, and the preview embedder tool, which rewrites one file and keeps
  no state of its own.
