# dovi-manager in TLA+

dovi-manager keeps a library of MKV files free of Dolby Vision Profile 7: it
scans media roots with `dovi_convert`, offers what it finds as candidates,
converts them on approval or automatically, keeps full originals (`.bak.dovi_convert`)
or compact archives (`.dovi`), and recovers or deletes those.  It is one Python
process (FastAPI on one asyncio event loop), one SQLite database in WAL mode, and
one background worker.  The hard part is that everything it decides is decided
from a snapshot: of a file, of a row, of the settings, of the other backup, that
may be stale when it is used, on disks that Radarr, Sonarr and people write too,
in a process that may die at any instant.

The modules are translated from the source under `src/app`; `PROJECT.json`
gives the lines of every definition under "map", and the hazards this list of
properties was written for.

## 1. Inventory of the system

### Concurrency

* Handlers (`routes/*`), `AutomationCoordinator._run_loop` and
  `JobWorker._run_loop` are coroutines of one event loop: code between two
  `await`s is not interleaved with another coroutine.
* Every repository call is a transaction of its own, so a crash can fall between
  two calls of one such stretch although no handler can.
* The worker awaits in `dovi_convert` runs, stability waits and threads
  (`inventory_media`, `parse_scan_results`, `discover_backup_sets`,
  `shutil.copy2`). Handlers and the rest of the world act there.
* Files belong to everyone: other programs act at every instant, event loop or not.

### Components

| Component (source) | State | Operations | Hard behaviours | What makes it correct |
|---|---|---|---|---|
| job table (`repository.py`, `models.py`) | `jobs` rows | `create_job`, `claim_next_job`, `finish_job`, `cancel_queued_job`, `recover_running_jobs` | creation from three coroutines, rows of a dead process | no duplicate active job, one running job, in order, terminal states are final |
| background worker (`worker.py`, `worker_support.py`) | its task, `current_job_id`, the stop event, locals of the running job | `run_once`, six `_run_*` bodies, `start`, `stop` | error while an error is recorded, grace period, follow-ups created before or after the job ends | every job settles; files are touched as approved |
| scan requests and coordinator (`automation.py`, `repository.py`) | `scan_requests` rows | enqueue with deduplication, claim, complete, recover | a report while its request is waiting, claimed or being scanned | no report is lost |
| scan reconciliation (`scanner.py`, `worker._scan_root`, `reconcile_scan`) | `media_inventory`, `candidates` | walk, compare, batches, parse, reconcile | files change between any two of these | tables say what is on disk |
| follow-up automation (`worker.py` tails, `runtime_settings.py`) | `jobs`, automation settings | automatic inspection, automatic or gated conversion | settings and files that change while jobs wait, originals that come back | inspected once, no automatic retry, the gate holds |
| approval service (`services.py`, `routes/candidates.py`, `routes/jobs.py`) | payload snapshots | queue a conversion, inspection, archive, recovery, deletion | snapshot used later | as for the jobs |
| backups and recovery (`backups.py`, `routes/backups.py`, `worker.py`) | files beside the movie | discover, approve and run recoveries and deletions | a decision on what a thread saw before; several renames, crash between two; last recovery source | nothing is lost unasked |
| schedule (`automation.py`) | derived from `jobs` | `next_schedule_at`, request | a time that is recomputed at every poll | a scan every interval, aligned |
| webhooks (`webhooks.py`, `routes/webhooks.py`) | mappings, token | event to requests | several paths in one event, overlapping prefixes, letter case | every path an event is accepted for becomes a request that covers the file |
| runtime settings (`runtime_settings.py`, `repository_settings.py`, `routes/settings.py`) | `editable_settings`, `webhook_path_mappings` | load, save, migrate the old prefix | limits written down twice, defaults, legacy keys, a save in two steps | what is saved is what is read |
| path and storage safety (`safety.py`) | none | containment, fingerprints, free space | rounding, shared file systems | nothing outside a root, no full disk |
| database and migrations (`db.py`) | schema version | six migrations | one fails half way | data survives |
| application lifetime (`main.py`) | the two tasks | lifespan | kill, orderly stop | recovery before the first claim |
| `dovi_convert` commands (`dovi.py`) | the subprocess, `active_process` | build, run, stop | output limit inside a chunk, a tool that ignores signals, an error between output and end | one tool at a time, none survives a shutdown, the log is whole or says so |
| configuration, security, readiness, pages, file browser | none of their own | read-only or per request | - | - |

### Interaction

A handler or the coordinator validates, writes a `jobs` row through
`JobService`, and wakes the worker. The worker claims the lowest queued id,
re-validates the payload against the disk, runs the tool, writes tables and
files, ends the row and wakes the coordinator (which may queue a scan only when
none is active). A scan's tail reads the settings once and creates inspections
and conversions; an inspection's tail creates a gated conversion.

## 2. Modules

| Module | Models | Lines it stands for |
|---|---|---|
| `JobQueue` | job table, worker loop, start, stop, crash, follow-ups as jobs | `repository.py` create/claim/finish/cancel/recover, `worker.run_once`, `_run_loop`, `start`, `stop`, `main.lifespan` |
| `SerialQueue` | abstract: numbered jobs are submitted, withdrawn, begun in order one at a time and settled | what the job table promises |
| `JobQueueProofs` | theorems about `JobQueue` | - |
| `MovieFiles` | one movie, its backups and temporary names, approvals, conversion, archive, recovery and deletion jobs, Radarr, `dovi_convert`, crash | `_run_convert`, `_run_recovery_backup`, `_run_recovery_restore`, `_run_backup_delete`, `routes/backups.py`, `backups.py` |
| `Discovery` | files, webhooks, scan requests, coordinator, scan job (full, smart, custom), inventory, candidates | `automation.run_once`, `_run_scan`, `_scan_root`, `scanner.py`, `reconcile_scan`, scan requests |
| `MediaIndex` | abstract: the two tables are written a root at a time, by a scan that runs, and truthfully where nobody touched the files | what the scans promise to the readers of `media_inventory` and `candidates` |
| `AutoQueue` | one file, its full backup, its candidate, the settings and all jobs about it | scan and inspection tails, `*_for_fingerprint`, `create_job` |
| `Schedule` | the clock, the last scheduled scan, the request, the active scan | `next_schedule_at`, `run_once`, `last_scan_for_trigger` |
| `ScanScope` | pure: the walk of a scan below its target and depth, and the test of a path alone | `inventory_media`, `path_in_scan_scope` |
| `DiscoveryProofs` | theorems about `Discovery`, and `ScanScope` | - |
| `WebhookMapping` | pure: the translation of the path of an event | `map_external_path` |
| `ToolRunner` | a run of `dovi_convert`, its log and its capture, the slot of the active process, the shutdown | `SubprocessRunner.run`, `stop`, `_run_command`, `JobWorker.stop`, `append_job_log` |
| `Configuration` | the settings form with its mappings, its validation, what is stored and what is read of it, the migration at a start | `update_settings`, `RuntimeSettings.load`, `migrate_legacy_radarr_mapping` |
| `Retention` | extends `Configuration`: clock, movie, backups with ages, approval and job of a deletion | `backups.py`, `routes/backups.py`, `_run_backup_delete` |
| `RetentionProofs` | theorems about both | - |
| `MovieFilesProofs`, `AutoQueueProofs`, `ToolRunnerProofs`, `ScheduleProofs` | theorems about the module of that name | - |
| `Storage`, `StorageProofs` | pure: the free space a job asks for; theorems about it | `safety.py` |
| `MC*` | model values, symmetry, hazard and policy sets for TLC | - |

The modules are views of one program joined by what the others prove or check:
`MovieFiles` takes jobs from a FIFO and runs one at a time, `Discovery` keeps one
scan variable, and `AutoQueue` keeps one running job, because `JobQueue`
implements `SerialQueue` and satisfies `UniqueActive`. `Retention` starts no
second job within a deletion for the same reason. `Discovery` extends
`WebhookMapping`, which extends `ScanScope`, and implements `MediaIndex`
(`IndexSpec`), which is all that pages, approvals and automation see of a scan.

### How state and actions correspond to the code

**JobQueue.** A row's id is its index in `jobs` (AUTOINCREMENT, no row is
deleted). `phase` is where the worker task is; `"epilogue"` is the synchronous
tail of a scan or an inspection, in which no handler acts and a crash may.
`Submit` is every `JobService.queue_*` with its `create_job`; `Claim` and `Poll`
are the two outcomes of `claim_next_job`; `SucceedJob`, `FailJob`,
`FinishScanCommand`, `FinishInspectCommand`, `CreateFollowUp`, `EndEpilogue` are
the ways a `_run_*` body ends. A scan ends its row *after* its follow-ups, an
inspection *before*. `RequestStop`, `ExitLoop`, `GraceExpired` are `stop`;
`FaultHandled` is a database error inside a job; `FaultKillsWorker` is one in the
claim, or while the first is being recorded, which leaves `run_once` and ends the
task.

**MovieFiles.** A content is release number and form (`original`, `converted`,
...), which stands for the bytes and for the fingerprint. Every rename, unlink
and copy is an action; the external `dovi_convert` is an action for each file it
writes, and it may fail before any of them. `pc` walks through a job body from
one await or file operation to the next. `seen` is what was last read, so a
check and a use of it are separate when the code separates them. The handlers
that recover and delete backups await a thread that walks the library first
(`LookForFull`, `LookForArchive`, kept in `views` per request) and decide
(`ApproveRestore`, `ApproveDelete`, `EndLook` for a page or a refusal) on what
it found, whatever the worker has done since. An archive may be applied to a
movie it was not made from, as in the code, which asks only for a valid archive
and an MKV; what comes of it is `"mixed"`. Hazards of the environment are
switched on by name (`Hazards`), to say which are behind a violation; the
passing run and the theorems have all of them.

**Discovery.** `coordinator` is where `run_once` is between claim and
completion, because a crash can fall there. A scan goes root by root: `ListRoot`
(thread), `CompareSmart` or `CompareNothing`, `ToolReads` per file, `ParseBatch`
(thread, takes the fingerprints), and `Reconcile`, a transaction per root after
all roots were scanned. `touched`, `misjudged` and `reported` are
ghosts for the properties. A file has a path below its root (`PartsOf`) and one
in the container of Radarr (`ExternalOf`); a webhook call names one or several
of those, drops a path that leads to no file if another one leads to one
(`Webhook`), and writes its requests one transaction at a time (`WriteRequest`),
and asks for a smart scan of everything only if no path leads to a file.
`ParseBatch` takes a row of the output for the one file whose name fits it
(`ReadsAs`, long names are shortened); a row that fits none or several is
skipped, or fails the scan if it is a candidate's. A custom scan reads what `Walked` visits and
removes what `PathInScanScope` admits.

**ToolRunner.** `worker` and `stop` are the places of two coroutines, `tools` the
processes that exist; a process prints, closes its output and ends on its own.
`Launch` and `HandOver` are the two ends of the await in
`create_subprocess_exec`: a shutdown in between finds the slot empty.
`LogWriteFails` is a database error in a log write, which leaves `run` through its
`finally`, so that the slot is free and the process is not ended; it ends up in
the ghost `left`, together with what is handed over after the shutdown looked.

**Configuration and Retention.** The store is a function from the keys that were
ever written; `Load` has the limits and defaults of `RuntimeSettings.load`,
`StoredRetention` is the bare read of the deletion job. A form has every field a
browser sends; a form that omits the depth or the interval is not modelled.
`BeginApproval` is the handler up to its await and `Approve`/`Refuse` the rest;
`BeginDeletion`, `LookAtDisk`, `FinishDeletion` are the job up to its thread, the
thread, and the unlinks, which are one step because nothing awaits between them;
an unlink of a file that is gone ends the job. The mappings of the form are a
value: a list of rows, none at all (`"absent"`, then the prefix of an older
version counts), rows that are all blank (`"none"`, which clears the table), or
rows that are refused after the settings were saved.
`Restart` migrates that prefix, as every start does.

**AutoQueue.** One path, one candidate, all of its jobs and the scans. The tail
of a scan is the stages `inspect`, `convert`, `finish`; that of an inspection is
`follow_up`; only a crash can fall between them. `Recover` is the job that copies
a full original back with its time stamps (`copy2`), and with them its
fingerprint; a recovery from an archive makes a file with a new one, an `Import`.

**Schedule.** A clock that ticks, and polls at least every `PollPeriod` ticks.
The tick is finer than the poll, as microseconds are finer than the coordinator's
second.

## 3. Runs

| Run | Properties | Bounds (distinct states) |
|---|---|---|
| `JobQueue` | `TypeOK`, `UniqueActive`, `RunningIsCurrent`, `NeverOvertaken`, `Lifecycle`, `SerialSpec` (refinement), `EveryJobSettles` | 2 candidates, 3 jobs, 1 restart, 1 fault (490 k) |
| `MovieFiles` | `TypeOK`, `NoSilentLoss`, `AcknowledgementProtects`, `ConvertsApprovedContent`, `BackupNeverOverwritten`, `InstallsApprovedSource` | 2 releases, 1 request at its look, 2 queued jobs, 3 approvals, 1 crash, every hazard (294 k) |
| `Discovery` | `CandidateMatchesRow`, `ScanTellsTruth`, `OutOfScopeKept` | 2 files of one folder under 1 root with names that are shortened alike, custom scans of the folder and of depth 1, 3 imports, full and smart scans by the buttons, files that change while a scan reads them (186 k) |
| `Discovery_roots` | `TypeOK`, `ReportedCovered`, `IndexSpec` (refinement), `ReportsAreServed` | 2 roots with a file each, calls that name one or both, three overlapping mappings, 1 import, new calls while no request waits, 1 crash, recoveries (245 k) |
| `AutoQueue` | `TypeOK`, `InspectedOnce`, `NoAutomaticRetry`, `GateHonoured`, `SmartScanAsksOnce` | 4 policies, 2 imports, 3 jobs and what automation adds, recoveries, 1 crash (2.0 M) |
| `Schedule` | `TypeOK`, `IntervalRespected`, `StartsAligned`, `ScheduleKeepsPace` | a day of 6 ticks, an interval of 2 and an aligned one of 4, 2 other scans, after which the last scheduled one is forgotten, 1 crash (64 k) |
| `ToolRunner` | `TypeOK`, `OneTool`, `ShutdownClears`, `LogComplete`, `TrustsWholeOutput`, `StopReturns` | 2 jobs of up to 2 commands that print up to 3 bytes in chunks of 1 or 2, a capture of 2 bytes, a log of 3, 1 database error, a shutdown anywhere (272 k) |
| `Retention` | `TypeOK`, `NoFallback`, `KeptUntilDue` | 8 forms (3 refused), 2 old stores, days of 2 instants, 4 instants, the clock set back once, 2 backup files, 1 deletion (552 k) |
| four `violation` runs | one documented promise each, see section 6 | the smallest that shows it |

What the passing runs show, beyond the wording of each property:

* `JobQueue`: no interleaving of handlers, follow-ups, a kill or an orderly stop
  and one database error makes two jobs of a kind active for a candidate, runs
  two jobs, lets a job overtake an older one or revives one that is over. Every
  accepted job is settled, unless a database error killed the worker task
  and no restart followed.
* `MovieFiles`: whatever fails, and wherever the process dies, the release that
  was in the library is on the disk under some name, unless a newer import, a
  confirmed recovery or an approved deletion gave it up. The one exception is
  what the last rename of a recovery replaces unseen (`overwritten`): a release
  that arrives after the last check, or after an approval that found no MKV.
  `AcknowledgementProtects` is the sharper claim about deletions, with its
  exceptions named in the ghost `misled`: a deletion approved while another
  waits, a movie or a backup that went or changed between the look and the
  approval, the full original that a running conversion is about to remove, an
  archive that is not valid or of another release, an archive hidden by a crash
  or a failed undo. The code counts all of these as remaining sources.
  `InstallsApprovedSource` is about recoveries that go back to the movie the
  archive was made from, as the README of the program asks.
* `Discovery`: a report that was accepted is never lost between its request, the
  claim, the scan and a crash, and a scan that succeeds leaves the tables as the
  disk is. Its exceptions are the ghosts `touched` (written while the scan ran) and
  `misjudged`: a file replaced between verdict and fingerprint (section 6), a row
  taken for another file, and a recovered original, whose fingerprint the
  inventory still holds (`worker.py:609`), so that smart scans pass it over until
  a full scan. A file that is not MEL and whose printed name fits another file
  (`Unclear`) may be skipped; a MEL file may not.
  `OutOfScopeKept` is about custom scans: rows outside the target, and below
  its depth, survive, although the removal is computed from paths alone.
  `IndexSpec` says the same of every root as it is written, of scans that fail
  later or are cut off included: no root is half written, none that is not due.
* `ToolRunner`: jobs never run two tools that the code still knows of, a
  shutdown clears what it found within two grace periods however a tool
  behaves, a job goes on only with complete output, and its log ends with the
  newest bytes or is marked truncated. The processes in `left` are the exception
  the code makes (known divergences, below).
* `Retention`: a backup goes only if the look of its job has seen the file that
  the handler of the approval had found, beside its movie, and old enough by the clock and the retention of the job itself, or
  approved as a young one while the override was on. No saved setting is
  replaced by a default when it is read.
* `AutoQueue`: automation inspects a file at most once, never converts after a
  failure, opens the gate only behind a successful inspection of the same file.
  `SmartScanAsksOnce` is about smart scans only: a full or file scan does queue
  an unchanged candidate again, one whose conversion was cancelled included
  (`worker.py:305`). A recovered original is news to a smart scan, so that the
  conversion just undone is asked for again, once for each recovery. A gated conversion is created even when automation was
  switched off meanwhile (`worker.py:856`).
* `Schedule`: until `Window` scans of other triggers have come after the last
  scheduled one, no meeting of requests and clock makes a scheduled scan early,
  and a finished one is followed by another while the schedule is enabled. After
  that many, 200 in the code, it is forgotten (`repository.py:250`) and the
  schedule is in the state that `Schedule_first` is about. A crash between the creation
  of the scan and the completion of its request (`automation.py:159`) is the
  exception for interval and start time: the scan then runs twice. The schedule settings
  are chosen once per behaviour; `enabled` changes at any time.

Why the bounds are enough. Jobs interact in pairs: a duplicate needs two, an
overtaking two and a running third, so three jobs with every kind available
show every interaction the guards can tell apart; the proofs remove this bound.
A conversion and what is then done with its result fit in three approvals (a
recovery and a deletion, or a deletion of each kind), and a second release
replaces the first at any point of them. Three imports give a file that is
replaced, or put back in place after a removal, beside a second file. A smart batch of one file (`BatchSize = 1`, the code
has 50) makes two batches out of two files. A folder is one level deep: the
two definitions of a custom scan's scope are proved equal for every path and depth.
`Discovery` is checked up to exchanging its two files (`Swap`): they lie in one
folder, are mapped and shortened alike, and no guard tells them apart. Its
crashes, requests and file scans are those of `Discovery_roots`, which has no
names that are taken for one another; the proofs have all of it in one system.
A chunk of 2 bytes straddles a capture limit of 2 after a chunk of 1, and a log of
3 overflows with the second command. Four instants and days of two give ages of
zero and one day and files of the future; the proof removes all of these
bounds. `Window` stands for `LIMIT 200`; it is 2 in the `Schedule` run, which
reaches it with two scans of other triggers.

`CHECK_DEADLOCK FALSE` appears for `JobQueue` (a worker killed by a database
error after the last restart stays dead) and `AutoQueue` (all bounded jobs are
used up), and for `ToolRunner` (nothing moves after a shutdown). The
other systems never stop.

### Fairness

* `JobQueue`: weak fairness of the worker's steps and of start and stop; the
  event loop runs every ready task and `dovi_convert` is assumed to end. A handler,
  a fault and a crash are never forced.
* `Discovery`: weak fairness of what a handler or the coordinator has begun, which
  has no await; strong fairness of the worker, which the event loop resumes in
  turn with the webhook calls that interrupt it, and of
  `ClaimRequest`, since the coordinator polls each second and is notified, so
  that a user would have to start a new scan within that second every time.
* `ToolRunner`: the timeouts of `stop` elapse (weak fairness of its steps), and a
  process that was sent SIGKILL ends. A tool is not assumed to end otherwise,
  nor the worker's task to move.
* `Schedule`: time passes, the coordinator polls, scans end.

## 4. Proofs

Every theorem is about `Spec`, without fairness, for every value of the
constants the named assumptions of the module admit. The bounds (`MaxJobs`,
`MaxCrashes`, ...) are only known to be natural numbers.

| Module | Theorem | Property |
|---|---|---|
| `JobQueueProofs` | `TypeCorrect`, `UniqueActiveHolds`, `RunningIsCurrentHolds`, `NeverOvertakenHolds` | the invariants `TypeOK`, `UniqueActive`, `RunningIsCurrent`, `NeverOvertaken` |
| | `LifecycleHolds`, `ImplementsSerialQueue` | the action property `Lifecycle`, the refinement `SerialSpec` |
| `MovieFilesProofs` | `MovieTypes` | the invariant `TypeOK` |
| | `NothingIsLost`, `LastSourceIsProtected` | the invariants `NoSilentLoss`, `AcknowledgementProtects` |
| | `ApprovedIsConverted`, `BackupIsKept`, `ApprovedIsInstalled` | the action properties `ConvertsApprovedContent`, `BackupNeverOverwritten`, `InstallsApprovedSource` |
| `AutoQueueProofs` | `AutoQueueTypes`, `InspectedOnceHolds`, `NoAutomaticRetryHolds` | the invariants `TypeOK`, `InspectedOnce`, `NoAutomaticRetry` |
| | `GateHolds`, `SmartScanAsksOnceHolds` | the action properties `GateHonoured`, `SmartScanAsksOnce` |
| `ToolRunnerProofs` | `ToolTypes`, `OneToolHolds`, `ShutdownHolds`, `LogHolds` | the invariants `TypeOK`, `OneTool`, `ShutdownClears`, `LogComplete` |
| | `TrustHolds` | the action property `TrustsWholeOutput` |
| `ScheduleProofs` | `ScheduleTypes` | the invariant `TypeOK` |
| | `IntervalHolds`, `AlignmentHolds` | the action properties `IntervalRespected`, `StartsAligned` |
| `RetentionProofs` | `RetentionTypes`, `SavedValuesAreRead`, `RetentionHolds` | the invariants `TypeOK`, `NoFallback`, the action property `KeptUntilDue` |
| `DiscoveryProofs` | `WalkMatchesScope` | `Walked` and `PathInScanScope` agree on every path, target and depth |
| | `DiscoveryTypes`, `CandidateMatchesHolds` | the invariants `TypeOK`, `CandidateMatchesRow` |
| | `OutOfScopeHolds`, `ScanTellsHolds` | the action properties `OutOfScopeKept`, `ScanTellsTruth` |
| | `ImplementsMediaIndex` | the refinement `IndexSpec` |
| | `SmartScanDiscoversHolds` | the action property `SmartScanDiscovers`, if `Quiet` |
| | `ReportedHolds` | the invariant `ReportedCovered`, if `MappingsRight` and `DepthRight` |
| | `OneMappingDecides`, `WellMappedIsRight` | exactly one mapping decides where a matched path leads; `WellMapped` implies `MappingsRight` |
| `StorageProofs` | `RoundsUp`, `ReserveProtected`, `ArchiveNeedsNoLess` | the free-space arithmetic, for every size |

The invariants behind them, and why they are needed:

* **`JobQueue`.** `HeldRow` is the strengthening: in the epilogue the
  row the worker holds is a scan that still runs, or an inspection already
  recorded as succeeded. Without it the tail that ends a scan could write a row
  in any state. What an action does to the *table* is one of a few `TableStep`s;
  `NextIsTableStep` classifies the actions once, `StepKeepsTable` and
  `StepRefinesSerial` treat the kinds, and `WorkerStep` the worker's own
  variables. Assumption: `NoCandidate` is not a candidate.
* **`MovieFiles`.** `NoSilentLoss` depends on what a job may still find when it
  runs. `JobsOK` says that every queued or running job is about what its approval
  saw, and what an approval gives up; `ConvertOK`, `RestoreOK` and `DeleteOK` say,
  per place in a job body, which files are still as its last check left them, and
  for a recovery that the MKV is either that of its approval or was written by
  Radarr since (`Displaced`); `FilesOK` bounds the releases and keeps a full backup
  a Profile 7 file. All of this is inductive for every set of hazards, imports
  within a recovery included, so the theorems have no hypothesis about the
  environment. `AcknowledgementProtects` needs a second invariant on
  top, `Ack`: of the newest release, if neither it nor the count was given up
  (`Counted`), it says where its sources are (`AckKept`, also in the instants
  when an archive is hidden or the MKV is moved away), that a waiting or running
  deletion takes one of two, and no conversion under way takes the other
  (`AckDeletion`), what the worker may still do to either (`AckJob`), and that
  only one deletion is under way (`AckOne`).
* **`Discovery`.** A step is one of nine kinds as far as the scan is concerned
  (`ScanStep`). `ScanOK` follows a path through them: it is listed in the turn of
  its root, handed over, judged and found once, so `reconcile_scan` writes one
  result per path, and row and candidate together. For custom scans it adds that
  what a walk would meet is in the scope, which with `WalkMatchesScope` keeps
  the removals inside. `RequestsOK` says who holds a claimed request, `EventOK` that the
  coordinator waits while a call writes its requests.
  `ReportedCovered` is not inductive: a request may go as soon as *its* scan
  holds the path, so `ReportsOK` says per stage where that is (`Look`) and that
  before this a waiting or claimed request covers it (`Held`); within a webhook
  call, `CallOK` says that the requests it has still to write cover what those it
  has written do not. Assumptions:
  `PathsAssumption`, and for the reports two about the settings:
  `MappingsRight` (the path of an event leads to no file but its own) and
  `DepthRight` (full walks meet every file). Without them the code does look
  elsewhere; both instances satisfy them. `WellMapped` says what mappings give
  `MappingsRight`: the one that decides a file's path gives its root and its
  own parts back. That there is exactly one is `OneMappingDecides`, which
  picks the longest prefix by the well-foundedness of the natural numbers.
  `ScanTellsTruth` is not inductive either. `TruthOK` says per stage what the
  worker has seen of a path (in the comparison, from the tool, in a parsed
  result), that this is still so unless the path was touched (`SeenOK`), and
  that every path of a root whose turn is over is accounted for: unchanged
  since its row, judged, or among the missing (`Accounted`). A row, in turn, is
  right about the file it names unless it is among `misjudged` (`RowRight`), and
  a file that was skipped is not MEL and its name unclear (`Spared`).
  The refinement rests on the same invariant: a `Reconcile` is a `WriteRoot`,
  everything between two of them is a stutter. `Quiet` is `Hazards = {}` and
  `Unclear = {}`: no file is replaced behind its verdict, none is recovered, and
  every name that is printed fits one file. Then every new file
  has a fingerprint no row knows (`Fresh`), nothing is misjudged, and the
  promise that `Discovery_verdict_race` refutes holds.
* **`AutoQueue`.** `OldAreOver` (only the newest job of a kind can be active) makes the
  deduplication exact; `RowsOK` and `CandidateOK` carry that a fingerprint once
  left behind comes back by a recovery only (`Past`, with the ghost `returned`),
  which is what lets a smart scan tell news by comparison with the inventory alone; `TailOK` says what a stage of a
  tail knows of the row it holds. Assumptions: `PoliciesAssumption`,
  `BoundsAssumption`.
* **`ToolRunner`.** `LogOK` (the log holds the newest of what was received less
  what is pending), `BudgetOK` (what one command can print bounds what was
  received), `CaptureOK`, and `SlotOK`: a live tool that is not left behind is
  the newest, it lives only while a command runs, and a shutdown in progress aims
  at it. Assumption: `ToolAssumption`.
* **`Schedule`.** A request of the schedule may wait while another scan runs.
  `RequestDue` says that it was due when it was made and still is: the scan it
  counts from does not change before its own begins. It and both properties speak
  of the time while this scan is among those `last_scan_for_trigger` looks
  through (`newer < Window`); beyond it the code does start a scan early. `CountOK` counts the scans
  of others, of which a crash can run one twice.
* **`Retention`.** `NoFallback` is shown for each form that `Accepts`, from the
  limits on both sides; `KeptUntilDue` needs `LimitsRead` and `JobReadsLimits`
  (the retention an approval or a job holds is one that was accepted, never the
  zero of a missing key), which follow from it. Assumptions:
  `DefaultsAssumption`, `FormsAssumption` (parsed fields), `OldStoresAssumption`
  (an older version stored legal values), `DayLengthAssumption`, `RetentionBounds`.

Model-checked only: the liveness properties (`EveryJobSettles`,
`ReportsAreServed`, `ScheduleKeepsPace`, `StopReturns`), because proofs of liveness
under fairness and of `ENABLED` are beyond the prover, and the four properties
of section 6 that the code violates. No module declares a `RECURSIVE` operator.

## 5. What the model abstracts

* Contents and fingerprints coincide, except that a copy and a recovery bring an
  old fingerprint back, as `shutil.copy2` does. Different releases differ in size.
* The text of the scan output: a row per file that was there when the tool came
  to it, with the files its printed name fits; a failed parse is a failed scan.
* An archive applied to a movie of another release or of no conversion makes a
  movie that no scan takes for Profile 7 (`"mixed"`): the tool's own outcome for
  such a request is not documented.
* Retention is a choice in `MovieFiles` (an artifact is always selectable, which
  allows the most deletions) and modelled with its clock in `Retention`.
* Free space and directory permissions fail a job at its checks: `JobFails` may
  always be taken there. The arithmetic is in `Storage`.
* `dovi_convert` is external. It is modelled by what the code checks after it
  and by what its documentation in the repository says it leaves on disk.
* Bulk approval is a loop of single approvals.
* A settings form carries every field a browser sends. A form without the scan
  depth or the interval, for which the handler takes the current value, is left out.
* The schedule settings other than `enabled` do not change within a behaviour.

Not modelled, with the reason:

* Migrations (`db.py`): a fixed list of SQL statements, one transaction each. What
  can be wrong is in the statements, not in an order a model could vary.
* Path containment (`safety.py`): it rests on `Path.resolve` and the links of a
  real file system; a model of those would be checked against itself.
* Configuration, authentication, readiness, pages, scripts and the file browser
  keep no state that the modelled parts share.
* The notes a job writes into its log and the cleanup of old temporary directories.

## 6. Findings and known divergences

Each finding is a run that TLC must find violated; the property quotes the
sentence it comes from.

| Run | What happens |
|---|---|
| `MovieFiles_ack_two_deletions` | Two deletions, one per kind, each approved while the other source is still there, remove the last recovery source without the acknowledgement (`routes/backups.py:285`). |
| `Discovery_verdict_race` | The verdict is of the old file, the fingerprint of the new one (`scanner.py:180`): smart scans skip it from then on. `SmartScanDiscoversHolds` shows that, besides recoveries and shortened names that fit another file, this is the only way. |
| `AutoQueue_replaced` | The conversion of a replaced file is dropped as a duplicate of the waiting one about its predecessor, which then fails (`repository.py:525`). |
| `Schedule_first` | Without an earlier scheduled scan the time is recomputed by each poll and passes between two of them (`automation.py:107`). |

Known divergences are what the models show or leave room for, without a run of
their own:

* A file imported between the last check of a recovery and its rename is
  replaced and lost (`worker.py:817`), and so is one that appeared after the
  approval of a recovery that had found no MKV: it is not compared again
  (`worker.py:736`). `overwritten` in `MovieFiles` collects them.
* The recovery sources are counted by a thread of the handler, and the answer is
  used after its await (`routes/backups.py:266-289`): a source that a job or a
  person removes meanwhile still counts, and so does the full original of a
  compact-only conversion that is about to unlink it.
* A recovery from an archive asks for a valid archive and an MKV beside it
  (`routes/backups.py:152`), not for the movie the archive was made from.
* A crash, or a failed undo, leaves an archive under its `.pending-delete` name
  (`worker.py:816`), which nothing looks at again.
* A file put in the place of a backup between the look of a deletion and its
  unlink is unlinked by its name (`worker.py:965`).
* A webhook call with several paths drops those that lead to no file if another
  one does (`routes/webhooks.py:81`, `146`): the fallback is the event's.
* A row of the scan output whose shortened name fits several files is skipped if
  it is no candidate (`scanner.py:166`), and the scan succeeds.
* After a full recovery a smart scan asks for the conversion again if automation
  is on (`worker.py:305`): it fails while the full original is still there
  (`worker.py:507`), and undoes the recovery once that is deleted.
* The age of a full backup is the modification time of a renamed original
  (`backups.py:45`), so a backup of an old movie is due at once, although the
  settings page speaks of "this age" of the backup type (`settings.html:198`).
* A bulk approval converts the candidates that are active when it is posted, and an
  error of the file system ends it after part of it was queued (`services.py:163`).
* The settings are saved, and webhooks enabled without a token, before
  the submitted mappings are rejected (`routes/settings.py:199`).
* A database error in a log write leaves the tool running with its slot free
  (`dovi.py:155`), so the next job starts a second one in spite of the check at
  `dovi.py:108`. `ToolRunner` keeps such processes in `left`.
* The coordinator's clock is UTC (`automation.py:71`), whatever the time zone of the
  server that the settings page speaks of.
* An exception in `run_once` that it does not catch ends the coordinator's task
  for good (`automation.py:163`); nothing restarts it before the process does.
* A gated conversion is created from what the inspection was told when it was
  queued (`worker.py:856`), and a scan that fails after its reconciliation
  queues no follow-ups for what the next smart scan no longer sees as new.

## 7. Plan

Done: the job table with its abstract specification, the movie with its
backups, discovery with custom scans and path mappings, the follow-up automation,
the schedule, the settings with retention, the tool and its shutdown, the
free-space arithmetic; and proofs about all of them.

Left, in order of importance:

1. An abstract report-and-serve specification that the request table of
   `Discovery` implements, and the death of the coordinator's task as a fault.
   A path that a call drops would have to be a case of its own there.
2. Retention over several movies and roots, with the walk as a union.
3. The migrations as a sequence of steps with a crash between any two, if the
   statements are first read into sets of rows.
