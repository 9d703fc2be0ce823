# Formal model of debuginfod-python

debuginfod-python serves ELF debug information over HTTP. It walks build
directories, indexes ELF files by build-id in SQLite or PostgreSQL, and packs series of
`.debug` files as xdelta patches against one file of each series. This directory holds
TLA+ modules of the parts that keep state and run concurrently, the TLC
configurations that check them on small instances, and theorems proved with TLAPS.

## The system

| Component | State | Operations | Correct when |
|---|---|---|---|
| Dedup pipeline (`dedup/`, `db_dedup.py`) | table `dedup_files`, the `.debug` and `.xdelta` files on disk | discover, group, preprocess a base, pack a target, mark rows, restore for a client | no content is lost; what is done can be served; every registered file is settled |
| Scan control (`scan_runner.py`, `dedup_runner.py`, `dedup/scan_hook.py`) | `_scanning`, `_ready`, `_in_progress`, the stop event | periodic scan, trigger, admin rescan, schedule dedup, stop | one scan and one background ingest at a time; a scan goes on being followed by another; what a scan indexed is looked at by an ingest |
| Indexer (`indexer.py`, `index_worker.py`, `buildid.py`) | tables `scanned_files`, `artifacts`, `sources`; the pool | walk, parse in a pool, one transaction per file, cancel | what is marked as scanned is what was parsed; a changed file is parsed again |
| Database (`db.py`, `db_history.py`, `pg_schema.py`) | one shared connection with an open transaction | execute, transaction (commit or rollback), close | a rollback undoes what its own caller wrote |
| MemoryGovernor (`memlimit.py`) | reserved bytes, the gate around subprocesses | wait for headroom, acquire and release a budget, run a tool | the budgets given out never exceed the limit; whoever waits is let through |
| MetricsCollector (`metrics.py`) | progress, last scan | begin, phase, update, end | the progress shows the work that runs |
| Restored copies (`dedup/restore.py`) | the files under `CACHE_DIR/dedup-restored` | check a copy, decode a patch, verify, hand the path out | what is sent is what the row records; what was restored once can be had again |
| HTTP API (`webapi.py`) | none of its own | downloads, `/metadata`, admin rescan, backfill, compact | a client that reads all pages misses no row that stays where it is |
| Web UI (`webui/`) | the payload caches `stats_cache` and `scans_cache` | searches, the grouped search, the browse tree, statistics, downloads by dedup id | an answer is as fresh and as long as was asked; the tree leaves out nothing |
| Legacy delta store, Quik indexer, benchmark | | not wired into the server, or stateless | |

The threads of one process share everything: the periodic scan thread, a thread per
trigger, the thread of the background ingest with its pool of group jobs, the event loop
with the HTTP handlers (the admin rescan and the backfill run on it), and the processes
of the indexing pool, which only return results. The database connection is one object;
sqlite3 opens a transaction at the first write of any thread, and the commit or rollback
of the indexer's `transaction()` ends it for all of them. The dedup code never commits.
The waits for memory tie them together once more: jobs and scan look at the same process tree,
and the tools of all jobs pass one gate. The web interface answers from the event loop
and from the threads of `asyncio.to_thread`, which share its two caches without a lock.

What is hard about it is listed, line by line, under `hazards` in PROJECT.json.

## Modules

| Module | What it is |
|---|---|
| `DedupPipeline` | the dedup pipeline: ingests, group jobs, disk, rows, commits, restarts |
| `DedupStorage` | what the table promises about the storage of a file; `DedupPipeline` implements it |
| `MC_Dedup` | the instance and the budgets TLC uses |
| `DedupPipeline_proofs` | the theorems about `DedupPipeline` that hold without restriction |
| `DedupServing_proofs` | those about ingests that do not overlap: what can be served, and the refinement of `DedupStorage` |
| `ScanControl` | who scans and who packs, and when: the loop, triggers, rescans, the threads of dedup, the signal |
| `RunSlot` | what a runner promises that turns away who asks while it works; `ScanControl` implements it twice |
| `MC_Scan` | the instance and the budgets TLC uses |
| `ScanControl_proofs` | the theorems about `ScanControl` |
| `IncrementalIndex` | the tables of the index and the scan that fills them, while files change and dedup packs |
| `IndexTables` | what the committed tables of the index promise; `IncrementalIndex` implements it |
| `MC_Index` | the instance and the budgets TLC uses |
| `IncrementalIndex_proofs` | the theorems about `IncrementalIndex` |
| `MemoryGovernor` | the budgets, the waits, the gate and its tools, the pool of group jobs, a scan beside them |
| `MC_Governor` | the instances TLC uses |
| `MemoryGovernor_proofs` | the theorems about `MemoryGovernor` |
| `RestoreCache` | downloads of a delta, the copies they leave, and the ingest they run beside |
| `RestoreCache_proofs` | the theorems about `RestoreCache` |
| `UiCache` | the two payload caches of the web interface |
| `ArtifactPages` | pages, the grouped search and the browse tree, while the tables change |
| `WebUi_proofs` | the theorems about `UiCache` and `ArtifactPages` |
| `MC_Web` | one instance of `RestoreCache`, `UiCache` and `ArtifactPages`, explored one after the other |
| `MC_Web_proofs` | that what is proved of the three holds of their composition |

### DedupPipeline

State. `disk[f]` is what stands at the path of a `.debug` file: `"raw"` as delivered,
`"prep"` after `decompress-dwz`, `"zstd"` after the base was compressed, or `"none"`.
`delta[f]` is what stands at `f.xdelta`: nothing, a broken patch, or a whole patch with the
base and the form of the base it was made against. `rows` is `dedup_files` as the shared
connection sees it and `durable` as last committed. `job[a][g]` is the job of ingest `a`
for group `g`: its step, the targets left, its base. `budget` bounds what the environment
does and is not part of the program.

Actions. `StartIngest` .. `EndIngest` are the steps of `run_ingest_all`; `StartGroup`,
`StartSingleton` and `CancelJob` are `_run_group_job` and the pool in `process_groups`;
`RejectBase` .. `MarkBase` are the first half of `process_group`; `PrepareTarget` ..
`MarkDelta` are `compress_one`, one action between any two effects another thread, a crash
or a rollback can fall between; `FinishGroup` is the compression of the base. A failure is
part of the action that fails, and `TargetInterrupted` is a tool that fails or is killed
on the copy or over the patch. `IndexerCommits`, `IndexerRollsBack`, `RequestStop` and
`Restart` are what the rest of the process does to the pipeline.

Abstractions. The content of a file is its path and its form: preprocessing, and
decompressing what was compressed, give back the same form every time. A path is
delivered once. `discover` is one step, and fails part of the way in `DiscoverFails`. A
preprocessing that fails leaves the base `"raw"`. A work directory `dedup-prep-*` that a
crash leaves behind is ignored, although `discover` would register the copy in it as one
more file. Row ids are paths; sizes, counters, timestamps, `dry_run`, `dedup_build_dirs`
and `dedup_runs` are left out. xdelta3 runs without `-f` and refuses an output that exists.

### DedupStorage

A file starts `"full"` (the default of the column), may become the `"base"` of a group, or
is packed as a `"delta"` that names a base. No step leaves `"base"` or `"delta"`. The
refinement maps it to `durable`: one commit may publish several files at once, but never
a delta without its base.

### ScanControl

State. `scanning`, `ready`, `inProgress` and `stop` are `_scanning`, `_ready`,
`_in_progress` and the stop event; `executor` and `execLock` are `Indexer._executor` and the
thread that holds its lock; `phase` is `ScanProgress.phase`, `"idle"` when it is not running.
`pc[c]` is where caller `c` of `run_once` is, and `scan[c]` its scan. `known` are the files
whose row in `scanned_files` is current, `status` the rows of `dedup_files`. `thread[t]` is
a thread of `DedupRunner` with the count of indexed files it was given.

Actions. `Wake` and `LoopEnds` are `_loop`; `Trigger` is the test of the flag in `trigger` or
the arrival of a rescan; `TurnedAway` and `EnterScan` the critical section of `run_once`;
`ScanNothing` .. `ClosePool` are `Indexer.scan` with its `finally`; `Hook` is
`DedupScanHook`; `FreeScan` .. `FreeRaised` the rest of `run_once` on its three ways out;
`SkipIngest` .. `Report` the thread of `DedupRunner`; `Signal` and `HandlerEnds` the signal
handler before and after it has the lock of the executor.

Abstractions. Dedup and the metrics are switched on. What an ingest does to the disk is in
`DedupPipeline`: here it registers what it finds and settles rows, and `"pending"` stands for
every status the next ingest counts as work. The steps under the executor's lock are one
action for a thread that only makes the handler wait a moment; on the main thread, where the
handler itself runs, the lock is taken and released in two steps. `Anon` are the files
without a build-id, which count as skipped, so that alone they start no ingest; the theorems
hold for every `Anon`, the runs take none.

### RunSlot

A user finds the slot free and takes it, or leaves it; a flag is set exactly while it is
taken. `ScansTakeTurns` maps it to the scans with `_scanning`, `IngestsTakeTurns` to the threads of
`DedupRunner` with `_in_progress`. It says more than that there is one at a time: no step hands the
slot over, none sets or clears the flag of somebody else, and none takes the slot from the flag alone.

### IncrementalIndex

State. `build[p]` is what the path of an ELF file holds, `mtime[p]` its modification time,
or that it is gone. `db` are the tables `scanned_files`, `artifacts` and `sources` as the
shared connection sees them, `durable` as last committed. `todo` is what the walk has not
come to; `job[p]` is a file of the batch: `"listed"`, `"sent"` to the pool, `"read"` by a
worker that has its notes, or `"parsed"`, with the mtime and the sources the worker found.
`packing` is the file whose copy dedup has at `Work`, `packed` those it has replaced.

Actions. `StartScan` .. `CancelScan` are `Indexer.scan` and `_iter_elf_jobs`: a batch is
collected until it is full or the walk is over, and the next one starts when it is empty.
`Submit` is the pool in `_index_batch`, `ReadNotes`, `ReadSources` and `ParseFails` the
worker process. `ApplyNoId`, `ApplyElf` and `ApplyFails` are `_apply_worker_result`, which
does its work on the main thread, result after result. `Write`, `WriteSource` and `Remove`
are the build server, `PackCopies` .. `PackEnds` what `compress_one` does to the disk.

Three details of the code carry the properties. The worker asks for the mtime after it has
read the notes, and `mark_scanned` asks once more, later, for the mtime it records
(`Mark`). The mark of a file without a build-id is written outside of a transaction, so the
commit of the next file publishes it and a rollback takes it back. `upsert_artifact` keeps
the row with the newer mtime.

Abstractions. The stamp is the mtime alone, without the size. A write gives a path a time it
never had, which need not be later than those it had (`cp -p`, `rsync`). An id stands for a
build-id with the type of the artifact. A row of `sources` is the id and the path, because
its mtime changes nothing that is served. A stop between two sources is a stop before the
first. `mkdtemp` makes a new directory every time: the model has one path `Work` for all
copies, which is used again only when no worker has the last one in hand. Scan roots,
archives and the waits for memory (`MemoryGovernor`) are left out, and so is which of several
roots a source comes from.

### IndexTables

One step publishes one file: its mark, its row, and the marks and rows of the sources found with it.
A row is replaced only by one of the file published, with a time at least as new, and is never
removed; sources only grow. The refinement maps it to `durable`, so that a rollback, a restart or a
stop in the middle of a file must not show. Marks of files without a build-id wait for the next
commit and may come with it.

### MemoryGovernor

State. `load` is what everything but the tools uses, in blocks of 64 MiB, and `use` what the
running tool uses. `reserved` is `_reserved_bytes`, `budget[j]` the `JobBudget` of job `j`.
`pc[j]` is where the job is, in the order of `process_group` and `compress_one`, and `at[j]` the
file it works on. `gate` is the holder of `_subprocess_gate`, `tool[j]` the tool of the job, and
`streak[j]` its `ok_streak`. `sub`, `next` and `pending` are the loop of `process_groups`, `scan`
and `scanLeft` that of `_index_batch`. `granted` and `calm` are history.

Actions. `AcquireBudget` and `ReleaseBudget` are `acquire_peak_budget` and the end of the `with`
block; `WaitForPeak` is `wait_for_peak_bytes`, which looks and reserves nothing. `StartTool` ..
`StopTool` are `run_subprocess_monitored`, `PollRecovery` and `EndRecovery` `wait_for_recovery`,
once with the gate held and once without it. `PickJob` .. `JoinPool` are `process_groups`, and
`ScanFile` is the wait of a scan. A guard `~Pressure(..)` is one good look of a loop that sleeps
and looks again. `Pressure` and `OverLimit` are the two predicates of the code, term by term.

Abstractions. What the job does to files and rows is in `DedupPipeline`. The tools that one
place runs one after the other are one run, which uses the peak of its job. The load takes any of
the values of `Loads` at any moment. `ToolHangs` is a child that writes more than its pipe
holds. `prepare_for_heavy_work` is a pause, and log lines are left out.

### RestoreCache

State. `disk[f]`, `patch[f]` and `row[f]` are the file, what its patch decodes to, and the
fields of `dedup_files` a restore reads; `out[f]` is the copy under `dedup-restored`, `Torn` when
a decoder was cut short or another base made it. `dl[c]` is the download of client `c`, `loop` the
one whose request occupies the event loop.

Actions. `Lookup` .. `Verify` are `_restore_delta`, which blocks the event loop, so that one
download at a time is in it; `Open` is the thread of `FileResponse`, which opens the path
later. `Register` .. `MarkDelta` are the steps of an ingest that a download can see. `Rebuild`,
`RewriteBase` and `RestartServer` are the environment, bounded by `MaxEvents` together with the
failures of the decoder.

Abstractions. Content is a build and its form, and two files have the same sha256 exactly when
they are the same content. The base is there in the form the patches were made against, or in
another. Rows are taken to be committed: what a restart does to those that are not is in
`DedupPipeline`.

### UiCache

`payload`, `left` and `limit` are the fields of a cache dict, and `req[t]` is the request of a
thread: each read and each write of a field is a step, in the order of
`_cached_scans_payload` and `_cached_stats_payload`. The cache of statistics is the
same without the limit (`keyed`). Time is relative: `left` is `expires_at - now` and counts down,
the age of a payload counts up to the bound the property speaks of, and a request takes at most
`MaxRequest`. What the database says is one bit, whether a scan has been recorded.

### ArtifactPages

`place` and `packed` are the rows of `artifacts` and of `dedup_files`; a row of `artifacts` is
inserted or moved to another path, never removed. `page` is a client that follows
`next_offset`, `tree` a browse request between its two queries, `groups` the last answer of the
grouped search. `IsPage` says which sets of rows a query may return: the order by build-id
and type is total, while rows that share path and type come in any order, which may differ from one
query to the next. What matches a query is any set of rows or paths, so patterns and
their languages are left out; so are times, sizes and families.

## Runs

| Run | Instance | Shows |
|---|---|---|
| `DedupSingle` | 4 files, 2 groups, one worker; one permanent failure, one tool stopped, one failing ingest, one stop | types; done is servable, and between ingests everything is; every row settled |
| `DedupRestart` | 4 files, 2 groups, 2 workers, one file oversized; 2 commits, 1 restart between any two steps, one tool stopped, one permanent failure | no content leaves the disk; a base that a delta names keeps its file; only a lost row hides a file; the committed table implements `DedupStorage` |
| `DedupConcurrent` | 3 files, background ingest and backfill, base compressed; 1 rollback, 1 permanent failure | what holds without a lock between the two |
| `DedupZstd` | 3 files, nothing fails, base compressed | a delta packed by a later ingest cannot be served |
| `DedupLostRows` | 3 files, 1 restart, nothing committed | the patch of a lost row cannot be found |
| `ScanSafe` | 1 file, the loop and a rescan on the main thread, 2 threads of dedup; one rescan, one failure or one signal | scans and ingests take turns (`RunSlot`); readiness and progress tell the truth; files get indexed |
| `IndexSafe` | a file and a working copy, 1 source, 3 builds, 2 ids, 2 times, 2 workers; one fault, one file packed, one change in hand | what is skipped is indexed, a marked source is found, every change is looked at; the committed tables implement `IndexTables` |
| `IndexCopy` | as `IndexSafe` with one build; nothing fails | the working copy takes the row of its target, whose delta is then not found |
| `GovernorSafe` | 2 groups of two files and a single one, 2 workers, 8 GiB, a quiet and a short load, tools that hang and tools that have to be killed | budgets balance and fit, recovery before the next tool; whoever waits is let through by memory or by a stop |
| `GovernorWaits` | one group, a quiet load | the job waits for its own reservation |
| `WebSafe` | one packed file and two downloads; two threads and a cache; three rows, of which a grouped search fetches two, one move | what clients are sent is recorded, fresh and whole |
| `RestoreTwice` | one packed file, a strategy that decompresses, nothing fails | the second download of a delta ends with an error |

`DedupZstd`, `DedupLostRows`, `IndexCopy`, `GovernorWaits` and `RestoreTwice` are expected
violations, each against a sentence of the documentation or a docstring quoted in PROJECT.json.
In `GovernorWaits` the docstring is read as a promise: as long as memory stays within the limits,
with every granted budget counted once, work goes on.

Bounds. Three files in one group are a base, a target packed by the first ingest and one
that comes later; they are delivered at any moment, so every split over ingests occurs.
Two of them share the exact project name and the third only the normalized one, which is
where `get_dedup_group_base` and `find_group_base` differ. The fourth file is alone in its
group. One failure of a kind is enough to reach each error path, and two commits give a
committed base with uncommitted deltas in every order. In `DedupRestart` one restart is enough for a
base to be chosen again: the new ingest may pack the file that was the base before, so that patches
stand in a chain. In `ScanControl` two callers are a
scan and whoever asks for another one; two threads are one that has cleared
`_in_progress` and has still to report, and the next. One file suffices for `ScanSafe`: it is
there from the start or comes later, and scans go on for ever. The upset of a run is
any one of an unreadable file, an exception in the scan or in the ingest, rows left over, or
a signal. In `IncrementalIndex` two paths with the same build are two copies of a program,
and their results come in either order; two programs share the source, and the third build
has no build-id. Two times make each copy the older one once. The one fault is a file
removed, a worker or a transaction that fails, a stop or a restart: scans go on after it, so
each is seen at every point of a scan. The barrier between batches and the size of the pool
are part of the model; with two files a batch and the pool hold both.

In `GovernorSafe` the quiet load leaves room for the budgets of both groups and one more
peak; under the other one job gets its budget and waits then, and a tool that runs is
stopped: every wait is entered, left and entered again. Two groups
compete for budgets, gate and pool, and the single file takes the path without a budget. In
`WebSafe` the three modules share no variable and no property speaks of two of them; `focus`
picks the one that moves. Two downloads and two builds give a copy of the wrong build, one
that is torn, and one that is checked while it is handed out; two events are a rewrite and a
restart, or a failure and either. One move is enough for a row to slip from a page not yet
read to one that is; a page of one row gives the most pages. `RawCap = 2` fetches fewer rows than there
are, so that the cut before grouping happens, and leaves room for twice the limit.

Fairness. The actions of an ingest and of its jobs are threads that run on, so each has
weak fairness; a background ingest starts again after every scan. Nothing obliges anybody
to call the backfill, to deliver a file, to commit or to stop. `PendingSettles` is stated
under `~stop`, because no ingest starts after a stop. That scans go on, which this
fairness takes for granted, is what `ScanControl` looks at: there the threads run on and the
timer of the loop fires, but no file need arrive, no user ask and no step fail.
`FilesAreIndexed` only binds a process that nobody stops and whose loop is alive, because an
exception ends the loop for good. In `IncrementalIndex` the workers
and the scan run on, and a scan follows the last one, which `ScanControl` justifies;
`ChangesAreIndexed` excepts a stop.

In `MemoryGovernor` every thread goes on when it can, and a tool that has not hung ends;
nothing is assumed of the load or of a stop. So `JobsFinish` and `ScanGoesOn` say what follows
once memory stays available, and `StopReturns` what follows from a stop whatever the memory
looks like and even if a tool hangs. In `UiCache` time passes, threads go on, and the page
asks again (`app.js` sets an interval for both routes). The other two modules state no
fairness and no liveness.

What fails where. `DoneIsServable` holds for one ingest at a time when the base is not
compressed and no rollback comes between; it fails with the compression (`DedupZstd`), with
two ingests, one of which packs the base of the other, and with one rollback in the middle of
a group, which takes back the row of a base that deltas recorded afterwards name.
`QuietIsServable` fails after a restart (`DedupLostRows`); what a restart leaves of it is
`ServedUntilLost` and, for the contents, `NoContentLost`. `ServedUntilLost` fails in the same three
cases as `DoneIsServable`. `NoContentLost` needs only that ingests do not overlap: with two of
them, and nothing failing, where the oldest of three files is the one of the other project, one ingest
has the base done and packs a file against it, while the other, from an older list, takes that file
for the base and packs the base against it, and both originals are removed. `DedupConcurrent` has another assignment of
projects, and there it does not happen.

Some behaviour is in the models and nobody promises anything else, so that no run is about it: a
tool stopped for memory leaves a patch that the retry refuses to overwrite; a file that comes while
an ingest runs is registered only by an ingest that a later scan with new files starts; the
signal handler waits for a lock of its own thread when an admin rescan holds it there.

`RestoredAgain` is claimed for strategies that leave a file as it is (`Preprocess = FALSE`) and
from the first success on; a first decode that fails leaves part of its output, which
blocks the path. `QuietServedInTime` and `WrongLimitNeedsOverlap` leave out the request that
reads the fields while another thread writes them, and the cache that two threads
filled at once: then a payload that had expired can be served, or one made for another
limit. `MissNeedsMove` is as far as the searches by path go: a
row that moves can push another one past a client.

`ReadyMeansScanned` is about `ScanRunner.ready`. The route `/readyz` also answers 200 when
`scanned_files` has any row, so a server that was indexed once is ready at once.

`SkipIsJustified` is claimed while no file changes between the moment a worker reads it and
the mark (`Unraced`). A file that does change there is recorded with its new mtime and its
old content, and is not parsed again. `MarkedSourceIsFound` says that a source is served for
some program, not that it has a row for each that uses it: a source that has not changed is
skipped for the next program, and after a stop the rest of the sources of a file is left to
other programs. That a row of `artifacts` still names a file with its build-id is not
claimed: nothing removes a row when its file is rebuilt or removed.

## Proofs

`DedupPipeline_proofs` proves, for all values of the constants that satisfy
`FilesAssumption` and `ConfigAssumption` (so for any number of ingests, workers, groups,
failures, rollbacks and restarts, with or without compression of the base):

* `TypeCorrect`: `Spec => []TypeOK`;
* `OneOwnerEver`: `Spec => []OneOwner`;
* `OriginalsLeavePatches`: `Spec => RemovalLeavesPatch`;
* `PatchesAreFinal`: `Spec => PatchIsFinal`.

The inductive invariant is `PatchInv`. `OneOwner` alone is not inductive: that a second job
cannot take a patch follows from the encoder's refusal to overwrite only if the patch of
an owner is really there, so `Held` says it is, and that it is whole once the original may
go. `Sealed` says the same of files stored as a delta, in the table and in the last commit,
because a rollback or a restart may bring that row back; and that no job owns their
patch. `JobShape` gives the steps on a target a target. The proof splits a step of a job into
what the others keep (`OthersKeep`), what it does to its own patch (`OwnSteps`) and to the
rows (`Seals`); `JobKeepsPatches` shows that these three suffice, and `BaseStepKeeps` and
`TargetStepKeeps` show them for every action. That `Earliest` and `Latest` of a set are in it
needs `Files` to be finite, and follows from the well-foundedness of strict inclusion.

`DedupServing_proofs` proves, for the behaviours in which no two ingests overlap (`OneAtATime`),

* `BasesStay`: `[]BaseStays`;
* `TableIsStorage`: `CommittedStorage`, which is the specification of `DedupStorage` under the
  refinement mapping, step by step;
* `DoneServes`: `[]DoneIsServable`, where the base is not compressed;
* `OnlyLostRowsHide`: `ServedUntilLost`, where the base is not compressed;
* `ContentIsKept`: `[]NoContentLost`.

All but the last assume of the shared connection that the indexer rolls it back only while no ingest
is under way (`QuietRollback`). Nothing is assumed of restarts, which come between any two steps, and
`ContentIsKept` assumes nothing of rollbacks either. For the rest these are any
files, groups, ingests and workers, and any failures, stops and commits. `OneIngestEver` of
`ScanControl_proofs` is what the code does for the first assumption: it covers the background
ingests, while a backfill does not look at the flag. Nothing in the code stands for `QuietRollback`.
Neither can be spared: TLC finds each of the five violated with two ingests, and the first four
with one ingest and a rollback in the middle of it; and a compressed base is not what the patches
were made against. That every file can be served between two ingests is not proved and not true in general:
`QuietIsServable` is checked without restarts in `DedupSingle`, and refuted with one in
`DedupLostRows`.

`ServeInv` is what a job finds and what it leaves. `TablesOK` says, of the table and of the last
commit, that a delta names a base of the same table and that what is done without a patch is on disk;
of the disk that the patch of every recorded delta decodes with its base as it stands or as it was
before it was compressed (`Decodes`); and that the table has all that was committed
(`Ahead`), which is why a commit only moves files forward. `Relies` is what a job in the middle
of its group goes by: its targets are still pending, its base is none of them and is settled in
the step before the first target, and a patch it has verified was made against the base that
stands there. Other groups of the same ingest keep it, because groups are disjoint; a second ingest
does not, which is where the induction needs `OneAtATime` (`OthersRest`, `OthersWait`). `Moves` is all that a step may do to a
file, so that `TablesMove` and `OthersRely` are shown once and not for every action. `Kept(f)`, for `OnlyLostRowsHide`, is that `f` is on disk,
has its patch on record or is the target of a job that is about to record one; beside `ServeInv` it is
the same as being in reach (`ReachIsKept`), and `KeptStep` shows that only a lost row ends it.

`ContentIsKept` cannot go by the rows, since a rollback or a restart may put older ones in their place.
`NoContentLost` says that among any delivered files one can be had without the others, which excludes a
circle however long a chain of patches has become over several restarts. Its invariant
`ContentInv` adds what rows cannot take back: a base of the table or of the last commit was delivered
and has been rewritten (`Placed`), so no patch is made against its `"raw"` form. `Leans` is what a job goes by
without its rows: its base is none of its targets, a target is on disk until its patch is verified, and when the
original is about to be removed, its patch is whole and its base is on disk. The step that matters is
`RemovalKeeps`: the removed file can be had from a base that is on disk, so a set of files that went by
the original still has a member that stands without the others. Other jobs of the
same ingest leave this alone (`OthersLean`), because groups are disjoint; those of another ingest do
not, and `OneAtATime` leaves them out (`OthersWait`).

`ScanControl_proofs` proves, for any sets of files, callers and threads and any budget that
satisfy `FilesAssumption` and `ThreadsAssumption`:

* `TypeCorrect`: `Spec => []TypeOK`;
* `OneScanEver`: `Spec => []OneScan`, and `ScansTakeTurnsEver`: `Spec => ScansTakeTurns`;
* `OneIngestEver`: `Spec => []OneIngest`, and `IngestsTakeTurnsEver`: `Spec => IngestsTakeTurns`;
* `ReadyIsEarned`: `Spec => []ReadyMeansScanned`;
* `ProgressEnds`: `Spec => []QuietIsIdle`.

None of these but the types is inductive. `FlagIsSet` says that whoever is inside a scan
or an ingest has the flag set and is alone, so that the next one is turned away; the refinements of `RunSlot`
add the converse (`FlagHasScan`, `FlagHasIngest`): a flag that is set has somebody inside who clears it.
`ScanTurn` and `IngestTurn` say which steps enter and leave; every other keeps flag and places.
`WalkCovers` says that what a scan has still to look at, and what was looked at, cover the
files of the start until the scan is cancelled; it is what carries readiness from the walk
to `Publish`. `ProgressIsOwed` says that a progress that runs is owed its end by somebody:
a scan under way, a caller on one of the three ways out of `run_once`, or a thread of dedup that
was given the metrics. `RunnerKnows` ties `inProgress` to the thread that clears it.

`IncrementalIndex_proofs` proves, for any files, builds, ids and times, any size of the batch
and of the pool, and any budget that satisfy `BuildsAssumption` and `PoolAssumption`:

* `TypeCorrect`: `Spec => []TypeOK`;
* `MarkedIsFound`: `Spec => []MarkedSourceIsFound`;
* `SkipsAreJustified`: `Spec => []SkipIsJustified`;
* `TablesOnlyAdvance`: `Spec => CommittedIndex`, the specification of `IndexTables` under the
  refinement mapping, step by step;
* `DeltasAreReachable`: `[]DeltaIsReachable`, for the behaviours in which the scan never lists the
  copy of dedup (`Work \notin todo`) and only dedup takes a file away or lets its path hold another
  build (`FilesStay`).

`MarkedSourceIsFound` is inductive beside the types: marks and rows of sources are written
and committed together. `SkipIsJustified` is not. `IndexInv` adds that a job in hand has what
its step says (`JobShape`), that every recorded time is one the path has had
(`TimesAreUsed`), without which a path that gets a new time could match an old mark, and
that, as long as no file has changed in hand, a worker has read what the path holds now
(`HandIsTrue`). `Justified` of `db` and of `durable` are kept apart, because a rollback and a
restart put the second in place of the first. The refinement needs of the open transaction
only that what it has, and the last commit has not, are marks of files (`OnlyMarksWait`): then the
commit of a file publishes that file, and nothing half done (`ApplyPublishes`).

`DeltasAreReachable` is the other side of `IndexCopy`, which runs without the first hypothesis and
keeps the second. Neither follows from the code. That it can be proved with the two, through any
faults, restarts and copies of a program, says that the copy in `dedup-prep-*` is all there is to
that finding: a walk that passed by it would find every delta. `TableStands` says, of the tables and of the
last commit, that a row names a path that has its artifact or its delta, and that a marked file has a
row; `HandStands` that a job in hand has what its path has.

`MemoryGovernor_proofs` proves, for any jobs, sizes, limits, loads and number of workers that
satisfy `GovernorAssumption`:

* `TypeCorrect`: `Spec => []TypeOK`;
* `OneToolEver`: `Spec => []OneTool`;
* `BudgetsBalance`: `Spec => []BudgetsAccounted`;
* `BudgetsHold`: `Spec => []BudgetsFit`;
* `RecoveryComesFirst`: `Spec => RecoveredBeforeNext`. A tool that has to be killed gives the gate
  back without a recovery of its own, and does not make up for one that is owed;
* `StopComesNearer`: `Spec => StopRunsDown`;
* `StopNeverStalls`: `Spec => []StopIsHeard`.

`OneTool` (the gate is held by the job whose tool runs or recovers, and by no other) needs
that a job with a tool is at a place of a tool, and that one not yet
submitted is untouched (`GateInv`). What is reserved is the
size of a set of units, `HeldUnits`, so that granting and releasing are a union and a
difference of finite sets (`GrantUnits`, `ReleaseUnits`) and no sum over jobs is needed;
`BudgetsInv` adds that the set is finite. The number of good polls is carried by
`CalmInv`: while a tool recovers, `calm` is its `streak`.

The last two are the safety halves of `StopReturns`, for any number of jobs. `JobLeft` counts the
steps a stopped job has left, `PoolLeft` and `ScanLeft` those of the pool and of the scan: after a stop no
step raises any of them and every step but a change of the load lowers one, by the guards of each loop,
so that no wait, poll or recovery goes round again. And until all is over somebody can go on: whoever
waits for the gate waits for a job that can. `Goes` and `PoolGoes` repeat the guards of the actions,
because the provers do not evaluate ENABLED; that the descent and these guards give an end under
fairness is what TLC checks as `StopReturns`.

`RestoreCache_proofs` proves, for any files, clients, builds and sizes that satisfy
`RestoreAssumption`:

* `RestoreTypeCorrect`: `RestoreSpec => []RestoreTypeOK`;
* `RecordedIsSent`: `RestoreSpec => []RestoredIsRecorded`;
* `HandedOutIsKept`: `RestoreSpec => HandedOutStays`;
* `RestoredCanBeAgain`: `RestoreSpec => []RestoredAgain`, where the preprocessor leaves the size of a
  file as it is (`SizeIsKept`), as it does when it is turned off (`NoPreprocessorKeepsSizes`);
  `RestoreTwice` is the counterexample without.

`RestoreInv` is the types with `RowInv` (a delta has a hash, and what is being packed is pending
and has its patch), `LoopInv` (whoever is in a restore occupies the event loop), `AskedInv` (what a
download wants is still the hash of its row, which is a delta for good) and `CopyInv` (a copy
that was handed out is what its download wants). The last one is kept because a second
download goes by the same hash: it hands the copy out as it is, or the decoder refuses to
overwrite it. `RestoredAgain` needs to know of a path that was not written again that row, patch and
disk are of the first build (`FirstInv`), and that a copy which was handed out once is still
what its row says (`AgainInv`); then every later download finds it valid (`RestoredIsValid`) and
never comes to the decoder.

`WebUi_proofs` proves of `UiCache`, for any threads, limits and times that satisfy `CacheAssumption`:

* `CacheTypeCorrect`: `CacheSpec => []CacheTypeOK`;
* `AnswersAreInTime`: `CacheSpec => []QuietServedInTime`;
* `AnswersFitTheLimit`: `CacheSpec => []WrongLimitNeedsOverlap`.

`CacheInv` says what the fields have to do with each other: a payload that one thread alone put
there is for the limit beside it, and its age and what is left of it make at most the time to live
(`CoherentInv`); while it is being put there, the writer's own limit and elapsed time stand for the
fields that are still to come (`FillInv`); and what a quiet reader has in hand is what is in the
cache (`ReadInv`). So a hit is as fresh and as long as the cache is.

It proves of `ArtifactPages`, for any rows, paths, orders and limits that satisfy
`PagesAssumption`:

* `PagesTypeCorrect`: `PagesSpec => []PagesTypeOK`;
* `BuildidPagesShowAll`: `PagesSpec => []BuildidPagesAll`;
* `MissesNeedMoves`: `PagesSpec => []MissNeedsMove`;
* `TreeIsComplete`: `PagesSpec => []TreeShowsAll`;
* `GroupsHaveAllRows`: `PagesSpec => []GroupsAreWhole`.

`PagesInv` adds `PageInv` and `TreeInv` to the types. `PageInv` says that a row which was there
when the client began and has not been shown has at least as many rows before it as
the client has been past; `LeftOutComesLater` is the step of it: a row that a page leaves out
is behind all rows of the page and those before. Rows that are inserted only push it back. `TreeInv` says that what the second
query skips was shown by the first. `GroupsAreWhole` is a count: if a row of a group that is shown
were not fetched, all rows fetched would be of that build-id or of the fewer than `limit` before it;
but a build-id has two rows at most, one of each type (`TwoRowsOfABuild`), and at least
`2 * limit` are fetched (`ShownIsFetched`).

`MC_Web_proofs` proves, for the constants of all three, what the instance stands for:

* `PartsRunApart`: `Spec => RestoreSpec /\ CacheSafety /\ PagesSpec`, the composition implements its parts;
* `WebTypeCorrect`: `Spec => []WebTypeOK`;
* `WebIsSafe`: the safety properties of the three parts together. `RestoredAgain` has a hypothesis of
  its own and stays with `RestoreCache_proofs`.

Only model-checked: the liveness properties `PendingSettles`, `FilesAreIndexed`,
`ChangesAreIndexed`, `StopReturns`, `JobsFinish`, `ScanGoesOn` and `ScanIsShown`: the provers do no
liveness under fairness. `StopReturns` is the one whose safety halves are proved.

Not modelled: the binary formats (notes, DWARF, `.comment`), HTTP and HTML, the languages of
search patterns, the SQL of statistics, a governor without any limit and how it reads `/proc`,
configuration, and the parts the server does not use (the legacy delta store, the Quik indexer, the
benchmark). PROJECT.json lists each with the reason.

## Plan

1. `DedupPipeline` (done): the core, with its runs and first theorems.
2. `ScanControl` (done): `ScanRunner`, `DedupRunner`, the hook, the progress and the stop,
   with the count of indexed files that an ingest is given.
3. `IncrementalIndex` (done): the indexer and its tables, the shared connection, copies and changes
   of files during a scan.
4. `MemoryGovernor` (done): budgets, waits and the gate, with the pool and a scan beside it.
5. `RestoreCache`, `UiCache`, `ArtifactPages` (done): what clients are sent.
6. Theorems (done): every safety property the runs check, the refinements of `DedupStorage`,
   `IndexTables` and `RunSlot` included; the descent behind `StopReturns`; and where the finding of
   `IndexCopy` ends.
7. Pure operators: names and versions of `.debug` files, project groups.

The runs of a new module may take the place of one that shows less.
