# A verification project for muxprune

muxprune keeps a catalogue of the video files in a media library and rewrites
files without the tracks nobody wants. It runs jobs on files that other
programs (Sonarr, Radarr, a torrent client, the user) replace at any moment, in
one or several processes that share a SQLite database, and it may be stopped or
killed at any point. This directory holds TLA+ models of the parts in which that
matters, TLC configurations that check them on small instances, and theorems
about them that TLAPS proves for every value of the constants.

    tlc -config MCJobQueue.cfg MCJobQueue      # model-check one run
    tlapm JobQueueProofs.tla                   # check the proofs of one module

Contents: [inventory](#1-inventory), [modules](#2-modules-and-the-code-they-model),
[runs](#3-what-each-run-checks), [fairness](#4-fairness),
[proofs](#5-what-is-proved), [model-checked only](#6-what-is-only-model-checked),
[not modelled](#7-what-is-not-modelled-and-why),
[disagreements with the documentation](#8-where-code-and-documentation-disagree),
[plan](#9-plan).

## 1. Inventory

| component | code | state | operations | hard because |
|---|---|---|---|---|
| store | `internal/store/store.go` | tables `libraries`, `media_files`, `sidecars`, `jobs`, `settings`; one connection | one statement, or one transaction, per method | every caller reads in one statement and acts in another; ids are reused after a delete |
| job runner | `internal/jobs/runner.go` | `wake` (capacity 1), `cancels`, `cancelled` under `cmu`, `locks`; a job in each worker | `Start`, `worker`, `run`, `execute`, `Cancel`, `Wake` | workers, handlers and shutdown interleave; a cancel may come at any stage of a job |
| queue ownership | `cmd/muxprune/main.go`, `lock_unix.go` | the flock on `muxprune.lock`, the context of each process | `startQueueOwner`, signal, exit | several processes, crashes, recovery of what a dead owner left running |
| engine | `internal/engine/engine.go` | `locks` (a `KeyedMutex`), temp files, the media file, the recycle directory | `RemoveTracks`, `ReorderTracks`, `MergeTracks`, `EditMetadata`, `DeleteSidecar`, `PurgeRecycle` | another program may replace the file between any two system calls; each step may fail or be killed |
| scanner | `internal/scan/scanner.go` | `start`, `videos`, `pendingIDs`, `walkErrSeen` of each scan; `scanned_at` of each row | `ScanLibrary`, `ScanFile`, `scanOne` | a wrong prune loses rows (and the jobs' link to them); concurrent scans, errors half way, a library that changes during its scan |
| API and MCP handlers | `internal/api/server.go`, `mcp.go` | none of their own | submit, retry, cancel, delete jobs; edit libraries | check in one statement, act in the next |
| watcher and monitor | `internal/watch/*.go`, `startMonitor` | watchers with their watches, timers and flags, the catch-up each library is owed, the next scan | `tick`, `Reconcile`, `schedule`, `fire` | timers, event overflow, watchers that die, check-then-create of scan jobs |
| sidecars | `internal/scan/sidecar.go`, engine, store | table `sidecars`, recycle directory | match, delete, recycle, purge | rows are replaced by every rescan, ids are reused; a move across devices is a copy that may fail, be purged or be cut off |
| stream selection | `internal/probe/probe.go`, engine | none | align mkvmerge ids with ffprobe indexes, build arguments, size floor | two tools number the streams differently; bit rates may be missing or wrong; the output is checked by counts, duration and size only |
| sessions and limits | `server.go`, `security.go` | sessions, counters of windows | login, logout, janitor, limiters | expiry against use, windows |
| hub and MCP transport | `hub.go`, `mcp.go` | subscriber channels, SSE sessions | subscribe, notify, post | bounded channels, lost events |
| file names, web UI, CLI, containers | `arrparse.go`, `web/`, `main.go`, `entrypoint.sh` | - | - | no concurrency of its own |

How they interact. A handler, the monitor or a webhook inserts a row into `jobs`
and calls `Wake` of its own process. Only the process that holds the flock has
workers; a worker claims the oldest queued row, executes it and writes its end.
Executing either rewrites a file through the engine, under the lock of its path,
and rescans that file, or runs the scanner over a library. The scanner writes
`media_files`, which the handlers show to the client and out of which `CreateJob`
copies the fingerprint of a job.

What makes each correct:

* **Job queue.** One owner; a job is executed by one worker; nobody changes the
  row of a job at work but its worker; a job accepted for cancelling is cancelled
  or done, unless its process crashes or the write of its end fails and a recovery
  reports it failed; what a job ended as is final; no row stays running for ever; a queued
  job is served; a stop completes.
* **File jobs.** A job changes the file only while it has the streams its tracks
  were selected in; a remux replaces only the file it was made from; no temp file is
  left; the catalogue describes the file.
* **Per-path lock.** Exclusion, exact reference counts, nobody waits for ever.
* **Scanner.** A prune takes only what was missing, whatever else goes on; the
  rows of the current root are safe from a scan of a former one.
* **Watching.** No change of a library that has been watched is forgotten, no watcher
  outlives its registration, timers and ticks queue one scan at a time, and a watcher
  that has handled its events watches the whole tree.
* **Sidecars.** The file that goes is the one the client picked, although row ids come
  back (it is not always: section 8); what was recycled stays whole for the retention period; the rows match the
  directory when a scan says they do.
* **Streams.** What replaces a file has exactly the streams that were meant, whichever
  tool made it; the size check refuses no good output and, where bit rates are known, passes no half a
  file (section 8 has the rest); a batch never asks for what the job will refuse.

The hazards behind these properties are listed in `PROJECT.json`, each at its
line, with the properties that would catch it, or the reason none does yet.

## 2. Modules and the code they model

Each module maps to code definition by definition in `PROJECT.json`. Mutants
(`\* Mutant: ...`) are changed forms of single definitions; they are not part of
the specifications and show that each property notices a plausible bug.

### JobLifecycle and JobQueue

`JobLifecycle` is the promise: rows of `jobs` are absent, queued, running or ended,
and move only by submit, claim of the oldest, finish, withdraw, remove, and the
recovery that fails what is running. `JobQueue` is the system that keeps it:

* `status` is the table (one value for each id; the largest id plus one is the next,
  so ids are reused). Each statement of the store is one step, since there is one
  connection and SQLite makes statements of two processes atomic.
* `proc`, `stopping`, `lock`, `wake` are the processes: `down`, waiting for the flock
  (`TryLock`, `GiveUpLock`), `recovering` (it has the lock but `FailInterrupted` has not
  run), `serving`, `released`. `Crash` forgets all that lives in memory and frees the
  flock, which the kernel does.
* `pc`, `cur`, `ctxDone`, `outcome` are the workers, one action for each stretch of
  `worker` and `run` between two points where others see or change something: claim,
  register the cancel function, execute, the second critical section, finish, wait.
* `cancels` and `cancelled` are the maps of the runner. A cancel request is up to
  three steps (`CancelRunning`, or `CancelNotHere`, `CancelGetJob`, `CancelUpdate`).
* A write to the database may fail (`RecoverFails`, `ClaimFails`, `FinishFails`), up to
  `MaxFaults` times; the code goes on, and so does the model. `MaxTrouble` bounds stops,
  crashes and failed writes together.

`acked` and `interrupted` are history variables: the jobs whose caller was told
"cancelling", and those that a recovery failed.

### FileJobs

One media file, the jobs queued for it, the scans that come across it, and other
programs. A file is `[layout, sig, stamp]`: which streams it has, its size and mtime
in seconds, and its exact identity. The fingerprint of jobs and rows knows `sig`
only; `os.SameFile` with size and mtime in nanoseconds knows `stamp`. Every write
takes the next number, so nothing is reused; a replacement is assumed to change the
size or the second of the mtime, an edit in place may leave both. Titles and flags
are not part of `layout`: it says which stream is at which index.

A job goes through `Load`, `CheckExpected` (the 409), `CreateJob` (fingerprint), `Begin`
(claimed, path lock taken), `CheckFingerprint`, then for a remux `Stat`, `Probe`,
`RunTool`, `Verify`, `Compare`, `Rename`, for an edit `ProbeEdit`, `StatEdit`,
`EditInPlace`, and `Finish` after the rescan. Reorder and merge take the same steps as
a remux. Every step may fail; `Fail` is the way out that unlocks and removes the
temp file. `Verify` may pass or refuse any output; which outputs it passes is the matter
of `Streams`. The optional `expect_size` and `expect_mtime` are always sent, as the UI and MCP do; a
client that omits them asks for no check. The command line's `strip`, which takes no
queue, is one of the other programs. So is an `mkvpropedit` that outlives a crash.

`Windows` names the check-then-act windows in which the environment may act:
`submit` (server.go:905 to store.go:578), `start` (runner.go:233 to the engine's first
look; for an edit, its whole run) and `swap` (engine.go:621 to 624). The code closes
none of them. With all closed the properties must hold: that
is what all the other steps have to guarantee, and what the theorems need. What
happens with one open is in section 8.

A scan of the file is `Find` (the walk or `ScanFile`), `ScanStat` (the second stat and
the cache), `ScanProbe`, `ScanStore`; any of them may fail.

### PathLock and KeyedMutex

`PathLock` is what a lock per path promises: who asks waits, a path has one holder, and
a holder releases it. It has neither a map nor mutexes. `KeyedMutex` is the lock as it
is built: `Lock` and the function it returns, at the granularity of `k.mu` and `rm.mu`:
`Enter` (the entry is found or made and counted), `Take`, `Unlock`, `Unref`. Objects are
reused as soon as nothing refers to them, as a garbage collector does, so a stale
reference would be seen. The refinement takes the threads between `Enter` and `Take`
for those that wait, and those before `Unlock` for the holders; `Unref` is a stutter.

### LibraryScan

One library, its rows, the workers that may scan it. `scan[s]` holds the local
variables of a scan. The walk comes to its entries one by one; files appear and
vanish meanwhile; `scanOne` is `LookupRow` up to the cache, `StoreProbe` or `ProbeFails`;
then come the statements before the prune in the order of the code, each one a step:
`CheckLibrary`, `TouchFilesBulk`, `PruneFilesOutside`, `Guard`, `CountStale`, `PruneFiles`.
`StartRefresh` is the rescan after a job. `scan_all` reads all libraries long before it
scans the last, which `LoadLibrary` as a step of its own covers. Another root and the
deletion of the library take its rows along; a library added later may get its id.

`MinStale` and `MaxPercent` stand for 5 rows and 20 percent. `Window` says whether the
library may change between `CheckLibrary` and the end of that scan; the code does not
prevent it. `missed` is a history variable: for each scan the paths at which there was
no file at some time since it started, or whose row was deleted meanwhile, or on
which the scan itself failed without a row to keep alive.

`CHECK_DEADLOCK FALSE` is said only here: clock and changes are bounded, and with the
library deleted nobody has to ask for a scan.

### LibraryWatch

One library with a subdirectory, at one of several roots; directories are told apart by
inode, so a root that was unmounted or replaced is another directory under the same
path. Each watcher has the two watches inotify may hold for it, the queue of its events,
its timer and its flags. `Loop(w)` is one turn of `loop`: an event (`HandleFile`,
`HandleMkdir`, `HandleRmdir`, `HandleRootGone`), the overflow error (`HandleOverflow`, `Die`)
or the cancelled context (`LoopEnds`). `Fire` and `FireChecks` are `fire`, the trigger goes
through `enqueue` of `main.go` step by step (`EnqLock`, `EnqCheck`, `EnqGet`, `EnqCreate`), which
the tick uses too and the handlers do not. A call of the database may fail: `EnqFails`
gives up, `EnqMisread` is the question whose error `enqueue` ignores and takes for a no. `Reconcile` is cut wherever another goroutine
or the file system can come between: `RecList`, `RecDrop`, `RecHalt`, the look at the
registered watcher (`RecSkip`, `RecKeep`, `RecReplace`, `RecNone`), `RecForget`, `RecStart`, `RecStat`,
`RecWalk`, `RecRegister`. `unseen` is a history variable: the library was watched once, it has
changed, and no scan has started since. `Owed` says which changes that is: below the root
only those in a tree that the watcher was allowed to watch and, with `Behind`, none.

Inotify's queue is external: an event equal to the last one is merged with it, one that
does not fit becomes an overflow event, and `Behind` says whether events may come after
that: they may, as the reader makes room while the kernel goes on. The code reads the
overflow from a channel of its own, but in the order of the queue.

Bounds of its own: one handler at work at a time; a timer that runs out while the same
watcher still waits in `enqueue` waits too; `MaxChanges` counts changes, requests, ticks and faults.

### Sidecars

Videos and the subtitle files beside them. `Owned(v)` is which files `MatchSidecar` and
`ownedByLonger` give to a video; names are model values, `Fits` and `Longer` say how they
begin. A visit of a video (`Find`, `LookUp`, `StoreSummary`, `ReplaceSidecars`) is `scanOne` in
a library scan or after a job, with the summary and the rows stored by two statements
as in the code; `VisitFails` ends it anywhere. `rows` is the table `sidecars` with its ids,
which are counted from the largest one left and so come back.

A job goes through `Pick` (a client sees the rows), `Submit` (the handler looks the id up
and takes the path into the payload), `StatSidecar`, `ChooseDst` (`uniqueDst` under
`recycleMu`), then either `MoveWithin`, a rename, or `OpenCopy`, `CopyDone`, `RemoveSrc`, the
copy across file systems, each of which may fail or be cut off by `Crash`; then
`DeleteRow` by id and the rescan. `bin` is the recycle directory: names consist of stamp,
stem and number, partial copies have a suffix and are overwritten or purged like any
other. `took` is a history variable: the stamp under which each content left its place.

`reuse` records when a rescan gave the id a request names to another sidecar of the same
video: while the client was looking (`seen`), or while the job waited or worked (`queued`).
Nothing keeps a rescan from doing so at any time. `Rewriting` lets somebody write a sidecar
while it is copied (engine.go:930-958), which the code does not notice; with it `Recycled`
fails.

### Streams

One request on one file that stays as it is: `Submit...` are the handlers, `Prepare...`
the engine up to the call of the tool, `RunTool` and `EditFile` the tools, `Verify` and
`VerifyMerge` the checks of the output. A file is a sequence of kinds of streams;
`odd` are the streams on which ffprobe and mkvmerge disagree (mkvmerge does not know a
track, or takes a picture or data for one), and `AtPosition`, `AlignFails`, `MkvIDs` are
`alignMkvIDs` with its comparison of languages and counts. `fault` is what the tool did
wrong without saying so: streams left out, the second half missing, no duration in the
output. Sizes and bit rates are integers per kind of stream, so the estimate of what is
removed, the floor and their roundings are computed as in the code.

The model folds the comparison of codecs into that of languages (both pass what is
unknown and refuse what differs) and keeps durations as one flag. Sizes and rates of
sets of streams are counted as sets of bytes.

`Swapped(t, other)` names what `alignMkvIDs` cannot see: a track of type `t` that only ffprobe
knows, in a file with another stream that mkvmerge alone takes for such a track. The
counts match, the ids are off by one, and with compatible languages nothing notices.
`TracksMeant` and `SizeCheckSound` speak of files without such a pair (`Aligned`), `RemovalExact`
excepts only ids of subtitles that were given to mkvmerge. How many streams are odd
matters otherwise to none of them: `MaxOdd` is a bound.

## 3. What each run checks

| run | instance | states | shows |
|---|---|---|---|
| `job_queue` | a server and an MCP process with a worker each, two ids, two of a stop, a crash and a failed write | 311 k | `OneQueueRunner`, `ExecutedOnce`, `HeldJobIsRunning`, `NoOrphanJob`, `CancelMapsExact`, `CancelHonoured`, `EndIsFinal`, `ImplementsLifecycle` (refinement of `JobLifecycle`), and under fairness `QueuedIsServed`, `RunningEnds`, `StopCompletes` |
| `file_jobs` | two jobs with their rescans, one library scan, three writes, one crash, windows closed | 290 k | `RowDescribesFile`, `NoTempLeft`, `RightTracks`, `NoLostReplacement`, and under fairness `CatalogConverges` |
| `keyed_mutex` | four threads, two keys, three objects | 18 k | `ImplementsPathLock` (refinement of `PathLock`), `EntriesExact`, `EveryoneServed` |
| `library_scan` | two scanners, two files, two roots, one second, one change | 3.7 M | `PrunesOnlyMissing`, `KeepsCurrentRoot` |
| `library_scan_collide` | the same on one root | - | `ScansDoNotCollide` fails (section 8) |
| `library_watch` | two watchers, a local and a remote root, two changes or a change and a fault, a queue of one event, watch limit | 261 k | `ChangeRemembered`, `NoLeakedWatcher`, `OneQueuedScan`, `WholeTreeWatched`, and under fairness `ChangeIsScanned`, `OnlyWantedRuns` |
| `library_watch_overflow` | one watcher, five changes, a queue of two events, `Behind` | - | `WholeTreeWatched` fails (section 8) |
| `sidecars` | two videos, two sidecars with one recycle name, two jobs, one scan, two contents, clock up to 2, retention 1, one event (a failure, a crash, a change of a video or its row) | 3.4 M | `Recycled`, `RightSidecar` |
| `sidecars_reused` | the same | - | `PickedIsDeleted` fails (section 8) |
| `sidecars_stale` | the same without retention | - | `UnchangedMatches` fails (section 8) |
| `streams` | 71 files of two to four streams, two sets of tools, two streams in a removal, two odd streams, one lost stream | 434 k | `RemovalExact`, `TracksMeant`, `SizeCheckSound`, `BatchValid` |
| `streams_truncated` | one file of four streams, tools that agree | - | `NeverTruncated` fails (section 8) |

Each module's run also checks its `TypeOK`.

Why the bounds are enough for the interesting cases. Two ids: one is deleted and
reused while the other is at work; the workers of two processes race for one job. Two
of stop, crash and failed write: ownership passes on twice, a recovery that fails is
followed by a crash, a stop waits for a worker whose last write failed. Three writes:
the file a client saw, a replacement and a job's output, in any order, with a second
job waiting for the lock. A library scan and the rescans of two jobs: a stale result
stored last. Four
threads on two keys: one in each of the states of a lock on one key while the other
key is taken. Two files with `MinStale` 1 and 50 percent: both outcomes of each guard
before a prune. One second: scans that start in the same second and in different ones.
Two watchers: one that was stopped and still runs beside the new one. Two changes of a
library that may be watched from the start: turned off, moved or deleted, and a change
of a file; a root that goes (it comes back for nothing); a directory made and a change
in it, which overflow a queue of one event; two requests at once. The safety invariants
are theorems for any number of changes, and were also explored with three changes and a
fault (5.1 M states: off, a change, and on again), with queues of two and three, and
`ChangeRemembered` with `Behind` and a queue of two (one watcher and five changes, two
watchers and three). Liveness is checked for two changes only. Two sidecars of one recycle name
and two jobs: both want one name in one second, or one job's copy meets what the other
left behind; the clock passes the retention once. One event: one step of a job or a
visit fails, everything else goes on. Files of up to four streams: two audio tracks
with a subtitle before, between or behind them, with known, unknown and too large bit
rates, with and without a picture or data, a file without video, and files with next
to no video, where the floor and the estimate meet; one odd stream shifts every
position behind it, two may cancel out in the counts. The bounds are constants named
`Max...`, and the theorems do not depend on their values.

Each passing property has a mutant in `PROJECT.json` that makes it fail in the same
run: a retry that reuses the row, a process that starts workers without the flock, a
stamp without `max`, a watcher that is replaced without owing a scan, a recycle name
chosen outside the mutex, track ids counted from one, and so on.

## 4. Fairness

* `JobQueue`: weak fairness of every worker and of the goroutine that waits for the
  flock: goroutines that can run do run, every tool is a child process that ends or is
  killed. Weak fairness of `StartProcess`: a supervisor (the container's restart
  policy, the MCP client) starts a process again. Nothing is owed by handlers, stops
  and crashes, which are bounded; cancels may come at any time and need not.
* `FileJobs`: weak fairness of `Find` for library scans (`auto_scan_interval`), strong
  fairness of looking, probing and storing: attempts may fail, but not all of them. Weak
  fairness of `CreateJob`: a handler that has passed the 409 goes on to its INSERT, or a
  closed `submit` window would keep scans waiting for it. Nothing is assumed of jobs that
  are queued or at work, nor of clients. The scans that overlap are a library scan and the
  rescans of both jobs.
* `KeyedMutex`: strong fairness of `Take`, since `sync.Mutex` hands itself to a waiter
  that has starved for a millisecond; weak fairness of `Unlock` and `Unref`, since jobs
  end.
* `LibraryScan`, `Sidecars` and `Streams` have no liveness property.
* `LibraryWatch`: weak fairness of every goroutine and timer (debouncing ends because
  changes are bounded), of the workers that take scan jobs and of `Reconcile`, which the
  monitor calls at every tick; strong fairness of a caller of `enqueue`, since `enqMu`
  hands itself to a waiter that starves. None of the periodic scan,
  which may be turned off, and none of handlers.

## 5. What is proved

All for any values of the constants that satisfy the module's `ConstantsAssumption`
(each is evaluated by the runs of the module). Each module proves an
inductive invariant, and the theorems below follow from it.

* **JobQueueProofs.** `TypeCorrect`, `SingleOwner`, `NoDoubleExecution`,
  `HeldRowsStayRunning`, `CancelMapsCorrect`, `CancelNeverLost`, `NothingLeftBehind`,
  `EndNeverRewritten`, `LifecycleImplemented`. The properties are not inductive alone:
  that no running row of a live worker is failed needs that recovery runs only in the
  holder of the lock before any worker of it is up; that no job has two workers needs
  that a claimed row is running until its worker ends it, which in turn needs that
  neither delete, cancel nor recovery can touch it. `IInv` ties worker states to the
  lock, to the row and to the two maps, and says that a job whose cancel was
  acknowledged has either its mark or its outcome, or was failed by a recovery, for
  which there must have been a crash or a failed write: a graceful stop does not return
  before each worker has written its end. The refinement is the identity on
  `status`: every step is a step of `JobLifecycle` or leaves `status` alone.
* **FileJobsProofs.** `CatalogSound`, `JobsTakeTurns`, `TempRemoved` hold for any
  windows; `TracksAreRight` needs all three closed, `ReplacementKept` only `swap`. Three
  more say what an open window leaves standing: `PrintIsRespected` (`submit` open: a job
  writes only over a file with the fingerprint it was queued with), `EditsAreRight` and
  `OutputsAreRight` (`swap` open: an edit still finds the tracks it was meant for, and a
  remux still puts in place an output made from a file with them; what may be lost is the
  replacement). That an output is whole is no part of them. `LockUsedAsMeant`, for any windows: with `waiting` and `holders` read off
  the jobs' places, `FileJobs` implements `PathLock`, which `KeyedMutex` implements too, so
  that the lock as it is built and the lock as it is used meet in one specification. As
  identities are never reused, `IInv` carries along what follows if the file is still
  the one that was looked at (the selection fits the fingerprint, the stored probe
  fits the stat before it, the output fits what was seen). The checks in the code turn
  these implications into facts; the lock keeps other jobs from undoing them.
* **KeyedMutexProofs.** `TypeCorrect`, `OneHolder`, `NoLeak`, `LockImplemented`: `IInv` says
  that every user of a key has the object of the map, that the holder of an object is
  a user of its key, and that an object counts its users; distinct keys have distinct
  objects. From this each step maps to a step of `PathLock` or to a stutter.
* **LibraryScanProofs.** `PruneSpares` for any windows, `CurrentRootKept` with `Window`
  closed. `IInv` says that at every stage each path of the root a scan walked is
  accounted for: missed, still to come, probed, to be touched, stamped with at least
  the scan's start, or the scan has seen an error and will not prune.
* **LibraryWatchProofs.** `TypeCorrect`, `OneScanQueued`, `WatchersAccounted`, for any capacity
  of the event queue. `IInv` says that of the callers that take `enqMu` one is past it,
  and that while one is about to queue no more are queued than questions failed; and that Reconcile holds a
  watcher exactly while it stops or starts one, when none is registered, and forgets
  none it has not stopped. The order of `stop` and `delete` in `Reconcile` is what the
  second needs. Type correctness needs that a queue longer than the kernel's limit ends
  in an overflow event, and that Reconcile starts watchers only on roots that its list
  had.
* **WatchMemoryProofs.** `WholeTree` under `~Behind`, `ChangeKept` with and without. The invariant of
  the first (`TreeInv`) follows the last event about the subdirectory in each queue: if
  it is a creation the directory is there, if a removal it is not, and without one the
  watch on it is right, unless the root was replaced or an overflow is still to be
  handled. Two lemmas say what the kernel's merging and dropping (`PutRemembers`) and the
  taking of an event (`TailRemembers`) do to that. The invariant of the second
  (`MemoryInv`) says that a library that has been watched always has a watcher or a
  catch-up owed, that the registered watcher runs, has died or is being replaced, and
  that before a library is watched only a handler's scan can be due. A change then
  reaches a watcher whose watch stands on the root (`TreeInv`), or one that Reconcile
  will find dead, detached or on another root. It needs no order of the events: `Tells`
  says that one of those still queued will arm the timer, and only the creation of a
  directory that is gone again does not; whatever is merged or dropped, an event that
  tells, or the overflow, remains (`PutTells`).
* **SidecarsProofs.** `SidecarsType`; `KeptForTheRetention` without `Rewriting`: what a job
  copied is what it removes, names in the recycle directory are chosen by the holder
  of `recycleMu` and nobody else writes there before it lets go, and a purge takes no
  stamp within the retention; `RightOneDeleted`, without any assumption: ids differ, so an
  id names what it named when the client looked until a rescan gives it to another
  sidecar, and then `reuse` says so. A job takes another file than the picked one only
  after `seen`, and deletes another row than its own only after `queued`.
* **StreamsProofs.** `StreamsType`, `BatchKeepsAudio`, `RemovalsExact`, `TracksRight` and
  `SizesChecked`, for any files and any number of odd streams. Where the counts of a type
  are equal and no pair of it is swapped, mkvmerge lists exactly the streams that
  ffprobe does, so that ids are right for all of them or unknown for all; and a file
  passes `verify` with the right number of tracks of each type only if the tool lost
  none of those it was to keep. With ids that are right, what was removed and what is
  left share no bytes and make up the whole; `SizesChecked` is then arithmetic on the
  three cardinalities, with the rounding of each quotient of the code. The proof showed
  an edge that no file of the run had: of an output of fewer than five bytes the floor
  may round down to its half, so that a cut one passes; `SizeCheckSound` now says so.

## 6. What is only model-checked

Liveness (`QueuedIsServed`, `RunningEnds`, `StopCompletes`, `CatalogConverges`,
`EveryoneServed`, `ChangeIsScanned`, `OnlyWantedRuns`) rests on fairness and on `ENABLED`,
which the prover does not handle. The five failing properties are of course not
theorems; one of them, `WholeTreeWatched`, is one under `~Behind`. All other properties of
passing runs are theorems.

Three things the properties leave open on purpose. `PrunesOnlyMissing` excuses a row
that was deleted behind the scan's back (by another scan's prune, or with the library):
no scan can answer for a row it has touched and that somebody then deleted and
stored again with an older stamp. The guard against mass deletion counts in one
statement and deletes in another; that the share still holds at the delete is not
claimed. And `TracksMeant` says of a merge only what follows when the tool does as it is
told: `verifyMerge` asks for at least as many tracks as before (engine.go:483-514), so a
track that was added hides one that was lost.

## 7. What is not modelled, and why

* What tools put into a stream, the tolerances of durations, free space, attributes:
  data. Which outputs `verify` passes is the matter of `Streams`; in `FileJobs` it may pass
  any.
* Jobs without a fingerprint, which are not compared (runner.go:211): only rows from
  before the columns were added have none.
* Replacements with the same size in the same second, and two in-place edits in one
  second: neither the fingerprint nor the cache can tell them apart.
* Optional fields, dry runs, limits on request sizes, the wording of errors and logs.
* Sessions, rate limits and authentication: each operation is one critical section over
  one map and the clock; nothing can come between two of them, and what is left is
  arithmetic on durations. Path allow-listing is string handling.
* The event hub and the transport of MCP: they drop what a slow subscriber has no room
  for, on purpose and without a promise a property could state. What the MCP tools do
  to the queue is in `JobQueue`.
* Of batches the preview and the loop over files; of webhooks the payloads.
* File name parsing; the web UI; container start-up: see the components in
  `PROJECT.json`.
* `lock_other.go`: outside unix there is no flock.
* Of the watcher: when the periodic scan is due (a tick may come at any time), the status
  shown to the user, `stopAll` (it cancels what ends with the process anyway), hidden names,
  trees deeper than one level.

## 8. Where code and documentation disagree

Five claims do not hold without reserve; each has a run that ends in a
counterexample.

* `README.md:3`, muxprune "lets you surgically remove unwanted audio tracks and subtitle
  streams (both embedded and sidecar files)": a request names a sidecar by its row id.
  While a person looks at the list, a rescan that finds another summary stores the rows
  of the video again and may give the id to another sidecar of it; the handler compares
  the video alone (server.go:950), and the job deletes a file nobody picked
  (`sidecars_reused`). A comparison with the path the client saw would close it.
* `CHANGELOG.md:146`, the size floor has a minimum of a tenth, "so a truncated output can
  never atomically replace good media": durations are compared only when both are known,
  and otherwise the size is all there is; where a removed stream has no bit rate, or the file
  no duration, a tenth of the file is enough (engine.go:793-799, `streams_truncated`). What
  the check does notice without durations is `SizeCheckSound`.
* `CHANGELOG.md:67`, "Concurrent scans can't prune each other's rows": a scan that
  started later but walked faster deletes the row of a file that appeared behind it and
  that the older scan has just stored with its older stamp (`library_scan_collide`). The
  next scan stores it again. It takes `MUXPRUNE_WORKERS` of two or more.
* `CHANGELOG.md:154`, "transient errors re-add the full subtree": after an overflow the
  tree is watched again at once, but events from before are still to be handled, by
  path. If the removal of a directory is among them and its re-creation was dropped,
  the watch just placed on the new directory is removed again and nobody notices
  (`library_watch_overflow`). It takes a directory replaced during a flood of events; the
  periodic scan covers for it.
* The comment at scanner.go:242-243, "unchanged=true means the file's probe cache AND
  metadata (nlink, sidecars) all matched": the summary is stored before the rows, and
  a failure or a crash in between makes every later scan take stale rows for right
  (`sidecars_stale`). `UnchangedMatches` has two more ways to fail that need no fault: a
  job deletes a sidecar's row but not its part of the summary, so a sidecar written
  again with the same label right after is taken for known; and the summary knows
  labels, not names, so a renamed sidecar with the same label keeps its old row.

Two more observations, without a run of their own:

* `CHANGELOG.md:152`, "on any ambiguity the file falls back to the ffmpeg path instead of
  risking a wrong-track edit": two streams that are swapped in the sense of section 2
  (`Swapped`) leave equal counts, and with compatible languages and codecs nothing falls
  back. `RemovalExact` and `TracksMeant` except them by name; without the exceptions they
  fail.
* A job deletes the row of its sidecar by id (runner.go:266). If a rescan comes between
  the removal of the file and that statement, the id may be that of another sidecar by
  then, whose row goes instead; the refresh that follows finds the summary unchanged and
  leaves the row missing until a sidecar changes. It takes no failure. `RightSidecar`
  says that nothing but `queued` leads there.

Beside these there are check-then-act windows; the models name them (`Windows`, `Window`,
`Rewriting`), the properties hold with them closed, and opening one in a configuration
shows what it costs. Two are races of the program's own handlers and scans on its own
database, which a transaction, or a comparison in the statement that acts, could close:

* `FileJobs`, `submit`: a scan that stores the new row between the check of the 409 and
  `CreateJob` gives the old selection the new fingerprint (`RightTracks`). The job still
  touches no file but one with that fingerprint (`PrintIsRespected`).
* `LibraryScan`, `Window`: a library that gets another root between the check before the
  prune and the prune (`KeepsCurrentRoot`).

The others are against other programs, which hold no lock of muxprune:

* `FileJobs`, `start`: a replacement between the check of the fingerprint and the first
  look of the engine is processed with the old selection (`RightTracks`). A comparison of
  the engine's own look with the fingerprint would close it for a remux, and leave the run
  of the tool for an edit.
* `FileJobs`, `swap`: a replacement between the comparison and the rename is overwritten
  (`NoLostReplacement`), by an output with the right tracks (`OutputsAreRight`).
* `Sidecars`, `Rewriting`: a sidecar that is written while it is copied is removed, and
  what lies in the recycle directory is not what was there (`Recycled`).

## 9. Plan

Done, in this order: the job queue and its lifecycle; file jobs; the per-path lock;
library scans; watching; sidecars; streams; the refinements of the lifecycle and the
lock; the proofs of each. What could still be added:

1. **Composition** of the queue with file jobs, so that a crash between rename and
   `FinishJob`, the recovery and the retry are one behaviour. `FileJobs` covers the crash and
   the refused retry, `JobQueue` the recovery; the composition would show them together.
2. **Watching and the queue**: scan jobs of several libraries taken by the same workers.
3. **Sidecars with `Rewriting`**: what is left of `Recycled` when a sidecar is written while
   it is copied, as is proved of file jobs with their windows open.
4. **Streams**: codecs as data of their own, which tell some swapped streams apart.
