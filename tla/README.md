# TLA+ specifications of mc

`mc` is a command line client for S3 compatible object stores and local
directories. Many of its commands make one request and print the answer. What
can go wrong in ways a test hardly reaches is elsewhere: in `mc mirror`, which
merges two listings while events change both sides; in the worker pool, the
hand-made channels and the lock that is passed from goroutine to goroutine; in
commands that remove what they have copied; in files that a killed mc leaves
behind; and in commands that look at something, and later act on what they
saw. These modules model those parts, check them with TLC and prove the
central invariants with TLAPS.

Paths below are relative to the repository's `src/`; `cmd/` is `src/cmd/`.

## 1. The system

### 1.1 Components

| Component | Code | State | Operations | Correct when | Module |
|---|---|---|---|---|---|
| Parallel task manager | `cmd/parallel-manager.go` | `workersNum`, WaitGroup, `barrierSync`, `queueCh`, `resultCh`, `stopMonitorCh` | `addWorker`, `monitorProgress`, `queueTask(WithBarrier)`, `stopAndWait` | each queued task runs and is reported once, a barrier task alone; the cap holds; no send on a closed channel; the shutdown ends | `ParallelManager`, `TaskPool` |
| Listing comparison | `cmd/difference.go`, `cmd/mirror-url.go` | the two popped entries, `diffCh`, `URLsCh` | `differenceInternal`, `difference`, `deltaSourceTarget` | only what the source lacks is removed, and all that the options ask for is done | `Difference` |
| Bucket synchronization | `cmd/mirror-main.go`, `cmd/rb-main.go` | bucket listings, the loop's bucket, the context | `bucketDifference`, `deleteBucket`, `mainMirror` again | a bucket of both sides is not touched | `BucketSync` |
| Mirror job | `cmd/mirror-main.go`, `cmd/watch.go`, `cmd/retry.go` | `statusCh`, `errDuringMirror`, the context, the watcher | `startMirror`, `watchMirror`, the tasks, `monitorMirrorStatus`, `retry` | success means in sync, and a quiet mirror is in sync, but for what was denied; it ends | `MirrorJob` |
| Active-active mirror | `cmd/difference.go`, `cmd/mirror-main.go` | times and origins in metadata | `activeActiveModTimeUpdated`, the filter of events | two opposite mirrors come to rest; with clocks that agree, with the newest content | `ActiveActive` |
| PipeChan | `cmd/pipechan.go` | a chain of channels | feeder and copier | first in, first out; bounded; ends | `PipeChan`, `EventQueue` |
| Watchers, notifications | `cmd/watch.go`, `cmd/client-fs.go`, `cmd/client-s3.go`, `pkg/fswatch` | watchpoints, kernel watches, channels | `dispatch`, `internal`, `Watch`, `Join`, `Stop`, `mc watch` | what is told is true in the end; new directories are watched; no send on a closed channel | `LocalWatch` |
| Copy and move | `cmd/cp-url.go`, `cmd/cp-main.go`, `cmd/mv-main.go` | `cpURLsCh`, `statusCh`, totals, `removeManager` | `prepareCopyURLs`, `doCopySession`, `add`, `close` | nothing is lost; success means all copied; moved means removed | `CopyURLs`, `CopySession` |
| Removal | `cmd/rm-main.go`, both `Client.Remove` | `contentCh`, `resultCh`, `perObjectVersions` | `removeSingle`, `listAndRemove` | what the flags choose, and directories emptied by it; what is printed is removed, gone, or not empty | `Removal` |
| Local writes | `cmd/client-fs.go` | target, temporary files, the directory | `put`, `putN`, `deleteFile` | all or nothing, also when mc is killed | `FsPut` |
| S3 listings | `cmd/client-s3.go`, `cmd/ls.go` | the versions delivered | `versionedList`, `listVersionsRoutine` | `--rewind` shows the past | `Rewind` |
| Configuration | `cmd/config-*.go`, `cmd/main.go` | `config.json` | fixes, ten migrations, `alias set`/`remove` | no key of the user is lost | `ConfigMigrate` |
| Shares | `cmd/share-*.go` | the file of URLs | load, expire, save | what was shown is recorded | `ShareDB` |
| Self update | `pkg/selfupdate/apply.go` | three files | prepare, commit, roll back | a whole binary is left | `SelfUpdate` |
| Undo | `cmd/undo-main.go` | versions of the object at hand | `undoURL`, `undoLastNOperations` | the last versions, and no others | `Undo` |
| Performance tests | `cmd/support-perf*.go`, `cmd/speedtest-spinner.go` | `resultCh`, the displays | `runPerfTests` and the tests | each test's own result, and an end | `Perf` |
| Support reports | `cmd/support-{inspect,profile,diag,perf}.go`, `cmd/subnet-file-uploader.go` | three files, SUBNET | save, move, upload | no report is lost but by a `Close` that is not looked at | `SupportReport` |
| cat, head | `cmd/cat-main.go`, `cmd/head-main.go` | size and version of the first request | `catURL`, `catOut`, `headURL` | one version, the part asked for, or its beginning when stdout is closed | `Cat` |
| od | `cmd/od-stream.go`, `cmd/od-main.go` | sizes of parts | `odSetSizes`, `odCopy`, `odDownload` | the range asked for | `Od` |
| Restore from tiers | `cmd/ilm-restore.go` | two passes, two channels | `sendRestoreRequests`, `checkRestoreStatus` | silence means restored | `Restore` |

`PROJECT.json` lists these with their files and status, and the components
without a module.

### 1.2 How they interact

    mainMirror -> runMirror -> BucketSync -> mirror()                [goroutines]
      starter:  listings -> differenceInternal -> diffCh
                -> deltaSourceTarget -> URLsCh -> startMirror -+
      watcher:  fswatch -> PipeChan -> fsClient.Watch -+       |
                S3 notifications ----------------------+       v
                -> Watcher.Join -> watchMirrorEvents -> ParallelManager
      workers:  doMirror, doRemove, doCreateBucket, doDeleteBucket
                -> resultCh = statusCh -> monitorMirrorStatus -> cancel

    doCopySession: lister -> cpURLsCh -> queuer -> ParallelManager
      workers:  doCopy -> fsClient.put; mv: removeManager.add -> contentCh
                -> Client.Remove;  results -> statusCh -> the loop

    rm: List -> listAndRemove -> contentCh -> Client.Remove -> minio-go -> resultCh

The starter and the watcher of a mirror share the pool and the target. The
barrier of bucket tasks is the only order between tasks, and the context the
only way in which one goroutine tells the others to stop. Processes interact
through files: `config.json`, the shares, the binary, local targets.

### 1.3 What is hard

Locks that are handed over; the order in which channels are closed; listings
that end early, or merge by an order they do not have; listings that are stale
when they are acted on; two tasks for one object; one error among many tasks;
events that overtake one another or are dropped; goroutines that wait for each
other; copies whose source is removed behind them; kills between two system
calls or two saves; versions and markers out of order; clocks that differ; a
second request that finds another object than the first. `PROJECT.json` lists
each hazard at its line with the properties about it.

## 2. The modules

`MC*` modules are instances for TLC, `*_proofs` hold theorems. A definition
whose comment begins with *Mutant* belongs to no specification: it is a
plausible mistake in the definition after it, under which the property named in
`PROJECT.json` fails.

**Composition.** `Commands` is the program: `main.go` starts one command, and
what that command's module models happens (`invoked`). `Goroutines` does the
same for the two pieces of machinery that several commands share. `MirrorJob`
uses `TaskPool` by INSTANCE, and `ParallelManager` implements `TaskPool`
(`ImplementsTaskPool`): what the mirror assumes of the pool is checked against
the pool's code. `PipeChan` implements `EventQueue` (`ImplementsEventQueue`,
mapping in `PipeQueue`), which is what `MirrorJob` and `LocalWatch` assume of
the pipe. `CopySession` extends `CopyURLs`, and its workers are those of
`TaskPool`.

| Module | State and actions in terms of the code |
|---|---|
| `ParallelManager` | `producer[p]` walks through `doQueueTask`; `readers`, `writer`, `pending` are Go's RWMutex; `Send` is the rendezvous on `queueCh` and moves the task, and the lock, to the worker; `Return`, `Deliver`, `Unlock`, `Exit` are its loop; `stop` walks through `stopAndWait` and the caller's `close(resultCh)`. A `Wait` that finds the counter increased again panics, as Go's does. What a task does, memory and bandwidth are free choices. |
| `Difference` | a key is its place in the order of listings, `Norm` that of its NFC form; listings end with `eof`, with an error that is passed on, or with one that is only logged; entries differ in aspects, looked at in the code's order. |
| `BucketSync` | names have a place with and without a separator, as `byDirName.Less` sorts; each step of the loop over a difference may fail; `Cancel` is the end of the context, `Restart` an active-active mirror that begins again. |
| `MirrorJob` | objects are version numbers; `ListSource`, `ListTarget` are the moments in which the listings read a key; a copy is `Stat`, `Read`, `Write`; `Retry` is the manager of `--retry`; `Judge` the body of `monitorMirrorStatus`; a result is `denied` when its error is one that the monitor passes over, and `passedOver` has the objects whose last copy or removal ended so. |
| `ActiveActive` | two sites with one object, clocks, the events of each site in order, tasks in any order; a copy carries its origin's time in metadata; `CompareSides` is the comparison at a mirror's start. |
| `PipeChan` | `chain` has every channel the feeder ever made; its two looks at the length are two steps, between which the copier may take elements; the sender drops what does not fit. |
| `LocalWatch` | `kernel` is what inotify watches, `newDirs` the internal events, `inFlight` the goroutines of `dispatch` (they finish in any order or drop); `TakeEvent` looks at the disk when it translates; `closer` closes the channels of `fsClient.Watch`; `join`, `consumer` are `Join` and its caller. |
| `CopyURLs` | paths as sequences of names; the four types of copies of `guessCopyURLType`, operators without state. |
| `CopySession` | lister, queuer, loop, workers (`task[i]`), `removeManager` and the goroutine of `Client.Remove`; a file's content is the path it had at first, so that a loss is seen. |
| `Removal` | the loop, the client and minio-go's batches, each with what it holds in hand; a send and its receive are one step, since the channels are unbuffered. `RemoveFile` is `fsClient.Remove` with the whole of `deleteFile`: an entry may be a directory, knows the directories it is in (`dirs`), and takes with it those that have become empty; `Unsaid` are the outcomes without an error. |
| `FsPut` | each call of `put` and `deleteFile` walks through its system calls, each of which may fail; `Crash` kills mc and leaves what was written, `PowerLoss` stops the machine and may leave less of the target. |
| `Rewind` | users put and delete while the listing goes from object to object; history is kept to compare with. |
| `ConfigMigrate` | each fix and migration loads, converts and saves; `EndMc` may come between any two, `StartMc` begins again; conversions are modelled by what they do to hosts, aliases and keys. |
| `ShareDB` | processes with their copy of the map; `Expire` is time. |
| `SelfUpdate` | the binary's three names, one action per call; updates are numbered, 0 is no file. |
| `Undo` | the loop of `undoURL` over a listing in any order, `undoLast` with `sortObjectVersions`. |
| `Perf` | per test the server's call, the feeder and the display; `perfAt` is `runPerfTests`, `hand` what a feeder is about to send on the one `resultCh`. |
| `SupportReport` | `file` has what is in the temporary file, under the report's name and in the backup; `moveFile` is three actions; `unheard` has what a `Close` has lost whose error is dropped. |
| `Cat` | `stored` grows while the command runs; `Stat` and `Get` are two requests; `OutClosed` is the EPIPE of a reader that closes stdout. |
| `Od` | bytes are their places in the source. |
| `Restore` | `tier` per version, two passes with listings of their own, the server and others beside them. |

## 3. The runs

| Run | Properties | What it shows |
|---|---|---|
| `goroutines` | `BarrierExclusion`, `NoSendOnClosedChannel`, `WorkerCap`, `ImplementsTaskPool`, `QueuedIsDelivered`, `StopAndWaitEnds`; `CapacityBounded`, `ImplementsEventQueue`, `PipeEnds` | the pool implements `TaskPool` and its shutdown ends; the pipe is a queue and ends |
| `commands` | one or more per module: `SharedBucketsKept`, `SyncedOrReported`; `QuietMeansTold`, `NewDirIsWatched`, `PanicNeedsStop`; `NothingLost`, `SuccessMeansCopied`, `MovedMeansRemoved`, `PanicNeedsInterrupt`; `RmExact`; `PutAllOrNothing`; `BinaryKept`; `KeysKept`; `SharesKept`; `UndoneAreLast`; `SitesAgree`; `RewindShowsThePast`; `ResultsInOrder`; `ReportKept`; `CatShowsOneVersion`; `OdPutsItsRange`; `RestoreTold`; and `CommandsTypeOK`, `CommandEnds` | each command keeps what it promises, with its failures, interrupts, kills and the processes beside it, and with the excuses for errors the code drops that the properties name (Observations); cp, mv, rm and the performance tests end |
| `diff_safety` | `RemovalsAreExtraneous`, `MirrorIsTold`, `ComparisonEnds` | removals are right although listings fail; complete listings lead to what the options ask for |
| `mirror_once` | `SuccessMeansSynced`, `MirrorEnds` | no error means in sync, but for what was denied; the job ends |
| `mirror_watch` | `QuietMeansInSync` | a quiet watching job with one worker is in sync, but for what was denied |
| `mirror_buckets` | `BucketBeforeObjects` | no copy overtakes the bucket it needs |
| `diff_listing_error`, `buckets_fs_order`, `mirror_stale_remove`, `mirror_cancel`, `mv_onto_itself`, `config_hosts_lost` | one each, violated | section 4 |

### 3.1 Bounds, and why they are enough

* *Pool*: two producers with one task, alone or with a barrier, three worker
  identities, a cap of two and a monitor that asks beyond it. One holder and
  one who waits are there in every order; for more of either, the theorems of
  section 5.
* *Pipe*: a first capacity of 2, so that half and a quarter differ from empty,
  seven elements, a chain of two that fills up.
* *Comparison*: four keys, one of each kind (excluded by name, by class,
  invalid, plain); a step of the loop looks at one key of each side. A failing
  listing is cut at every place; `diffCh` has room for two and fills.
* *Buckets*: `a`, `a-b`, `b` have the only interesting order, a name that is a
  prefix of one that goes on with a byte less than the separator. Every
  combination of the flags, `--fake` with `--remove` and the creation of buckets.
* *Mirror job*: two objects, two workers and one retry in `mirror_once`; one
  object and three changes (put, delete, put) in the runs that watch. Copies and
  removals fail, or are denied, at any attempt; the options of `mirror_once` are
  those of `OnceOrWatch`: `--remove --overwrite --retry`,
  `--remove --skip-errors`, and `--watch --overwrite`.
* *Watch*: a file in the root and one in a directory that comes and goes, three
  changes (`MaxFsChanges`).
* *Copies*: up to three files, one of them missing, given twice or of the name
  of another; two workers; room for one content in `contentCh`, so that it
  fills as its 10000 places do for more files.
* *Removal*: listings of two buckets, versions, markers, prefixes and errors;
  batches of two, so that statuses of one meet contents of the next; on the file
  system a directory with two files, one of them young, and files and
  directories that others have removed or filled.
* *Writes*: two writers and one removal; sources shorter and longer than
  claimed, and of unknown size; every call fails, mc is killed or the power
  fails (`PutErrors`). *Update*: three updates. *Shares*: two
  processes with two URLs. *Start*: a file of every version, three starts, the
  names of clouds that `migrateConfigV6ToV7` counts through (`Clouds`).
* *Active-active*: two changes of users, two starts of mirrors
  (`MaxMirrorStarts`), one echo of an upload in parts (`MaxEchoes`). After a
  clash, a state in which the code does not promise anything (see
  `SitesAgree`), nothing new begins.
* *Rewind*: three objects in two buckets, three puts or deletes. *Undo*: the
  listings of `MCCommands`, in orders other than that of time.
* *Perf*: the four tests of the default, or one; one result of a stream before
  its last. *Reports*: each kind with each failure, and with a `Close`
  that fails unheard. *Cat*: two objects with two versions and a third put
  meanwhile; stdout may be closed at any byte. *Od*: sizes 0 to 5 and operands 0 to 3:
  each of the cases with and without rest. *Restore*: two objects, up to three
  versions, one change by others (`MaxRestoreChanges`), errors of listings and
  of the server's tier.

The comparison's runs (`diff_safety`, `diff_listing_error`) and
`buckets_fs_order` are checked for deadlock. The other runs say `CHECK_DEADLOCK FALSE`:
commands exit, a watching mirror and a pipe wait for what need not come, and
`Stop` may hang. No run uses symmetry.

### 3.2 Fairness

* *Pool* (`PoolFairness`): Go runs every goroutine that can run, so workers,
  the monitor's `addWorker` and the caller of `stopAndWait` have weak fairness.
  A producer that waits for the lock or for a worker has strong fairness:
  waiters of a channel are served in order, and an announced writer keeps new
  readers out. Producers need not queue, the ticker need not tick. Tasks
  return, and `resultCh` is drained.
* *Pipe*: both goroutines run and the receiver goes on; nobody need send.
* *Comparison*: both goroutines run.
* *Mirror* (`mirror_once`): goroutines run, tasks and requests return, and a
  `select` that may always choose the cancelled context eventually does (strong
  for `WatcherStops`). Users and failures have none. `MirrorEnds` is about a
  mirror that does not watch, and one that watches and has no event on its way
  when it is cancelled; `mirror_cancel` shows the rest.
* *Commands* (`CommandsFairness`): each goroutine of cp, mv, rm and perf runs,
  calls of the system and of the server return; no user need interrupt or leave
  a display. `CommandEnds` names what does hang (`SessionOver`: a lock that
  `add` never gives back, a remover that has given up while `contentCh` is
  full).

## 4. What was found

Each finding has a run with its counterexample.

* `mirror_stale_remove`: with `--watch --remove`, an object that is put after
  the source's listing has passed its key, and copied by its event before the
  target's listing reaches it, is taken for extraneous and removed.
* `mirror_cancel`: `Watcher.Stop` waits for the goroutine of `Join`, which
  waits for the loop that called `Stop` to receive an event.
* `diff_listing_error`: `difference` logs "retrying.." for an error it does not
  name and does not retry; the mirror takes the comparison for complete.
* `buckets_fs_order`: `byDirName.Less` adds a separator to one of two
  directories only; with `a` and `a-b` on both sides a bucket is deleted.
* `mv_onto_itself`: `mv d/x d/y d/` copies `d/x` onto itself and removes it;
  the check for it looks at two arguments only.
* `config_hosts_lost`: `newConfigV8` begins with the present version, so that a
  configuration of version 7 is saved as one of version 10 whose hosts nothing
  reads.

### Observations

Modelled as the code has them, or met while modelling; without a run of their
own.

*Mirror, what is no error.* `monitorMirrorStatus` does not count a copy that
fails with `PathInsufficientPermission` or with an error of `isErrIgnored`
(`mirror-main.go:597-604`, `utils.go:45-61`: broken and circular links, paths
that are gone, and others), and `doRemove` makes no error of a removal that is
refused (`mirror-main.go:402-405`). A mirror exits with 0, and a watching one
has no error behind it, while such an object is not in sync. `SuccessMeansSynced`
and `QuietMeansInSync` hold of all other objects (`passedOver`), and of these
again once a later copy or removal succeeds.

*Mirror, comparison.* A key whose NFC form sorts elsewhere than its bytes
breaks `RemovalsAreExtraneous` (`Norm <- Decomposed` in `MCDifference`); the
runs take names whose NFC forms keep the order, and `RemovalsSafe` assumes it as
`OrderKept`, so that no property catches this hazard. An invalid key of both sides may be reported as
extraneous; both properties speak of valid keys. With two workers a copy and a
removal of one object may change places and leave a deleted object on the
target (`mirror-main.go:756`; `MaxWorkers = 2` in `mirror_watch.cfg`).
`--exclude-bucket` is looked at before a bucket is made, not before one is
deleted (`mirror-main.go:1066`). `difference.go:352` asks that user's metadata
and metadata both differ. The branch `differInType` would go on without a new
entry (`difference.go:333`), but neither of its callers lists what leads there.
Of an object the size of the event or listing limits what is read, although it
may have been replaced (`common-methods.go:508`).

*Active-active.* That the sites agree (`SitesAgree`) is said of clocks that
agree and changes that do not clash; which content wins when the clocks differ is
decided by the times and origins of `difference.go:127`, and no property says
that it is the newer one. Sizes are compared before times (`difference.go:335`); objects
uploaded in parts lose what marks them as copies and are copied back for ever
(`mirror-main.go:723`); a start copies what is there already; a restart during
a deletion brings the object back; the filter by user agent looks for a
substring, so that the name of one alias in that of another matches.

*Pool.* `stopAndWait` stops the monitor after `wg.Wait()`: a tick between the
last `Done` and the return of `Wait` adds a worker, and the WaitGroup panics
(`parallel-manager.go:231`). PipeChan's comment says that it never blocks; it
does once the chain is full.

*Watch.* Stopping `fsClient.Watch` closes channels under a goroutine that may
be sending (`PanicNeedsStop` says that nothing less does); a directory that is
removed and made again is not watched; what is put into a new directory before
its watch is there is not reported; events overtake one another; an overflow of
inotify is silent; `find --watch` begins to watch after its listing.

*cp, mv, rm.* With one recursive source the check for a copy into itself never
applies; `totalBytes` is shadowed (`cp-main.go:349`); an error of the listing
after the first item gives exit status 0 (`:542`); totals are written by two
goroutines (`:399`). `removeManager.add` keeps its lock when the client cannot
be made (`mv-main.go:180`); an interrupt closes `contentCh` under the workers
(`:202`). At a change of buckets the status of the last object of the old one
is attributed to the new one (`client-s3.go:1291`); `deleteBucket` ignores
`content.Err`. On the file system `deleteFile` has no error for a path that is
gone nor for a directory that is not empty (`client-fs.go:668-677`), so that rm
prints `Removed` for what it has not removed and exits with 0 (`RmExact` names
both), and the branch for a path that is gone (`:726`) is never reached; and it
removes directories above that have become empty, also young ones that
`--older-than` leaves out, and reports that as the error of the file when it
cannot.

*Files.* Neither `put` nor `putN` calls `Sync` before the rename
(`client-fs.go:337-381`, `:498-535`): after a power failure the target may be
short, empty or not there, and `PutAllOrNothing` promises nothing then. A kill
in `put` leaves a temporary file that later listings show; a
claim of 0 or less switches off the check of the size. `deleteFile` may remove
the directory between a writer's `MkdirAll` and `OpenFile`.

*Configuration, shares, update.* `fixConfigV6` refuses any pattern, so that a
migration from version 5 or older that is interrupted at version 6 makes mc
refuse to start; version 5 to 6 collapses all hosts with s3 in their name; hosts
without a scheme are dropped. `share list` rewrites the file; `share upload`
ignores the error of its save; overlapping commands lose records. `Close` of
the new binary is not looked at; overlapping updates can leave a part of one.

*Listings.* With `--rewind`, a server without versions has its present listed,
after what was delivered already; `ls --summarize --rewind` counts all
versions. *Undo.* Versions are sorted by time with `sort.Slice`, which leaves open which
of two of the same time comes first; the model has versions of different times.
The exit status of an object is overwritten by the next one's;
a latest version in GLACIER is passed over, and an older one removed.

*Support.* Quitting the display of a test goes on with the next test, and a part
of a stream is shown as final; a failed test leaves no trace in the report.
`moveFile` removes its source before it closes its target, and drops the error
of that `Close` (`support-profile.go:159-170`); `zipPerfResult` writes the end of
the zip in deferred calls whose errors it drops (`support-perf.go:574-577`). A
full disk can so leave a broken report, saved or uploaded as if whole: the excuse
`unheard` of `ReportKept`. With an upload that
is encrypted, an inner `e` hides the outer one (`subnet-file-uploader.go:141`),
and the error is added to a stream that is already closed (`:113`).
`support diag --json` in an airgapped setup prints and writes no file.

*cat, head.* When the reader closes stdout (EPIPE), `catOut` and `headOut`
return without an error (`cat-main.go:302`, `head-main.go:155`), and the command
reads the next argument and may exit with 0 having shown the beginning of what
it was asked for; the size of a tail is not compared then.

*od, restore, others.* `multiGet` asks for the last part every time
(`od-stream.go:278`; `OdAsk`); an empty source panics after it was copied
(`:175`); `size=` with `skip=` and without `parts=` promises more than there is
and fails; a source smaller than a part is put whole whatever `skip=` says.
`ilm restore` reports the number of requests as restored in JSON, counts names
and not versions, and exits with 0. `put` prints an error of its preparation
and exits with 0; `retention` and `legalhold` do so when some, or all, fail;
`batch status --json` waits for ever when the stream of metrics ends.

## 5. What is proved

Every theorem holds for all values of the constants that satisfy the module's
named assumptions; TLC evaluates the assumptions in the runs. Each safety
invariant of a passing run has a theorem here, and so has the refinement of the
pool. What is a hypothesis of a theorem, and not an assumption of its module,
stands in its statement.

The proofs are in `Goroutines_proofs` (pool and pipe), `Difference_proofs`,
`MirrorJob_proofs`, `LocalWatch_proofs`, `Sessions_proofs` (cp and mv, rm, the
buckets of a mirror, perf), `Files_proofs` (local writes, update, shares,
reports, od, configuration), `Objects_proofs` (undo, rewind, cat, restore,
active-active) and `Commands_proofs`, which brings them together.

| Theorem | Assumptions | Inductive invariant, and why |
|---|---|---|
| `ParallelManager`: `TypeCorrect`, `LockBalanced`, `BarrierIsExclusive` | `PoolAssumption`, `NoTaskAssumption` | "no task beside a barrier task" connects no task with the lock; `LockInv` does: `readers` counts those who hold a task under the shared lock, `writer` is held exactly when one carries a barrier task, never both. The hand-over exchanges one holder for another (`CardSwap`). |
| `CapKept`, `NoSendOnClosed` | same | counters are cardinalities, one case per action; channels close only after the producers and `wg = 0`, which means that no worker is alive (`ClosedInv`) |
| `PoolImplementsTaskPool` | same | `PoolInv`: the above, and `IdInv`: nobody carries another's task, a carried task has a result exactly when its worker is about to unlock, and a task that is not queued is with nobody. Each action of the pool then is one of `Submit`, `Start`, `Hand`, `Finish`, `Close` of `TaskPool`, or changes nothing of it (`StepMaps`). |
| `Difference`: `TypeCorrect`, `RemovalsSafe` | `DifferenceAssumption`, and `OrderKept` as hypothesis | `RemovalInv`: what `diffCh` still says of the target is true, and a valid key of the source that is not left was popped before all that is left of the target, or lies behind the source's error: why the loop must stop at an error before it looks at the target again |
| `Difference`: `MirrorIsToldAll` | the same | `SaidInv`: whatever was popped has been said, in `urls` or still in `diffCh`, and all that is said is true; each target key popped is below all that is left of the source, the counterpart of `PoppedOrCut`, so that a key found on one side only is on that side only |
| `PipeChan`: `CapacityKept` | `PipeAssumption` | `ChainInv`: channels of one, two or four times the first size that hold no more than the first, and a feeder past its looks had room and still has |
| `MirrorJob`: `MirrorTypeCorrect` | `MirrorAssumption`, `NoTaskAssumption` | `TypeInv`: the pool has a task exactly as long as it is neither new nor over |
| `MirrorSuccessSynced` | same | `SyncInv` and `EndInv`: what a listing said of a key holds until the key is compared (`SeenInv`), a key that was compared and is out of step has a url, or a task, on its way (`WayInv`, `TaskInv`); the goroutines end in an order in which whoever ends last knows of every error. An object is excused from the moment its copy or removal was denied until one succeeds (`passedOver`), because nothing hears of that error. |
| `MirrorBucketFirst` | same | `BucketInv`: a bucket task is alone (`AloneInv`); what events are still to be seen (`QueueInv`) and what a put may then rely on (`FindsInv`) |
| `QuietIsInSync` | same, and as hypotheses one worker and no `--remove` | `OneInv`: one task in hand; `LastInv`: of the events about an object still ahead, the last tells the truth; `QuietInv`: an object that users have changed has an event ahead, or the task of its last event waiting, or is settled, and one that nobody changed is the comparison's; an object whose task was denied is settled too, as one that is passed over. With `--remove` it is false (`mirror_stale_remove`), with two workers two tasks for one object may end in either order. |
| `SelfUpdate`: `UpdateTypeCorrect`, `BinaryAlwaysKept` | `UpdatesAssumption` | while updates do not overlap one at most is under way (`OneAtATime`), the names have different files (`NamesApart`), and at each place of the run it is known which of them is whole (`UpdateInv`) |
| `FsPut`: `PutsAreAtomic` | `StreamsAssumption` | `PutIInv`: a temporary file that was verified is as long as claimed (`TempsInv`), and the target is one that was renamed (`TargetInv`), which a kill keeps. A power failure may shorten the target, after which the theorem says nothing of it. |
| `PutTypeCorrect` | same | `PutLengths`: a temporary file is no longer than its stream, and where a file is there is its directory |
| `CopySession`: `CopyTypeCorrect`, `SuccessIsCopied`, `PanicsNeedInterrupts` | `CopyAssumption`, `ItemsAssumption` | `CopyIInv`: the queuer is behind the lister and no item is passed over but by an error, outcomes agree with `retErr`, and the loop ends only when all tasks are over or at an interrupt; for the types, `CopyBounds`: no more workers are busy than there may be, and the channel to the remover is within its capacity |
| `CopySession`: `MovedIsRemoved` | same, and `TargetsApart` as hypothesis: no item has a source as its target | `MoveInv`: the source of an item that was copied is with its worker, in `contentCh` or gone (`SourceInv`), and the remover ends behind the last source, `mv` behind the remover (`RemoverInv`) |
| `CopySession`: `NothingIsLost` | same, and `TargetsNew`: besides, each item has a target of its own that is no file yet | `KeepInv`: originals and copies have the content they should (`ContentInv`), and what is in `contentCh`, or gone, was copied (`RemovalInv`). `mv_onto_itself` shows that `TargetsApart` is needed; all calls of `SomeSessions` satisfy both. |
| `Removal`: `RmTypeCorrect`, `RemovalIsExact` | `RemovalAssumption` | `RmIInv` follows each entry of a listing from `listAndRemove` through `contentCh`, the client's batch and minio-go's to the results: what is to be removed is in one of these places, was tried, or the loop has failed (`NoneLost`); an error is on its way until the loop hears of it (`ErrorsHeard`), and a success is of something removed, or of what `deleteFile` has no error for (`SuccessTrue`); a directory that went had nothing left but what others had removed (`RemovedRight`, `Emptied`); so a loop that ends without an error has tried all (`AllTried`) |
| `BucketSync`: `SharedBucketsAreKept`, `BucketsSynced`, `BucketTypeCorrect` | `BucketSyncAssumption`, and that the listings are by name: `srcKind = "s3"`, for the types `BetweenS3` | `BsIInv`: the listings are sorted (`BsSorted`), what is left of the target's lies behind every source that was popped (`BsMerge`), and each bucket that is owed a removal, or to be made, is still listed, said or in hand (`BsToRemove`, `BsToMake`). A local directory is listed in another order: `buckets_fs_order`. |
| `Perf`: `PerfTypeCorrect`, `ResultsAreInOrder` | `PerfAssumption` | `OneFeeder`: only the feeder of the current test is at work, and not after its result was collected; `OwnResults`: what a feeder has in hand is its test's |
| `LocalWatch`: `WatchTypeCorrect`, `QuietIsTold` | `WatchAssumption` | `ToldInv`: of the events and messages about a file, in the order in which they will be heard, the last tells the truth (`Follows`): why an event that overtakes another of its file needs an excuse, and why a put that finds its file gone may be passed over |
| `LocalWatch`: `NewDirsAreWatched` | same | `NodeInv`: a directory without an inotify watch has an event or a place in `newDirs` on its way, and what is there has its watch or was removed once |
| `LocalWatch`: `PanicsNeedStops` | same | only the closer of a stopped watcher closes what another goroutine sends on (`PipeInv`, `ChansInv`) |
| `ShareDB`: `ShareTypeCorrect`, `SharesAreKept` | `ShareAssumption` | `ShareIInv`: a process alone has in memory what is in the file, less what has expired (`ShownInv`, `Recorded`), and nothing is anywhere that was not shown (`OnlyShown`) |
| `SupportReport`: `SupportTypeCorrect`, `ReportIsKept` | `SupportAssumption` | `ReportIInv`: at each place of the command it is known which of the three files has the whole report (`WholeReport`), which the one it takes the place of (`OldInPlace`), and what was said of it (`ToldTrue`); what a `Close` has lost unheard is in `unheard` from then on |
| `Od`: `OdTypeCorrect`, `RangeIsPut` | `OdAssumption` | `OdPlanned`: the plan of an upload is what `odSetSizes` makes of the operands; `IsRun`: the parts together are one run of bytes without a gap, also where the last is short |
| `ConfigMigrate`: `ConfigTypeCorrect` | `ConfigAssumption` | `ConfigOK`: each conversion makes its keys of those it was given (`MadeOf`), which is why none is made up |
| `ConfigMigrate`: `KeysAreKept` | same | `KeysInv`: where the user's keys are, version by version: as in the file that was found before version 6 (`SameAs`), in 6 under a host of which no other takes the name (`SafeSix`, `HoldsSafely`), in 7 and from 8 on under an alias, of a name that is not reserved before 8 (`HasKey`, `HasSame`). The version in memory tells which functions are still to come (`PlaceInv`), and mc refuses only a file it found in version 6 with a `*` in a host, or one that a killed mc has left in version 6 (`RefusedInv`). What a conversion does lose is `MayLose`, what a user replaces `KeysReplaced`. |
| `Undo`: `UndoTypeCorrect`, `LastAreUndone` | `UndoAssumption` | `UndoScan`: while the loop is within the versions of an object (`AtObject`) it has those seen so far, an object it has left is done and one to come untouched (`DoneBy`), and without `--recursive` it ends at the first object that is not the target (`ComeTo`) |
| `Rewind`: `RewindTypeCorrect`, `PastIsShown` | `RewindAssumption` | `Chronicle`: of what is stored now, the versions up to any past moment tell whether the object was there; `RewindListed`: of an object all that is asked for has been delivered, and nothing else |
| `Cat`: `CatTypeCorrect`, `OneVersionIsShown` | `CatAssumption` | `CatLooked`: how the version a request found is related to the one that is meant, although more are put meanwhile; `CatWritten`: what was written for an argument is of one version, from the offset, of the tail or of the head that was asked for; from the argument at which stdout was closed on, of the beginning of it |
| `Restore`: `RestoreTypeCorrect`, `RestoreIsTold` | `RestoreAssumption` | `StillMeant`, `Awaited`: what is to be restored is still in the scope of the command and, once the second pass has its listing, is back or has its entry to come; `AskedCounted`: what the server was asked for was counted; `NumbersFree`: what others put has a number of its own |
| `ActiveActive`: `TwinTypeCorrect`, `TwinsAgree` | `TwinAssumption` | `CopiesOwed` counts: the copies made, and those that events, tasks and comparisons may still ask for, are no more than changes, starts and echoes, which is why an object does not go round for ever. `TwinCalm`: as long as no two changes met, a site has it and keeps it (`TwinHas`), and if the other has an old object an event, a task or a comparison is on its way; or the last change was a removal (`TwinHasNot`), and for a site that still has the object the removal is on its way. |
| `Commands`: `CommandsDoWhatTheySay`, `CommandsTypeCorrect` | those of all modules, and for the types of a mirror `BetweenS3` | each step of the program is a step of the module of the command that was invoked and leaves the others alone, so that what is proved of a module is true of the program |

Only model-checked: liveness and everything with ENABLED (`MirrorEnds`,
`ComparisonEnds`, `PipeEnds`, `QueuedIsDelivered`, `StopAndWaitEnds`,
`CommandEnds`: out of the prover's reach); the refinement
`ImplementsEventQueue`, since the content of a chain of channels is a fold, and
what a fold computes is an induction over data. Three invariants need
their hypotheses because the code does not keep them otherwise: the two about
the buckets when a local directory is mirrored (`buckets_fs_order`), and `QuietMeansInSync`
with `--remove` or with more workers (`mirror_stale_remove`).

## 6. Not modelled

* **Single requests.** Most of `cmd/admin-*.go`, `cmd/replicate-*.go`,
  `cmd/idp*.go`, `cmd/ilm-*.go`, `cmd/batch-*.go`, `cmd/event-*.go`, `tag`,
  `quota`, `retention`, `legalhold`, `encrypt`, `version`, `cors`, `license`:
  flags, one request of minio-go or madmin-go, and a display of the answer. A
  model would restate the call.
* **Display.** Progress bars, tables, spinners, completion, messages
  (`String`, `JSON`) and `pkg/colorjson`, which is the standard library's JSON
  with colours: no state another part reads. Most of the source lines are of
  these two kinds, or are flags and help texts.
* **Functions of strings.** `pkg/shlex`, durations, wildcards, URL parsing:
  what matters is in their characters, which tests reach better.
* **Libraries.** minio-go, madmin-go, quick, notify's trees of other systems:
  modelled as external by what the code sees of them, or left out.
* **Transport helpers**, error traces, platform helpers: wrappers without a
  protocol.
* **Inside modelled components**: `--fake` and age filters of the mirror,
  several overlapping watches, incomplete uploads and force deletes of `rm`,
  checks of an alias against its server, two processes that save the
  configuration at once (as `ShareDB` shows for the shares), the sessions of
  `put`, `get` and `pipe`, registration with SUBNET.
