# PSVitaAlive: TLA+ models and proofs

PSVitaAlive is an application store that runs on the PS Vita.  This directory
holds TLA+ models of the client (`src/Client PSVitaAlive/`), the TLC
configurations that check them and TLAPS proofs of what matters most.  Paths
below are relative to `src/Client PSVitaAlive/`; `IC` stands for
`source/installer/install_controller.cpp`, `DM` for
`source/network/download_manager.cpp`, `HC` for `source/network/http_client.cpp`,
`PAD` for `source/network/parallel_archive_download.cpp` and `FCS` for
`source/ui/full_catalog_screen.cpp`.

    tlc -workers 2 -config ZipRecovery.cfg MCZipRecovery
    tlapm ZipRecoveryProofs.tla

`PROJECT.json` lists the components, the runs, the mutation each property is
known to catch, the source lines of every definition, the hazards and the
theorems.

## 1. The system

The client is one process with a main (UI) thread and a few workers.

| Component | State it keeps | Operations | Talks to |
|---|---|---|---|
| Install controller (IC) | one request: `state_`, shell lock, `workerDone_`, active job, cancel flag, deferred PKG, recovery offer | request, pause, resume, cancel, acknowledge, resolve, `status()`, the worker | UI thread calls it every frame; its worker runs the download manager and the installers |
| ZIP recovery (in IC) | files under `downloads/jobs/<id>/` and `manual/<key>/`, markers, sidecars | save, extract, keep, delete, recover at startup | download manager's purge, storage screen |
| Download manager (DM) | `jobs_`, two flags per job, files of a job | enqueue, processQueue, pause, resume, cancel, clean up, purge | HTTP client, parallel download |
| Parallel range download (PAD) | ranges, checkpoint file | 2 or 4 range workers, resume, fall back to serial | HTTP client |
| HTTP client (HC) | none that outlives a call | GET with retries, ranges, redirects | network |
| Installers | staging directory, the promoter's state, receipts | extract, build package, promote, copy, refresh | archive extractor, firmware |
| Plugin installation | `.new`, `.bak`, `config.txt` | copy, activate, register, undo | file system |
| Archive extractor | staging tree, list of created files | check the room, extract, move folders into place, reclaim | file system |
| Installed data | a snapshot, an index of sizes with `.bak` and `.tmp`, one worker | scan, measure, uninstall, remove | file system, firmware |
| Storage maintenance | listings | scan, delete, clean up | file system |
| Catalog manager | four catalogs in memory, a cache on disk, a refresh worker | load, refresh, take result | HTTP client, UI |
| Image cache | bounded queue, ready and failed sets, worker | request, cancel, retry, prune | HTTP client, UI |
| Self update | staged package, hand-off to a second program | check, download, stage, launch | firmware, `updater/main.c` |
| Update decision | receipts of installed releases | compare | catalog |
| Diagnostic logger | ring of 64 lines, worker | log, flush, shutdown | every thread |
| Catalog screen (FCS) | fifteen dialogs with a flag each, the Install All wizard, queue and report, the queue of essential plugins, the restart dialog, its own worker threads | buttons, touch, the end of a frame | all of the above, through `main.cpp` |

Outside the client are Python scripts that build the catalog, a static web page
and generated JSON.

What makes it hard: the UI thread and the install worker share a controller with
no mutex, only atomics; the console may lose power between any two renames of an
archive of several gigabytes; the file system has no multi-file transaction; the
link goes down at any time; a 12,000-line screen knows of its jobs only what it
is told once per frame; and every early return of a 650-line worker must leave
jobs, flags and lock as the UI expects them.

What makes each component correct:

* ZIP recovery: an archive that was downloaded is not lost before it is
  extracted or given up; two archives are not mixed; a start completes what the
  last one left.
* Install controller: one request at a time; a result is final when it is shown;
  a cancellation counts; a paused download can be resumed; the worker ends and
  the shell is unlocked.
* Download manager, parallel download, HTTP client: every byte is written where
  it belongs, from one version of the file; a checkpoint never claims more than
  is on disk; the three nested retry loops end.
* Plugins, extraction, installers: a failure or a power cut leaves the old or the
  new version; what was the user's stays; what was staged goes.
* Installed data: nothing another title keeps is removed; a size from before a
  removal is not shown, which the code keeps only for titles whose roots do not
  overlap (section 10); the menu comes to rest.
* Self update: what is handed to the helper is one whole package; the client
  gets to the release.
* Catalog, images: a late result is dropped; a request is answered or reported
  as failed.
* Logger: lines are written in order, no wake is lost, shutdown writes the rest.
* Catalog screen: the report of a queue says what happened; a queue always has
  its job; a due restart is kept; two users of the storage exclude each other.

## 2. Plan

Ordered by what a user loses when it goes wrong.

| # | Modules | Abstract specification | Checked | Proved |
|---|---|---|---|---|
| 1 | `ArchiveVault`, `ZipRecovery` | an archive is absent, held, dropped | 4 properties | 5 theorems, `ZipRecoveryProofs` |
| 2 | `InstallJob` | a request and its single result (`JobsOwned`) | 4 | 5, `InstallJobProofs` |
| 3 | `FileTransfer` | a file received once, whole | 3 | 3, `DownloadProofs` |
| 4 | `PluginInstall` | the old or the new version | 3 | 4, `PluginInstallProofs` |
| 5 | `ZipExtract` | all of an archive, or what was there | 3, 1 refuted | 3, `ZipExtractProofs` |
| 6 | `VpkInstall` | the old or the new application | 3, 1 refuted | 2, `HomebrewProofs` |
| 7 | `SelfUpdate` | the release, in the end | 2 | 2, `DownloadProofs` |
| 8 | `InstalledData` | | 4, 1 refuted | 4, `HomebrewProofs` |
| 9 | `CatalogRefresh` | the newest version shown so far | 4 | 3, `CatalogProofs` |
| 10 | `ImageCache` | | 2 | 3, `WorkerProofs` |
| 11 | `DiagnosticLogger` | a log with gaps | 3 | 3, `WorkerProofs` |
| 12 | `InstallAll`, `CatalogScreen` | the report is what happened | 5 | 5, `CatalogProofs` |

How they fit together.  `CatalogScreen` extends `InstallAll` and composes the
screen with the install service as `main.cpp` shows it to the screen; that
service's inside is `InstallJob`.  `InstallJob` treats as one step what other
modules take apart: the transfer (`HttpReturns`) is `FileTransfer`, saving a ZIP
(`PersistZip`) is `ZipRecovery`, and its install steps are `ZipExtract`,
`VpkInstall` and `PluginInstall`.  `ZipRecovery` implements `ArchiveVault`.
`SelfUpdate` shares the staging directory with `VpkInstall` and models what the
two do to each other.  The others share no state and stand alone.

Twelve runs pass, one for each row; run, cfg and the module it checks share one name, and
`MC<module>` gives the constants that are not numbers.  Three more cfgs hold a
counterexample each and are not among the twelve: with `StagedKept.cfg` (`MCZipExtract`),
`NestedLeft.cfg` (`MCVpkInstall`) and `SharedSize.cfg` (`MCInstalledData`) TLC reports the
violation of the one property they name, which a comment or a document states of the code
(section 15).  A module of proofs may extend two components: their variables are disjoint
and the theorems of one do not use the other.

## 3. ZipRecovery

| Model | Code |
|---|---|
| `src[j]`, `marker[j]`, `dest[j]` | the parts in a job's directory; the text of `.psva_keep_zip`; the path it names |
| `store[b][s]`, `info[b]` | the files of base name `b` in `manual/<key>/` and whose bytes they hold; its `.info.txt`, perhaps torn |
| `Persist*` | `persistPendingZipRecovery` (IC:494-591), one step per file operation |
| `Extract*`, `Keep`, `Discard`, `Erase*`, `DeleteSaved`, `Maintain*` | the offline worker (IC:1338-1403), `resolveZipRecovery`, `removeSavedZipArchive`, `deleteSavedZip`, the storage screen |
| `Recover*` | `recoverInterruptedZipMoves` (IC:193-237), one step per file operation |
| `Purge*`, `CleanEnd` | `purgeIncompleteJobs` (DM:730-820), `cleanupTransient` |
| `Crash`, `CrashInWrite` | a power cut; the write in progress may leave any prefix |

A text is absent, empty, cut in its header, cut in its target line or whole
(`Text`): exactly the cases its readers tell apart.  All jobs want the same key
and file name, since only then can they disturb each other.  The last of the
`NumBases` names is `<stem>_recovered`, which the code takes without a test when
all others are taken; one name before it is enough to reach that case with two
jobs.

The run has archives of two and of four ranges and a single file an older client
left, and three faults: `NoLoss`, `NeverOverwrites`, `RecoveryCompletes`, and
`HeldUntilDropped`, which is the specification of `ArchiveVault` under the
refinement mapping.  Three faults allow a failed rename, its failed rollback and a
power cut in the recovery that follows, which is the deepest nesting the code
distinguishes; a fourth repeats one of them.  Fairness: the worker and the startup
code never wait for anyone, so each of `Save`, `Extract`, `Erase` and `Startup` is
weakly fair; the user and the power are not.

## 4. InstallJob

The UI thread runs a frame as `status()` (`Poll`, `PollDismiss`, `PollBgdl`) and
then at most one call; the worker takes its steps in between.

| Model | Code |
|---|---|
| `state`, `shell`, `done`, `active`, `kind`, `stop`, `bgdl`, `reboot`, `recovery` | the members of the controller of like name |
| `shown` | what `status()` returned, which the screen acts on |
| `job[j]` | an entry of `jobs_`: state, file, `cancelRequested`, `pauseRequested` |
| `pc`, `w` | the worker's place in `runJob` and `workerMain`, and its locals |
| `Cancel`, `RaiseStop`, `FlagJob`, `SayCancelling`, `LockAgain` | `cancel()` (IC:442-459), split where the worker may run |
| `PickJob` ... `JobCompletes` | `processQueue` and `runJob` (DM:241-703) in the order of its tests |
| `Judge*`, `Plugin*`, `PersistZip`, `NextAttempt`, `Install*`, ... | `workerMain` (IC:1405-2068) |
| `PublishState`, `Unlock`, `Tidy`, `PublishDone` | what each of its returns does, in the order of `w.rest` |

The other calls of the UI act only where no worker is left and are one step each.
A call is guarded as the progress overlay of the screen guards it
(FCS:7227-7272).  The thread handle is not kept: it is valid where `done` is
false.  What the network does is a choice (`Progress`, `HitLimit`, `LinkLost`,
`HttpReturns`); one install attempt is a step with every outcome.  A fault
(`MaxFaults`) is a thread that does not start, a file that is not removed or a
final rename that fails.

The run has two jobs, one fault and every kind of request, and checks
`CancelPreventsInstall`, `PausedResumable`, `JobsOwned` and `WorkerReturns`.  Two
jobs are needed for a stale one to come before the active one, and every request
after the second meets a state the first or second has produced.  Three attempts
with at most two after an integrity error keep the two limits apart, as five and
three do in the code.

Fairness: the worker is a kernel thread whose calls have timeouts, so it is weakly
fair; the UI loop draws frame after frame, so polling, going on with a call
begun and doing nothing are weakly fair together.  Nothing is assumed of the user.
`WorkerReturns` is what these give: the retry loop ends.  `shutdown()` waits for
the worker with no limit (`Join`).

## 5. FileTransfer

One file, fetched by `runJob` through `downloadToFile`, by ranges or serially, with
the pauses and resumes of its job.  The file is `Parts * PartLen` blocks; a block
on disk is its place and the version it was read from, so a displaced block and a
mixed file show.

| Model | Code |
|---|---|
| `file`, `ckpt` | `payload.part` (part 0) and its `.range` files; the identity in `.range.resume` |
| `job`, `flag` | state and validator of the job; `pauseRequested`, `cancelRequested` |
| `pc`, `t` | the worker's place; the locals of `runJob` and `TransferContext` |
| `part[k]` | a `Part` of `downloadArchiveRanges`: saved, received, the buffer not yet flushed |
| `Open`, `ProbeAnswers`, `ProbeFails`, `GoSerial` | the choice between ranges and one stream (HC:1683-2083) |
| `Setup` ... `RangesComplete` | `downloadArchiveRanges` (PAD:419-817), each range a block at a time in any order |
| `Attempt` ... `Stop` | the serial loop with each answer a server may give (HC:1043-1305, 2086-2725) |
| `Outcome`, `Again`, `Settle` | what `runJob` makes of it (DM:429-645) |
| `Replace` | the server publishes another file of the same size |

Two parts of two blocks let a range be empty, half and whole; two versions, two
sessions, two attempts, two outer attempts and one retry reach each of the nested
loops a second time.  `kind` ranges over archive.org and other hosts, with and
without validators, ranges kept or joined.

`CompletedIsWhole` and `CheckpointHonest` hold wherever the history `risk` is
empty, or has no slipped descriptor.  `risk` notes three things the code does not
defend against: the server replaced the file during a session, the resume had no
validator to compare, and the descriptor slipped (section 15).  Without them
nothing the network or the user does mixes or displaces a block.  `Saved` is the
test of `parallelSavedBytes()` against zero, the only thing the code asks of that sum.  An
attempt whose job was stopped before it connects sends no request and ends as
cancelled (`Attempt`).  The run has two sessions; the theorems (section 16) hold for
any number of sessions, parts, blocks and versions.  `SessionEnds`
is under weak fairness of the worker: every request has a timeout.

## 6. PluginInstall

`dest`, `new` and `bak` are `destPath`, `stagePath` and `backupPath` of a plugin,
each the version it holds; `conf` and `tmp` are `config.txt` and its `.psva_tmp`
as rows.  `Check` ... `Tidy` are `installPluginJob` (IC:1545-1681) and
`TaiConfigEditor::appendLineToSection` with `writeAllAtomic`
(`source/installer/tai_config_editor.cpp`), one step per file operation, each of
which may fail (`Fail`, `EditFails`, `Undo`, `Restore`).  `PowerCut` may come at
any step; a text being written is cut after any row.  `Disable` is another
program that comments a line out.

The first texts are `Orderly`: a plugin's line stands at most once, below its
section's header.  What becomes of another text is not asked.

Two plugins of different sections and one without a line, over four first texts (no
file, both sections with their lines, one section with a line commented out, a
section twice), two requests and two faults: `OldOrNew`, `RowsRecoverable`, `InItsSection`.  The
second request meets what a failed or cut first one left.  `RowsRecoverable` is
about one fault: with two, the client can be cut off after it removed
`config.txt` and again while it writes the new text over the `.psva_tmp` that held
the only copy.  Nothing looks for the `.psva_tmp` (section 15).

## 7. ZipExtract

`Extract` is the call with the archive and the volume there may be; the
steps are `extract()` of `source/archive/zip_extractor.cpp`: `CheckSpace`
(691-836), `Preflight` (879-1069), `OpenEntry`, `WriteBlock`, `CloseEntry`,
`EntryFails` for each entry, `CloseArchive`, `CommitBranch` for each deep
folder, `Reclaim` and `Sweep` after a failure.  `Restart` is the clean-up of the
next start (`source/storage/storage_maintenance.cpp:164-222`).  A file is its
length and the entry that wrote it.

The archives are: new before replaced, a path twice, an unreadable last entry, two
deep folders, a deep file twice, an entry of an unsupported kind, an unsafe
name; the user's files may be in the way of each.  Two attempts, two I/O errors and
one power cut: the second attempt meets what the first left, an error may
hit between two moves, and the cut may fall between two
renames.  `UsersFilesSurvive`, `SpaceSuffices`, `OutcomeIsTrue`.  The last says, for a
success, that every entry is in place; for a failure, that no new file is left outside the
deep folders (`FailureReclaims`), and that each deep folder is there with all its files or
with none.  More does not hold: a folder that has moved is not taken back when a later one
cannot.  That the files still staged are then kept is what a comment and a document say;
`StagedKept.cfg` refutes it with one archive of two deep folders and one error.  `Capacity` and
the sizes are chosen so that an archive fits only because the replaced file is
credited, or does not fit by one unit.  Left out: directories of their own, the
fallback for a file system without exclusive creation (its outcomes are merged into
`OpenEntry`), and removals that fail while created files are reclaimed.

## 8. VpkInstall

| Model | Code |
|---|---|
| `stage`, `app`, `temp` | `ux0:data/psva_vpk`, `ux0:app/<TITLE_ID>`, `ux0:temp/app`: the version of eboot, param.sfo and the rest |
| `copied` | `ux0:data/psvitaalive/tmp/nested_source.vpk`, the copy of a package found inside the package |
| `InstallVpk`, `Extract`, `Unwrap`, `ExtractInner`, `Prepare` | `installVpk` up to the promotion (`source/installer/homebrew_installer.cpp:487-744`), with every early return |
| `Promote`, `PollEnds`, `Check` | the promotion, its time limit, and what is read off the folders after it (384-484, 754-807) |
| `CopyFile`, `CopyEnds`, `CleanUp` | the fallback copy (66-112, 808-888) |
| `MoveToTemp`, `Register`, `Restore` | `refreshTitleLiveArea` (`source/installer/refresh_manager.cpp:151-257`) |
| `SystemPromotes` | external: the promoter replaces the application as a whole, fails, or does neither in time |

Two installations of each of six kinds of package over no, an old or a half
application, four faults and two power cuts: one installation that needs the copy and the
refresh takes up to four failing calls.  `WholeAppStays` (an action property: a whole
application stays whole, and one that the refresh has moved to `ux0:temp/app` stays there
until a whole one is in `ux0:app`), `FailureKeepsApp`, and `StagingReclaimed` under weak
fairness of the worker, of the promoter's end and of the next start.  The latter is about
the staging folder and about `copied` while the inner package is unpacked and after a
power cut.  That an installation which has ended leaves no copy at all (`NoCopyLeft`) is
refuted by `NestedLeft.cfg`, one nested package and one error.  A promotion is taken to end when
the promoter is left (`PollEnds`): what the system does with one that comes later is not in
the repository.  Left out: unpacking in steps
(section 7), removals of the staging that fail, and the delay with which the file
system shows a promotion.

## 9. SelfUpdate

| Model | Code |
|---|---|
| `stage`, `legacy`, `vpk`, `bubble` | `psva_vpk`, the staging of older clients, `update/PSVitaAlive.vpk`, whether `PSVAUPDT1` is installed |
| `main` and `OpenClient` ... `Leave` | the start and the end of `main.cpp`, with `cleanupTransient` and `cleanupUpdaterBubble` |
| `StartupCheck`, `WorkerEnds`, `Join` | `source/update/startup_update_manager.cpp` |
| `SettingsCheck`, `SettingsApply`, `SettingsDone` | the worker of the settings screen (FCS:6157-6284) |
| `Clean`, `Download`, `Extract`, `Build`, `Helper` | `applyUpdate` and `installUpdaterHelper` (`source/update/update_checker.cpp:410-525, 714-878`) |
| `Homebrew` | an install of another title through the same staging directory |
| `OpenUpdater`, `Find`, `Promote`, `Verify`, `CloseUpdater` | `updater/main.c` |

Versions are numbers and the promoter is external: it installs a package whole or
not at all.  Three versions and two releases let an update be overtaken; two
faults are what it takes to leave a foreign `head.bin`; the whims are cancel, update
from the settings, install, start the helper by hand.  `AppliedIsWhole` is stated
up to one fault; with two failed removals the statement is false, and the proof
says why those are needed.  `UpdatedAtLast`: the client's and the helper's own
steps are weakly fair, which includes that the user opens the client again and
again; faults, releases and whims are finite.

## 10. InstalledData

`snap` and `rows` are what the menu shows, `index`, `bak`, `tmp` the files of the
index of sizes, `doing` and `job` the one worker.  The menu (`OpenMenu`, `Select`,
`Ask`, `Confirm`, `Back`, `CloseMenu`, `Poll*`) is `source/ui/installed_data_screen.inc`;
`Scan`, `Erase`, `RemoveExternal`, `Uninstall` are
`source/storage/installed_data_manager.cpp`; `Save*` is the index, one step
per file operation.  A directory has a number of files and a stamp that changes with its
own entries only, as the fingerprint of the code does.

Two titles, one root inside the other's, any of them installed: overlap is
all `validateExternalRemoval` asks.  One file per directory, two
failed calls or power cuts, three actions of the user, at most four of both
together.  `SharedKept`, `OldSizeGone`, `IndexKept`, `CloseHonoured`; the worker and
the poll of the frame are weakly fair.

A removal has a number (`era`), and a size the one at which it was measured.  The
history keeps for each title the last removal made for it (`hit`) and for each directory
the last one that took anything from it, for whatever title (`taken`).  `OldSizeGone` says
that a size the menu knows is from after both, except where the later removal was made for
another title with an overlapping root.  Without the exception it is
`OldSizeNeverShown`, what `removeExternal` promises of the rows of the list, and `SharedSize.cfg`
refutes that with the same two titles and nothing failing: one is measured, and its files go
when the data of the other is removed, which is allowed since the first is not
installed; only the other's row is invalidated and merged.

Assumed of the environment: titles are
installed before the menu opens, and games write only while it is closed (the
menu is modal).  `slipped` excepts a size that stays because the index could not
be rewritten before a removal.

## 11. CatalogRefresh

`CM` is `source/catalog/catalog_manager.cpp`.  A catalog's text is its version,
a number the server counts up; 0 stands for none.

| Model | Code |
|---|---|
| `requested`, `pending`, `gen`, `st`, `ready`, `mem` | `requestedCatalog_`, `requestPending_`, `requestGeneration_`, `status_.state`, `readyCatalog_`/`readyItems_`/`readyPending_`, `cachedItems_` |
| `displayed`, `locked`, `startup` | tab and items of the screen, `catalogLoading_`, `startupCatalogs` |
| `disk`, `meta`, `remote` | the copy, its `.meta` file, the server |
| `Switch`, `Request` | `changeCatalog` and `CatalogManager::request` (CM:86-146) |
| `Poll`, `Take`, `Cover` | the three places of a frame that read the manager (`source/main.cpp:631-714`) |
| `Begin` ... `Swap` | `workerMain` (CM:492-616), one step per region under the mutex, file operation or HTTP call |
| `Soft` ... `GiveUp` | `trySoftNetworkRefresh`; with `w.soft` false, `loadCatalog`, whose steps are the same |
| `Relaunch` | the program is cut off at any point and starts with the files it left |

The run checks `NeverOlder`, `KeepsTab`, `Settles` and `WorkerEnds`.
Two catalogs are enough for TLC because the code only asks whether two catalogs
are the same; three changes go to the second, back, and away again while the
first refresh is under way.  Two versions tell older from newer.  What depends on
a third catalog is covered by the proofs, which hold for any set of them.
Fairness: frames go on, and every HTTP call of the worker has a timeout, so
`Frame` and `Work` are weakly fair.  `DownloadProgress` is not among `Work`: a callback
that comes again and again is no progress of the load.

Left out: a manager whose mutex or thread cannot be made (`init` returns false and
every request is refused), the zRIF index, and `softRefresh`, which only decides
which text is shown.

## 12. ImageCache

| Model | Code (`source/ui/image_cache.cpp`) |
|---|---|
| `files`, `temp` | a cache file none, torn or whole; `.normalized` |
| `queue`, `pending`, `ready`, `failed`, `cooling`, `current`, `cancel`, `busy`, `paused`, `away` | the members of like name |
| `Lookup`, `Stat`, `Adopt`, `Enqueue` | `request` (363-425), split where the mutex is free |
| `Decode`, `SyncImages`, `StartMoving`, `Suspend`, ... | the drawing thread (FCS:7445-7513, 3399-3428) |
| `Snap`, `Sweep`, `Forget` and `Worker*` | the pruning of older versions by either thread (291-326) |
| `Take` ... `Finish` | the worker (456-495) |

One mutex guards the lists but not the disk, so a step is one critical section or
one operation on a file.  A removal never fails here, and a worker without a
connection is a `Take` that comes later.

`PendingIsWorked`: a pending path is queued or in the worker's hands; otherwise
`request` would pass it over for ever.  `OneJobPerFile` is the converse, and that no path
has two jobs, since a second one would download over a picture that is shown.  It
excepts one case, which the code does reach (section 15): after a start, a second
catalog update that gives a picture its earlier URL back.  `JobsAgree` is both.

Two pictures, one of two versions, a queue of one (which a retry may exceed), two
attempts, one failure, catalog update, move and power cut; `Appears` under the
fairness of both threads.  With a second update TLC finds the exception, and that
`Appears` fails with it (section 15); without a power cut there is none.  `Lookup` is strongly fair for
each picture since a settled frame asks for all of them in turn.

## 13. DiagnosticLogger

A line is its sequence number.  Each region under `g_mutex` is a step, and so
are the semaphore's calls, each `writeAll`, and the test of a flag outside it.

| Model | Code (`source/diagnostic_logger.cpp`) |
|---|---|
| `ring`, `head`, `tail`, `count` | `g_queue`, `g_head`, `g_tail`, `g_count` |
| `enqueued`, `written`, `sema` | `g_lastEnqueued`, `g_lastWritten`, the permit of `g_sema` |
| `Log`, `EnqueueLine`, `Signal`, `Direct` | `log` and `fallbackWrite` (65-73, 193-227) |
| `Flush*` | `flush` (229-242) |
| `Shutdown`, `Stop`, `Wake`, `Join`, `Close` | `shutdown` (244-266), by one thread |
| `WaitSema` ... `Check` | `logWorker` (75-128) |

Whether a line still fits into the 4 KiB batch depends on its length, which is
left open (`Fits`, `Full`).  `file` is a history of what was handed to `writeAll`;
what the storage then refuses is lost without a trace, in the code as well.

A ring of two lines in place of 64, two threads and five calls: the ring wraps,
overflows and is drained in between, with a flush or the shutdown at any point.
`NewestKept`, `NoLostWake`, `ShutdownDrains`.  Fairness: a call once begun goes on
(`Going`, `Closing`), and so does the worker; nobody has to call.

## 14. InstallAll and CatalogScreen

The screen starts a job through `linkAction_` and learns of its end through
`setInstallProgress`, once per frame.  Two queues wait for it: Install All and the
essential plugins.  Since one frame may move both, and a dialog may start a
third job, their steps are functions from a world (the record of the variables)
to the set of worlds they may end in, and a frame composes them.

| Model | Code |
|---|---|
| `batch` | the members `installAll*_`: phase, chosen options, queue, results, the archive waiting for a decision |
| `essential` | the prompt and queue of the essential plugins |
| `installer` | what `InstallController` shows: idle, working, paused, completed, failed, cancelled; a ZIP to decide about; whether a restart is due |
| `shown` | the screen's own copies: `installActive_`, outcome, ZIP |
| `view`, `ui` | the filtered list; mode, tab, list, selection, filter |
| `open` | the dialogs whose flag is set |
| `work` | the threads of the screen still running |
| `StartQueue`, `StartNextStep`, `TryAdvance`, `FinishReport`, `ResolveRecovery`, `AutoKeep`, `SummaryZip` | FCS:9335-9957, 11667-11688 |
| `KickEssential`, `EssentialAdvance`, `InstallEssential` | FCS:11374-11477 |
| `SetInstallProgress` | FCS:3220-3326 |
| `ButtonOrder`, `Press<dialog>` | `handleInput` (FCS:6814-7289): the first open dialog in this order takes the press |
| `TouchOrder`, `Touch<dialog>` | `handleTouch` (FCS:4680-6083): another order |
| `FrameEnd`, `MainLoop` | `updateAndDraw` (FCS:11627-11703) and the rest of the loop (`source/main.cpp:616-846`) |
| `JobEnds`, `WorkEnds` | a job or a thread of the screen ends, in any way it may |

A frame reads the buttons (`pc = "input"`), after a press the finger
(`pc = "touch"`), and ends; the service may go on between two frames, not within
one.  Where a control lies is left out: an event of a dialog is any control it
has, and one that changes nothing is no event.  The result that the service
acknowledges itself after eight seconds may do so at any poll (`TimesOut`).  An
accepted start that fails at once is a start whose job ends before the next
frame.  `KickEssential` starts each plugin of its queue, where the code passes over one
that has appeared since the prompt (FCS:11411-11430): that takes a job beside the queue,
and then the model runs a job more than the code before it offers the same restart.
Drawing, scrolling, focus and texts are left out.

`truth` is history: what became of each step, whether a receipt was written,
whether a restart is owed.  It also notes the three cases the properties except,
each of which the code does reach (section 15): two users had the service at once, or the
end of an update was told while a queue ran (`mixed`), a refresh moved the list under the
wizard's index (`app` is then `NoApp`), and the essential queue, a report or a wizard opened
over the report forgot its restart (`dropped`).

The run has three applications (a port with a pack of files and a plugin, a tool
without either, a PSP game with two packs to choose from), of which a refresh may
replace the first or the last by the tool, two tabs, two essential plugins of the real
three, one fault, one thread of the screen at a time and six presses or touches:
an Install All with a decision, a report and a retry fits in six.
No fairness is assumed, and no liveness is checked: what ends a queue is the
user.  `StorageAlone` was also checked with three essential plugins.
`ResultsTrue`, `RevisionHonest`, `BatchHasJob`, `RebootKept`, `StorageAlone`.

## 15. What the models brought up

Where the code does something its comments or documents do not say, the models do it as
well.  Three such statements are properties that TLC refutes, with the cfg named below;
for the rest the properties say what is excepted.  By module:

**ZipRecovery.**
* `recoverInterruptedZipMoves` writes the sidecar only if none exists (IC:222), so one
  torn by the power cut stays torn and `savedZips` skips the archive: it is kept
  but listed nowhere.
* A save that is rolled back keeps its marker with the name it had chosen; another job
  may take the free name, and the recovery of the first then leaves the
  other's sidecar in place: the archive is described by the target of another.
* "Could not protect completed ZIP; restart PSVitaAlive to recover it." (IC:1723) is
  also shown when no marker could be made; the startup purge then deletes the ZIP
  (`GiveUp` tells the two apart).

**InstallJob.**
* `cancel()` reads `state_` once; if the worker ends before it writes, the shell stays
  locked, though the header says "Always unlocked on finish.", and `state_` may stay
  Downloading with no worker behind it.
* The early return for a plugin folder that cannot be made leaves the download behind.
* The link is asked for once more after the last byte: a complete download may be
  deleted and reported as cancelled by the user.

**FileTransfer.**
* After a drop the received bytes move to `ctx.resumeOffset`.  If the next attempt
  receives nothing, the retry tests the argument `resumeOffset` instead (HC:2176) and
  seeks `payload.part` to 0; the answer from the absolute offset is then written over the
  beginning, contrary to "Resume from the absolute bytes already on disk instead."
  (HC:2149-2152).  `risk` marks it `"slipped"`.
* An empty checkpoint outlives a serial transfer; after an I/O error at open the
  outer retry takes the length of part 0 as serial offset over saved ranges.
* A pause that arrives with a completed segmented transfer resumes serially and
  without validator; resumed ranges from archive.org may take bytes of a replaced
  file unseen, although PAD:672 means to "Reject inconsistent replicas".

**PluginInstall.** `writeAllAtomic` removes `config.txt` before it renames
`config.txt.psva_tmp` (`tai_config_editor.cpp:56`).  After a power cut between the
two there is no `config.txt`, and nothing looks for the other file.

**ZipExtract.** The comment "Preserve staged contents on any move error for manual
recovery" (`zip_extractor.cpp:1380`), the message "staged data kept at" (1384) and the
repository's `docs/ZIP_RECOVERY_AND_RANGE_ASSEMBLY_20261018.md:37` do not hold (`StagedKept.cfg`):
`Reclaim` and `OwnedStageCleanup` (927-934) delete what was staged.  The later
`docs/STORAGE_CLEANUP_FOOTER_20261025.md:92` describes just that, so it is the older texts that
should go, and the log must not send the user to a folder that is removed.  A folder moved before a later one failed is not taken back, and a
retry is refused because its destination is not empty.  Free space is read
from `ux0` also for a destination on `uma0`.

**VpkInstall.** When the copy of an inner package fails, the early return (646-651) leaves
`nested_source.vpk`, whole or in part, until the next nested package, the next start or a
clean-up by the user, contrary to `docs/STORAGE_CLEANUP_FOOTER_20261025.md:12`
(`NestedLeft.cfg`).  A failed promotion over an old application is reported Ok, with the
receipt of the new version, when the old tree is there.  An Ok promotion
whose fallback copy fails stays Ok without an application.  A power cut in the
refresh leaves the application in `ux0:temp/app`; nothing brings it back, and the next
refresh of any title deletes it.  A partial tree left by a failed copy counts as
installed.

**SelfUpdate.** The worker of the settings screen says "Update installed" after
it staged the package; nothing launches the helper, and the next start removes
what was staged (`SettingsDone`).  `cleanupUpdaterBubble` deletes the `.vpk` also
after a failed cycle.  The digest of the release is read and not compared.

**InstalledData.** After a removal the row of another title that names the same files, and is
not installed, keeps its size: the list shows it, and the automatic measurement passes over it
because it has one (`SharedSize.cfg`; `installed_data_screen.inc:330-349, 367-374, 820-848`).  "After any
destructive attempt the old size must never be displayed again"
(`installed_data_manager.cpp:453`) holds where no roots overlap (`ApartNoneShown`).  `updateImages` iterates `installedDataSnapshot_.apps` in every
frame while the worker of a scan or a removal moves its result into it without a
lock.  A failed rewrite of the index leaves the old size.  Two interruptions in a
row can lose the index.

**CatalogRefresh.** A refresh that ends after its tab was left for a catalog in
memory sets Loading with no request to clear it (CM:529): the tabs stay locked.  No property
covers that: `Settles` asks which catalog is shown, not whether the tabs are free, and is
content with a state of Failed.  The copy
of a catalog is removed before the rename that replaces it (`Parse`, `Rename`); the
validators asked for after a download (`Tag`) may be those of a newer version.

**ImageCache.** The worker downloads to the name of the cache file itself, so a power
cut leaves a partial picture there; its header is enough for `request` to take it as
ready, and it fails to decode from then on.  A retry in its delay outlives
`cancelAll`.  After a start a file of an earlier version may lie in the cache.  If the
catalog gives the picture that version's URL back while the newer one is in the worker's
hands, `request` adopts the file, and `pruneSupersededVersions` removes the other under the
worker and forgets that it is pending (`Sweep`, `Forget`; what `Snap` spares is
cleared before the worker has settled its job).  A later request would queue it a second
time: this is what `OneJobPerFile` excepts.  If the prune removes the file between the
two halves of `request`, the path is adopted as ready without a file: it is neither
drawn nor asked for until the next start.

**CatalogScreen.**
* Indexes outlive a refresh: `installAllItemIndex_`, `pluginChoiceItemIndex_` and
  the pending PSP item are not looked up again when the list changes under an open
  dialog.  A refresh between the choice of a data link and the confirmation can
  make a queue with no step for the new application whose report writes the
  receipt of files nobody installed (`truth.app`).  A second refresh that brings the first
  application back does not undo it: the choice has been passed over by then.
* A refused start ends the essential queue without the restart that its
  earlier plugins need (`truth.dropped`).
* A plugin's dialog opened in the frame that starts Install All outlives the queue.  A plugin
  installed from it while the report is up does not raise the restart, which is left to the
  report, and the report knows only its own plugins: closed in one frame with the
  result, nothing asks for it (`truth.dropped`).  It takes eight events, two beyond the run.
* The setup for PSP games can outlive the queue in the same way, and what follows it may be the
  wizard: `openInstallAllWizard` does not ask whether a report is up, and resets
  `installAllPluginInstalled_`, so the restart that report owed is forgotten (9390,
  `truth.dropped`).  This too takes eight events; the proof of `RebootKept` stopped at it.
* Saved archives are safe from a job only because the essential plugins are three: the
  storage can be opened over their queue when one ends in the frame that started it, a
  removal begins when the next one ends, and a fourth would start beside it.
* Settings can be opened over a wizard that waits for confirmation, so an update can
  run beside a queue and its outcome be taken for the step's (`truth.mixed`).  An update
  whose thread cannot be started is told as failed at once, also to a queue that went on in
  the same press.
* For one frame after a queue goes on the screen shows the outcome of the step before; Close then
  acknowledges the next result if that came at once, and the queue waits for ever.
* A dialog opened while X is held sees the held button as a new press, and may consent for the user.
* The archive notice may open over four other dialogs.  The order in which
  dialogs are drawn and the two orders in which they take input differ, so no statement
  that the dialog in front answers would hold.
* Dead branches: the result of an update lives one frame, so START to leave is never
  read (7083-7088); SELECT in the report returns before it is used (7066, 7145).

## 16. Proofs

`ZipRecoveryProofs` holds for any set of jobs with 1, 2 or 4 parts, any number of
names and any number of faults (`PartsAssumption`, `LegacyAssumption`,
`NoJobAssumption`, `BoundAssumption`).  None of the safety properties is inductive:
that a part is somewhere does not say that the move in progress will put it where
the marker names.  The invariant is `TypeOK`, `Custody` (who owns what is in
`manual/`, `NoLoss`, `RetiredIsWhole`) and `Progress`, which says for a save, a
recovery and a deletion which parts are on which side at part `k` of its loop.
`TypeCorrect`, `ArchiveSafe`, `RetiredWhole`, `NoOverwrite` and `ImplementsVault`
follow from it; the last maps each step to `Hold`, `Drop` or a stutter.

`InstallJobProofs` holds for any number of jobs and faults, any two limits on the
attempts and any kinds (`BoundAssumption`, `KindAssumption`).  `Alone` relates
`done` and the deferred PKG to the worker's place and gives `ResultSettled` and
`OneOwner`.  `Heard` follows a cancellation from the flag of the controller and
of the job to the test that ends the job or the loop, and gives `EarlyCancel`.
`Resumable` names the seven tails the worker can be in and says that a pause only
has those that clean nothing up; it gives `PauseKeepsJob`.

`CatalogProofs`, the refresh: it holds for any catalogs and bounds (`HomebrewAssumption`,
`BoundAssumption`).  `NewestShown` needs an order of the places that hold a
catalog's text: what was shown is no newer than memory, memory no newer than the
file, the file no newer than the server, as far as each holds one (`Ordered`);
what waits for the screen is what memory holds (`ReadyIsMem`); and what the worker
has in hand is no older than memory and, before it is published, what the file
holds (`InHand`).  `TabKept` follows from an invariant that ties what is ready to
the catalog last requested.

`CatalogProofs`, the screen: any applications and lists, any events, threads and faults,
and the three essential plugins of the code or fewer (`CatalogScreenAssumption` and those
of `InstallAll`).  A handler is a function from a world to worlds, so nearly every lemma
is about one world, and only the last ones are about actions.  `ScreenInv` says how the
queues and the job agree (`Sound`), that a queue has not been told of a result it did not
act on (`Unseen`), and what holds only at a place of the frame: before the poll
(`AtPoll`), at the buttons (`AtInput`), at the finger (`AtTouch`).  `QueueHasJob` follows
from `BatchSound`, whose hard case is the plugin queue that takes over between two steps
of a batch.  `RemovalIsAlone` is the reason for the places: the storage menu may be
opened over the plugin queue in the one frame between two of its jobs, so the proof
counts how many plugins can still follow (`left`), and it goes through for three.
`ReportIsTrue` and `ReceiptIsHonest` rest on `StorySound`: before the step the queue is at
every result agrees with the history and no pack of files failed unnoticed (`Past`), behind
it nothing has happened yet (`Future`), and at it the history is what the job shows
(`AtStep`).  That a queue hears only of the job of its own step is `Hears`, shown for each of
the three callers of `setInstallProgress`; that there is a pack of files at all goes back to
what was asked (`Asked`), and fails when the application under the index changes.

`RestartIsKept` has an invariant of its own beside `ScreenInv`, kept by the same handlers
one by one (`RestartInv`).  `Due` says who remembers a restart that is owed, more narrowly
than the property: a queue that has not begun, a wizard that still asks and a result the
screen was already told of are nobody.  The hard case is a plugin chosen by hand, whose
result no queue hears: nothing may start over it before the screen is told.  So its progress
dialog is up wherever the buttons are read (`Attended`), the finger, which comes in the
same frame and may reach the page, meets it while it works (`Handy`), and no dialog that
leads to a start stands beside it (`Windows`).  A handler that touches none of this is `Calm`;
the others are `Heeded`.

`WorkerProofs`, the log: it holds for any ring, any threads and any number of calls
(`MainAssumption`, `BoundAssumption`).  `AlwaysWoken` is inductive once the worker's
places after its last look at the ring are added.  `NewestAreKept` needs the
layout of the ring: the line at distance `i` from the head is `enqueued - count + i + 1`.

`WorkerProofs`, the images: any pictures and versions, queue, limits and numbers of
updates and power cuts (`PathsAssumption`, which says that a path is a pair, and
`CacheAssumption`).  `PendingHasJob` is inductive with the types, once it is known what
dropping jobs from the queue leaves (`OnlyFacts`).  `FileHasOneJob` needs four things
no single critical section sees: the lists do not overlap and what is queued or
failed has no file until the worker opens it (`Apart`); what `request` read under
the mutex still holds when it takes it again (`Asks`); what a prune removed has no
job by the time the lists forget it (`Forgets`); and why the prunes keep to that.
The last has two reasons: before the first restart nothing is ever adopted (`Fresh`), and
with one update every path but one is the newest of its picture (`Replaced`).  The
two are the two sides of the exception that `OneJobPerFile` makes.

`PluginInstallProofs` holds for any plugins, sections, bounds and orderly first texts
(`SectionAssumption`, `ConfigAssumption`, `BoundAssumption`).  `PluginKept`:
the backup may be put back over what was activated because it is the user's version
from the first rename on, and may be removed because the new one is the user's by
then (`Held`); neither place is ever torn (`NeverTorn`).  `LinesInPlace`: a line
inserted at the end of its section leaves an orderly text orderly, of any length and
with any number of sections (`PlacedIsOrderly`).  `UserRowsKept`: up to the first
fault, of the two texts one is whole and has every row of the user whenever the
other is being replaced (`RowsInv`).

`ZipExtractProofs` holds for any archives, any volume and any limits
(`PathsAssumption`, `ArchivesAssumption`, `OldSizesAssumption`, `RoomAssumption`).
`FilesSurvive` rests on what the list of created files may hold: `OpenEntry` lists a
destination only when no file is there, and a file of the user is there until the end,
so `Reclaim` never meets one (`MadeHere`, `FreshOK`).  `OutcomeTells` needs the converse,
that every new file is on that list or is the one being written (`Listing`), that
the entries before the current one are in place (`Reading`), and that no deep file is listed
at its destination, so that a folder which was moved whole stays whole (`Foldered`).  `RoomSuffices` compares two
sums: the check adds sizes over the entries, the volume adds them over the files, and a
path may have several entries.  Its invariant (`Room`) bounds what is free from below
by what the entries still to come need, and the margin.  It has the hypothesis
`MaxOthers <= Margin`: other programs take no more meanwhile than the margin that the
code adds for them, and beyond that no check made beforehand can promise anything.

`HomebrewProofs`, the applications: any number of installations, faults and cuts
(`PackagesAssumption`).  The invariant says what `installVpk` knows of the folders
at each place (`StagedOK`, `PlaceOK`, `DecidedOK`): in particular that the copy
is never begun over a version the user has, and that the refresh moves a whole application.
`WholeStays` and `FailureKeeps` follow.

`HomebrewProofs`, the installed data: any titles, any roots the catalog names, nested
in any way, and any number of faults (`CatalogAssumption`, `PathAssumption`: of two
directories a third lies in, one lies in the other, as paths do).  `SharedStays`
follows the roots from the check to the last file erased (`Clear`).  `IndexStays`
says for each file operation of a save which of the index, its backup and the new file is
whole (`Held`, `Backed`).  `OldSizesGo` needs whose sizes may still be from before a removal
until the scan is over (`Dating`), that the roots in the worker's hands are those of its
title (`Owned`), and for whom each directory was emptied (`Attributed`).  `ApartNoneShown` is
`OldSizeNeverShown` under the hypothesis that no two titles name overlapping roots: the case
`SharedSize.cfg` shows is the only one.

`DownloadProofs`, the transfer: any number of parts and blocks, versions, sessions,
retries and faults (`KindAssumption`, `SizeAssumption`, `LimitAssumption`).
`CheckpointTells` and `DownloadWhole` need to know for every place of the worker where
the next block goes and of which version it is.  While no descriptor has slipped, each
part file holds the places of its range in their order (`PartsOnDisk`), a range's
`saved` is what its file holds (`Ranging`) and the request's offset is the length of
what is on disk (`Offsets`); while no version was replaced unseen either, all of it is of
one version (`Versions`, `Finished`).  `JoinIsWhole` is the lemma a reader may doubt
first: parts that hold their ranges give the file when joined in order, for any number
of parts; it is shown by the least number for which it would fail.

`DownloadProofs`, the client's own update: any versions, releases, faults and whims
(`BoundAssumption`).  `AppliedWhole` needs that one program and one job run at a
time (`Single`), that the release in hand stays newer than the client (`Newer`),
and what each step of `applyUpdate` has found in the staging directory: one failed
removal leaves a package there, a second one is needed to leave a `head.bin`
(`Staged`).

What a recursive function or a fold computes is used through lemmas about its least
counterexample (`LeastNatural` and the well-foundedness of `<` on the naturals), since the
induction theorems of the library cannot be instantiated.

Proving changed three models.  The invariant of `FileTransfer` could not be
proved because a stopped job could still send a request and take its answer, which in a
third session, beyond the bound of the run, broke `CompletedIsWhole`; the code's
callbacks stop such a request before it is sent, and `Attempt` now does.
`ImageCache` had `PendingIsWorked` together with its converse, which fails when a URL comes
back; the two are told apart now, and the first has no exception.
In `CatalogScreen` the histories excepted too little, in behaviours longer than the run's: an
update whose thread fails to start, two refreshes in a row, and a wizard opened over a report
(`StartUpdate`, `AdvancePick`, `OpenBatch`); the steps of the code they accompany are as before.

Every safety property that a passing run checks is a theorem.  Only model-checked are the liveness
properties `RecoveryCompletes`, `WorkerReturns`, `Settles`, `WorkerEnds`, `ShutdownDrains`,
`SessionEnds`, `UpdatedAtLast`, `CloseHonoured`, `Appears` and `StagingReclaimed`, since TLAPS
does not prove liveness under fairness.

## 17. Not modelled, and why

* Install policies, the update decision: pure functions of one or two
  values, each of whose cases a unit test reaches.  Their callers take the answer.
* Texts, progress figures, drawing, localization, settings, the assembly of
  reports, the scripts and the web page: conversions without state.
* The firmware's promoter, the system PKG download, curl and the Vita file system are
  external: what the code sees of them is a choice.
* Of the HTTP client, requests into memory and the relay of certificates; of the
  parallel download, replicas and hedged requests; of the installers, the PSP
  installer; of the catalog, the parser and the zRIF index: each is input or output of
  a single call that what is modelled takes as a choice.
* That `setMessage` and `status()` may copy a buffer while the other thread writes
  it is a data race on text that no property here is about.
* The keep-awake thread and the power tick have no effect on the state above.
* In `PROJECT.json`, two hazards have no property, the stale indexes of the screen and the
  tabs that stay locked: as section 15 says, one would not hold.
* Of the hazards that have one, the notes say what it does not reach: a promotion that comes
  after its time limit, the snapshot that `updateImages` reads, and how long `flush` may wait.
