----------------------------- MODULE ImageCache -----------------------------
(***************************************************************************)
(* The image cache (ui/image_cache.cpp): a drawing thread that asks for    *)
(* the pictures on screen, one worker thread that downloads and normalizes *)
(* them, and a directory of files both of them create and remove.          *)
(*                                                                         *)
(* A picture (an icon, a cover, a screenshot) is an identity; the catalog  *)
(* gives it a version (its URL), and <<image, version>> is one cache file. *)
(* One mutex guards the lists, but not the disk: every step below is the   *)
(* code between two points where the other thread may run, which is one    *)
(* critical section or one operation on a file.                            *)
(*                                                                         *)
(* Removing a file never fails here.  A worker that finds no connection    *)
(* waits before it takes a job, which is a Take that happens later.        *)
(***************************************************************************)
EXTENDS Naturals, FiniteSets, Sequences, SequencesExt

CONSTANTS Paths,        \* <<picture, version>>: the files there may be
          MaxQueue,     \* MAX_INTERACTIVE_QUEUE, 12 in the code
          MaxRetries,   \* MAX_RETRIES, 3 in the code
          DiskLimit,    \* files the start accepts before it trims (200 MiB)
          DiskKeep,     \* files it then keeps (40 MiB)
          MaxFails,     \* bound: transfers and normalizations that fail
          MaxRefresh,   \* bound: catalog updates that change a version
          MaxMoves,     \* bound: scrolls, catalog switches, installs, pauses
          MaxCrash      \* bound: power cuts

ASSUME PathsAssumption == \A p \in Paths : p = <<p[1], p[2]>>
ASSUME CacheAssumption == /\ MaxQueue \in Nat \ {0} /\ MaxRetries \in Nat \ {0}
                          /\ DiskKeep \in Nat /\ DiskLimit \in Nat
                          /\ DiskKeep <= DiskLimit

Images == { p[1] : p \in Paths }
NoPath == <<>>
NoJob == [path |-> NoPath, attempt |-> 0]
Siblings(p) == { q \in Paths : q[1] = p[1] /\ q # p }

VARIABLES
  files,    \* path -> "none", "torn" (not yet, or never, normalized), "whole"
  temp,     \* the worker's file.normalized exists
  queue,    \* queue_: the jobs waiting
  pending,  \* pending_
  ready,    \* ready_
  failed,   \* failed_
  cooling,  \* paths whose retryAfter_ is still in the future
  current,  \* currentPath_
  cancel,   \* cancelRequested_
  busy,     \* workerBusy_
  paused,   \* networkPaused_
  away,     \* activeOffscreenSinceUs_: "no", "since", or "long" (1.5 s passed)
  worker,   \* [at, job, gone]: where the worker thread is
  ui,       \* [at, path, active, gone]: where the drawing thread is
  shown,    \* path of each visible picture's texture that is loaded
  broken,   \* failedTextureLoads: paths that failed to decode
  visible,  \* pictures on screen
  moving,   \* navigationBusy
  heavy,    \* mediaTexturesSuspended_
  latest,   \* the version the loaded catalog gives to each picture
  fails, refreshes, moves, crashes   \* what the bounds count

lists == <<queue, pending, ready, failed, cooling>>
active == <<current, cancel, busy, away>>
screen == <<shown, broken, visible, moving, heavy, latest>>
bounds == <<fails, refreshes, moves, crashes>>
cacheVars == <<files, temp, lists, active, paused, worker, ui, screen, bounds>>

Idle == [at |-> "idle", job |-> NoJob, gone |-> {}]
Resting == [at |-> "rest", path |-> NoPath, active |-> NoPath, gone |-> {}]

PathOf(i) == <<i, latest[i]>>
QueuedPaths(q) == { q[k].path : k \in DOMAIN q }
Job(p, n) == [path |-> p, attempt |-> n]

\* The jobs of the paths in S, in their order.
Only(q, S) ==
  LET f[n \in 0 .. Len(q)] ==
        IF n = 0 THEN <<>> ELSE IF q[n].path \in S THEN Append(f[n - 1], q[n]) ELSE f[n - 1]
  IN f[Len(q)]
Without(q, S) == Only(q, QueuedPaths(q) \ S)

-----------------------------------------------------------------------------
(* The drawing thread: request().                                          *)

\* Where the request goes from its first critical section.
NextStop(p) == IF p \in ready THEN "decode"
               ELSE IF p \in pending \cup failed THEN "rest" ELSE "stat"

\* Queued work for another version of the same picture is dropped and an
\* active transfer of one is cancelled, whatever comes next.
\* A path that waits out its cooldown is left alone; one that has done so goes
\* back to the end of the queue, even while the network is paused.
Lookup(i) ==
  LET p == PathOf(i)
      old == QueuedPaths(queue) \cap Siblings(p)
      again == p \in failed /\ p \notin (ready \cup pending \cup cooling) IN
  /\ ui.at = "rest" /\ i \in visible /\ ~moving /\ ~heavy
  /\ pending' = (pending \ old) \cup (IF again THEN {p} ELSE {})
  /\ queue' = Without(queue, old) \o (IF again THEN <<Job(p, 0)>> ELSE <<>>)
  /\ cancel' = (cancel \/ current \in Siblings(p))
  /\ failed' = IF again THEN failed \ {p} ELSE failed
  /\ cooling' = IF again THEN cooling \cup {p} ELSE cooling
  /\ ui' = IF NextStop(p) = "rest" THEN ui ELSE [ui EXCEPT !.at = NextStop(p), !.path = p]
  /\ UNCHANGED <<files, temp, ready, current, busy, away, paused, worker, screen, bounds>>

\* Outside the mutex: a file whose first 24 bytes are those of a PNG of the
\* right size is taken as it is, any other is removed.  The bytes after the
\* header are not read, so a torn file may pass.
LooksValid(f) == IF f = "whole" THEN {TRUE} ELSE {TRUE, FALSE}

Stat ==
  /\ ui.at = "stat"
  /\ \/ /\ files[ui.path] = "none"
        /\ ui' = [ui EXCEPT !.at = "enqueue"]
        /\ UNCHANGED files
     \/ /\ files[ui.path] # "none"
        /\ TRUE \in LooksValid(files[ui.path])
        /\ ui' = [ui EXCEPT !.at = "adopt"]
        /\ UNCHANGED files
     \/ /\ files[ui.path] # "none"
        /\ FALSE \in LooksValid(files[ui.path])
        /\ ui' = [ui EXCEPT !.at = "enqueue"]
        /\ files' = [files EXCEPT ![ui.path] = "none"]
  /\ UNCHANGED <<temp, lists, active, paused, worker, screen, bounds>>

Adopt ==
  /\ ui.at = "adopt"
  /\ ready' = ready \cup {ui.path}
  /\ cooling' = cooling \ {ui.path}
  /\ ui' = [ui EXCEPT !.at = "snap"]
  /\ UNCHANGED <<files, temp, queue, pending, failed, active, paused, worker, screen, bounds>>

\* The newest request goes to the front; a full queue loses its last job.
Enqueue ==
  LET p == ui.path
      full == Len(queue) >= MaxQueue
      dropped == IF full THEN {Last(queue).path} ELSE {}
      kept == IF full THEN Front(queue) ELSE queue
      add == ~paused /\ p \notin QueuedPaths(queue) /\ p \notin pending IN
  /\ ui.at = "enqueue"
  /\ queue' = IF add THEN <<Job(p, 0)>> \o kept ELSE queue
  /\ pending' = IF add THEN (pending \ dropped) \cup {p} ELSE pending
  /\ ui' = Resting
  /\ UNCHANGED <<files, temp, ready, failed, cooling, active, paused, worker, screen, bounds>>

\* prepareImageTexture(): decode a ready file.  A path that failed to decode
\* once is not tried again in this session.
Decode ==
  LET p == ui.path
      try == p \in ready \ (failed \cup broken \cup shown) IN
  /\ ui.at = "decode"
  /\ shown' = IF try /\ files[p] = "whole" THEN shown \cup {p} ELSE shown
  /\ broken' = IF try /\ files[p] = "torn" THEN broken \cup {p} ELSE broken
  /\ ui' = Resting
  /\ UNCHANGED <<files, temp, lists, active, paused, worker, visible, moving, heavy, latest, bounds>>

-----------------------------------------------------------------------------
(* pruneSupersededVersions(), on either thread: the path being worked on   *)
(* is read first, the other versions' files are removed without the mutex, *)
(* and then the lists forget what was removed.                             *)

Present(p, spared) == { q \in Siblings(p) \ {spared} : files[q] # "none" }

Erase(S) ==
  /\ ready' = ready \ S
  /\ failed' = failed \ S
  /\ pending' = pending \ S
  /\ cooling' = cooling \ S

Snap ==
  /\ ui.at = "snap"
  /\ ui' = [ui EXCEPT !.at = "sweep", !.active = current]
  /\ UNCHANGED <<files, temp, lists, active, paused, worker, screen, bounds>>

\* The worker's file.normalized carries the name of its picture, so a sweep
\* takes it too, the one of the spared path included.
Sweep ==
  LET gone == Present(ui.path, ui.active) IN
  /\ ui.at = "sweep"
  /\ files' = [q \in Paths |-> IF q \in gone THEN "none" ELSE files[q]]
  /\ temp' = (temp /\ worker.job.path[1] # ui.path[1])
  /\ ui' = [ui EXCEPT !.at = IF gone = {} THEN "decode" ELSE "forget", !.gone = gone]
  /\ UNCHANGED <<lists, active, paused, worker, screen, bounds>>

Forget ==
  /\ ui.at = "forget"
  /\ Erase(ui.gone)
  /\ ui' = [ui EXCEPT !.at = "decode", !.gone = {}]
  /\ UNCHANGED <<files, temp, queue, active, paused, worker, screen, bounds>>

-----------------------------------------------------------------------------
(* The drawing thread: what cancels work.                                  *)

\* cancelQueuedExcept(): jobs off screen leave the queue at once; the active
\* one is cancelled when it has been off screen for 1.5 s.
Keep(S) ==
  /\ queue' = Only(queue, S)
  /\ pending' = pending \ (QueuedPaths(queue) \ S)
  /\ away' = IF current = NoPath \/ current \in S THEN "no"
             ELSE IF away = "no" THEN "since" ELSE away
  /\ cancel' = (cancel \/ (current # NoPath /\ current \notin S /\ away = "long"))

\* Each settled frame keeps the pictures on screen.
SyncImages ==
  /\ ui.at = "rest" /\ ~moving /\ ~heavy
  /\ Keep({ PathOf(i) : i \in visible })
  /\ UNCHANGED <<files, temp, ready, failed, cooling, current, busy, paused, worker, ui,
                 screen, bounds>>

\* A scroll begins: nothing is kept, once, and other pictures come on screen.
StartMoving(S) ==
  /\ ui.at = "rest" /\ ~moving /\ ~heavy /\ moves < MaxMoves
  /\ Keep({})
  /\ moving' = TRUE
  /\ visible' = S
  /\ moves' = moves + 1
  /\ UNCHANGED <<files, temp, ready, failed, cooling, current, busy, paused, worker, ui, shown,
                 broken, heavy, latest, fails, refreshes, crashes>>

StopMoving ==
  /\ ui.at = "rest" /\ moving
  /\ moving' = FALSE
  /\ UNCHANGED <<files, temp, lists, active, paused, worker, ui, shown, broken, visible, heavy,
                 latest, bounds>>

\* Mutant: what is pending is cleared with the queue, the active job's path too.
SwitchForgetsActive(S) ==
  /\ ui.at = "rest" /\ ~heavy /\ moves < MaxMoves
  /\ queue' = <<>>
  /\ pending' = {}
  /\ shown' = {}
  /\ visible' = S
  /\ moves' = moves + 1
  /\ UNCHANGED <<files, temp, ready, failed, cooling, active, paused, worker, ui, broken, moving,
                 heavy, latest, fails, refreshes, crashes>>

\* Another catalog is chosen: cancelQueuedRequests() and the textures go.
SwitchCatalog(S) ==
  /\ ui.at = "rest" /\ ~heavy /\ moves < MaxMoves
  /\ queue' = <<>>
  /\ pending' = pending \ QueuedPaths(queue)
  /\ shown' = {}
  /\ visible' = S
  /\ moves' = moves + 1
  /\ UNCHANGED <<files, temp, ready, failed, cooling, active, paused, worker, ui, broken, moving,
                 heavy, latest, fails, refreshes, crashes>>

\* prepareForHeavyWork() before an install: the textures go and cancelAll()
\* ends the image work, queued and active.
Suspend ==
  /\ ui.at = "rest" /\ ~heavy /\ moves < MaxMoves
  /\ heavy' = TRUE
  /\ shown' = {}
  /\ queue' = <<>>
  /\ pending' = pending \ QueuedPaths(queue)
  /\ cancel' = busy
  /\ moves' = moves + 1
  /\ UNCHANGED <<files, temp, ready, failed, cooling, current, busy, away, paused, worker, ui,
                 broken, visible, moving, latest, fails, refreshes, crashes>>

Resume ==
  /\ ui.at = "rest" /\ heavy
  /\ heavy' = FALSE
  /\ UNCHANGED <<files, temp, lists, active, paused, worker, ui, shown, broken, visible, moving,
                 latest, bounds>>

\* The main loop pauses the network for installs and for the keyboard.
SetNetworkPaused ==
  /\ ui.at = "rest"
  /\ \/ paused /\ paused' = FALSE /\ UNCHANGED moves
     \/ ~paused /\ moves < MaxMoves /\ paused' = TRUE /\ moves' = moves + 1
  /\ UNCHANGED <<files, temp, lists, active, worker, ui, screen, fails, refreshes, crashes>>

\* The active job has been off screen for 1.5 s; a cooldown ends.
Linger ==
  /\ away = "since"
  /\ away' = "long"
  /\ UNCHANGED <<files, temp, lists, current, cancel, busy, paused, worker, ui, screen, bounds>>

Cool(p) ==
  /\ p \in cooling
  /\ cooling' = cooling \ {p}
  /\ UNCHANGED <<files, temp, queue, pending, ready, failed, active, paused, worker, ui, screen,
                 bounds>>

\* A newer catalog is loaded, in which a picture has another URL.
RefreshCatalog(p) ==
  /\ ui.at = "rest" /\ p # PathOf(p[1]) /\ refreshes < MaxRefresh
  /\ latest' = [latest EXCEPT ![p[1]] = p[2]]
  /\ refreshes' = refreshes + 1
  /\ UNCHANGED <<files, temp, lists, active, paused, worker, ui, shown, broken, visible, moving,
                 heavy, fails, moves, crashes>>

-----------------------------------------------------------------------------
(* The worker.                                                             *)

\* The mutex is held from the test of the queue to the last assignment.
Take ==
  /\ worker.at = "idle" /\ ~paused /\ queue # <<>>
  /\ worker' = [Idle EXCEPT !.at = "open", !.job = Head(queue)]
  /\ queue' = Tail(queue)
  /\ current' = Head(queue).path
  /\ busy' = TRUE
  /\ away' = "no"
  /\ UNCHANGED <<files, temp, pending, ready, failed, cooling, cancel, paused, ui, screen, bounds>>

\* downloadToFile() writes to the path itself.
OpenFile ==
  /\ worker.at = "open"
  /\ files' = [files EXCEPT ![worker.job.path] = "torn"]
  /\ worker' = [worker EXCEPT !.at = "body"]
  /\ UNCHANGED <<temp, lists, active, paused, ui, screen, bounds>>

\* The transfer ends, or its cancel callback stops it; then the request to
\* cancel is read under the mutex.
Fetched(ok) ==
  /\ worker.at = "body"
  /\ ok \/ cancel \/ fails < MaxFails
  /\ worker' = [worker EXCEPT !.at = IF cancel THEN "discard"
                                     ELSE IF ok THEN "normalize" ELSE "invalid"]
  /\ fails' = IF ok \/ cancel THEN fails ELSE fails + 1
  /\ UNCHANGED <<files, temp, lists, active, paused, ui, screen, refreshes, moves, crashes>>

\* normalizeImageForVita(): write file.normalized, remove the download, rename.
WriteNormalized(ok) ==
  /\ worker.at = "normalize"
  /\ ok \/ fails < MaxFails
  /\ temp' = ok
  /\ worker' = [worker EXCEPT !.at = IF ok THEN "unlink" ELSE "invalid"]
  /\ fails' = IF ok THEN fails ELSE fails + 1
  /\ UNCHANGED <<files, lists, active, paused, ui, screen, refreshes, moves, crashes>>

Unlink ==
  /\ worker.at = "unlink"
  /\ files' = [files EXCEPT ![worker.job.path] = "none"]
  /\ worker' = [worker EXCEPT !.at = "rename"]
  /\ UNCHANGED <<temp, lists, active, paused, ui, screen, bounds>>

Rename ==
  /\ worker.at = "rename"
  /\ temp' = FALSE
  /\ files' = IF temp THEN [files EXCEPT ![worker.job.path] = "whole"] ELSE files
  /\ worker' = [worker EXCEPT !.at = IF temp THEN "valid" ELSE "invalid"]
  /\ UNCHANGED <<lists, active, paused, ui, screen, bounds>>

\* Read the request to cancel again and give up the path in one section.
Settle ==
  /\ worker.at \in {"valid", "invalid"}
  /\ worker' = [worker EXCEPT !.at = IF cancel THEN "discard"
                                     ELSE IF worker.at = "valid" THEN "publish" ELSE "fail"]
  /\ current' = NoPath
  /\ cancel' = FALSE
  /\ UNCHANGED <<files, temp, lists, busy, away, paused, ui, screen, bounds>>

\* A cancelled job: its file goes, then its place among the pending.
Discard ==
  /\ worker.at = "discard"
  /\ files' = [files EXCEPT ![worker.job.path] = "none"]
  /\ worker' = [worker EXCEPT !.at = "drop"]
  /\ UNCHANGED <<temp, lists, active, paused, ui, screen, bounds>>

\* Mutant: a cancelled job stays pending.
DropKeepsPending ==
  /\ worker.at = "drop"
  /\ current' = NoPath
  /\ cancel' = FALSE
  /\ busy' = FALSE
  /\ worker' = Idle
  /\ UNCHANGED <<files, temp, lists, away, paused, ui, screen, bounds>>

Drop ==
  /\ worker.at = "drop"
  /\ pending' = pending \ {worker.job.path}
  /\ current' = NoPath
  /\ cancel' = FALSE
  /\ busy' = FALSE
  /\ worker' = Idle
  /\ UNCHANGED <<files, temp, queue, ready, failed, cooling, away, paused, ui, screen, bounds>>

MarkReady ==
  LET p == worker.job.path IN
  /\ worker.at = "publish"
  /\ ready' = ready \cup {p}
  /\ pending' = pending \ {p}
  /\ failed' = failed \ {p}
  /\ cooling' = cooling \ {p}
  /\ worker' = [worker EXCEPT !.at = "sweep"]
  /\ UNCHANGED <<files, temp, queue, active, paused, ui, screen, bounds>>

\* The worker holds no path here, so its prune spares none.
WorkerSweep ==
  LET gone == Present(worker.job.path, NoPath) IN
  /\ worker.at = "sweep"
  /\ files' = [q \in Paths |-> IF q \in gone THEN "none" ELSE files[q]]
  /\ worker' = [worker EXCEPT !.at = "forget", !.gone = gone]
  /\ UNCHANGED <<temp, lists, active, paused, ui, screen, bounds>>

WorkerForget ==
  /\ worker.at = "forget"
  /\ Erase(worker.gone)
  /\ worker' = [worker EXCEPT !.at = "finish", !.gone = {}]
  /\ UNCHANGED <<files, temp, queue, active, paused, ui, screen, bounds>>

\* A failed job: its file goes and it waits for another attempt, unless it had
\* its last one or its source is unreachable.
Fail ==
  /\ worker.at = "fail"
  /\ files' = [files EXCEPT ![worker.job.path] = "none"]
  /\ \/ /\ worker.job.attempt + 1 < MaxRetries
        /\ worker' = [worker EXCEPT !.at = "requeue", !.job.attempt = @ + 1]
     \/ worker' = [worker EXCEPT !.at = "giveup"]
  /\ UNCHANGED <<temp, lists, active, paused, ui, screen, bounds>>

\* After the delay the job goes back to the queue as it is.
Requeue ==
  /\ worker.at = "requeue"
  /\ queue' = Append(queue, worker.job)
  /\ worker' = [worker EXCEPT !.at = "finish"]
  /\ UNCHANGED <<files, temp, pending, ready, failed, cooling, active, paused, ui, screen, bounds>>

MarkFailed ==
  LET p == worker.job.path IN
  /\ worker.at = "giveup"
  /\ pending' = pending \ {p}
  /\ failed' = failed \cup {p}
  /\ cooling' = cooling \cup {p}
  /\ worker' = [worker EXCEPT !.at = "finish"]
  /\ UNCHANGED <<files, temp, queue, ready, active, paused, ui, screen, bounds>>

Finish ==
  /\ worker.at = "finish"
  /\ busy' = FALSE
  /\ cancel' = FALSE
  /\ worker' = Idle
  /\ UNCHANGED <<files, temp, lists, current, away, paused, ui, screen, bounds>>

-----------------------------------------------------------------------------
(* Start: file.normalized is removed, and a cache over its limit loses     *)
(* whole files, the oldest first (which ones those are is left open).      *)
Trimmed(f) ==
  LET here == { q \in Paths : f[q] # "none" } IN
  { [q \in Paths |-> IF q \in here \ kept THEN "none" ELSE f[q]] :
    kept \in IF Cardinality(here) <= DiskLimit THEN {here}
             ELSE { K \in SUBSET here : Cardinality(K) = DiskKeep } }

Blank ==
  /\ temp = FALSE /\ queue = <<>> /\ pending = {} /\ ready = {} /\ failed = {} /\ cooling = {}
  /\ current = NoPath /\ cancel = FALSE /\ busy = FALSE /\ paused = FALSE /\ away = "no"
  /\ worker = Idle /\ ui = Resting /\ shown = {} /\ broken = {} /\ moving = FALSE
  /\ heavy = FALSE

CacheInit ==
  /\ Blank
  /\ files = [q \in Paths |-> "none"]
  /\ visible = Images
  /\ latest \in [Images -> { p[2] : p \in Paths }] /\ \A i \in Images : PathOf(i) \in Paths
  /\ fails = 0 /\ refreshes = 0 /\ moves = 0 /\ crashes = 0

\* The power goes: the lists are lost, the files stay as they are.
PowerCut ==
  /\ crashes < MaxCrash
  /\ crashes' = crashes + 1
  /\ files' \in Trimmed(files)
  /\ temp' = FALSE /\ queue' = <<>> /\ pending' = {} /\ ready' = {} /\ failed' = {}
  /\ cooling' = {} /\ current' = NoPath /\ cancel' = FALSE /\ busy' = FALSE /\ paused' = FALSE
  /\ away' = "no" /\ worker' = Idle /\ ui' = Resting /\ shown' = {} /\ broken' = {}
  /\ moving' = FALSE /\ heavy' = FALSE
  /\ UNCHANGED <<visible, latest, fails, refreshes, moves>>

UiStep == Stat \/ Adopt \/ Enqueue \/ Decode \/ Snap \/ Sweep \/ Forget

WorkerStep ==
  \/ Take \/ OpenFile \/ Unlink \/ Rename \/ Settle \/ Discard \/ Drop \/ MarkReady
  \/ WorkerSweep \/ WorkerForget \/ Fail \/ Requeue \/ MarkFailed \/ Finish
  \/ \E ok \in BOOLEAN : Fetched(ok) \/ WriteNormalized(ok)

UserStep ==
  \/ StopMoving \/ Suspend \/ Resume \/ SetNetworkPaused
  \/ \E S \in SUBSET Images : StartMoving(S) \/ SwitchCatalog(S)

CacheNext ==
  \/ UiStep \/ WorkerStep \/ UserStep \/ SyncImages \/ Linger \/ PowerCut
  \/ \E i \in Images : Lookup(i)
  \/ \E p \in Paths : RefreshCatalog(p) \/ Cool(p)

CacheSpec == CacheInit /\ [][CacheNext]_cacheVars

\* Every settled frame asks for all the pictures on screen in turn, so none is
\* passed over for ever; the worker is a thread of its own, and cooldowns are
\* clock time.
CacheFairSpec ==
  /\ CacheSpec
  /\ WF_cacheVars(UiStep) /\ WF_cacheVars(WorkerStep)
  /\ \A i \in Images : SF_cacheVars(Lookup(i))
  /\ \A p \in Paths : WF_cacheVars(Cool(p))

-----------------------------------------------------------------------------
(* Properties.                                                             *)

\* The path the worker has a job for; it is given up with the job's last step on the lists.
Held == IF worker.at \in {"idle", "sweep", "forget", "finish"} THEN {} ELSE {worker.job.path}

\* What is pending has a job: it is queued or in the worker's hands.  request() passes over a
\* pending path, so one without a job would never be asked for again.
PendingIsWorked == pending \subseteq QueuedPaths(queue) \cup Held

\* One job per file: a path is never queued twice, nor queued while the worker has it, and what
\* has a job is pending.  A second job would download over a picture that is already shown.
\* A URL that came back to a picture after a start is excepted (README, section 15).
OneJobPerFile ==
  refreshes <= 1 \/ crashes = 0 =>
    /\ Cardinality(QueuedPaths(queue)) = Len(queue)
    /\ Held \cap QueuedPaths(queue) = {}
    /\ QueuedPaths(queue) \cup Held \subseteq pending

\* What is pending and what has a job agree, whichever thread moved last.
JobsAgree == PendingIsWorked /\ OneJobPerFile

\* A picture that stays on screen is shown in the end, or its file could not be
\* decoded.
Appears ==
  \A i \in Images :
    <>[](i \in visible /\ ~moving /\ ~heavy /\ ~paused)
      => <>(PathOf(i) \in shown \cup broken)
=============================================================================
