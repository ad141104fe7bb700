----------------------------- MODULE InstallJob -----------------------------
(***************************************************************************)
(* One install at a time: InstallController and the DownloadManager jobs   *)
(* behind it, shared by two threads.                                       *)
(*                                                                         *)
(* The UI thread runs one frame after the other: it polls status(), draws  *)
(* what it got, and passes at most one call on to the controller.  The     *)
(* worker thread downloads, protects a data ZIP, installs with retries,    *)
(* and publishes workerDone_.  The worker takes its steps at any time,     *)
(* also between the steps of the UI's cancel(), which reads the state,     *)
(* raises two flags and then writes state and shell lock.  Calls that only *)
(* act once the worker is done are one step each.                          *)
(*                                                                         *)
(* The thread handle is not kept: it is reaped where `done` is TRUE, and   *)
(* every guard of the code reads "handle and not done".                    *)
(***************************************************************************)
EXTENDS Naturals, Sequences

CONSTANTS
    MaxJobs,       \* bound on the jobs ever enqueued
    MaxFaults,     \* bound on the threads that do not start and files that stay
    MaxAttempts,   \* kMaxInstallAttempts
    MaxIntegrity,  \* kMaxIntegrityAttempts
    Kind           \* what is requested, a subset of {"zip", "vpk", "plugin"}

ASSUME BoundAssumption ==
    /\ MaxJobs \in Nat /\ MaxFaults \in Nat
    /\ MaxAttempts \in Nat \ {0} /\ MaxIntegrity \in 1 .. MaxAttempts
ASSUME KindAssumption == Kind \subseteq {"zip", "vpk", "plugin"}

VARIABLES
    ui,        \* where the UI thread is within its frame
    shown,     \* the state the screen got from status() and draws
    state,     \* state_
    shell,     \* shellLocked_
    done,      \* workerDone_
    active,    \* activeJobId_
    kind,      \* link type of the active request; "saved" stands for savedZipMode_
    stop,      \* installCancelRequested_
    bgdl,      \* activeBgdlJob_: "no", "armed" (skipNextRead) or "due"
    reboot,    \* needsReboot_
    recovery,  \* zipRecoveryAvailable_
    job,       \* jobs_, with each job's two flags and its file
    last,      \* jobs enqueued so far
    pc,        \* where the worker is; "off" when there is none
    w,         \* the worker's local variables
    faults,    \* faults so far
    early      \* history: a cancellation was accepted before the first install attempt

request == <<active, kind, stop>>
offer   == <<bgdl, reboot, recovery>>
queue   == <<job, last, faults>>
story   == <<early>>
vars == <<ui, shown, state, shell, done, request, offer, queue, pc, w, story>>

Job   == 1 .. MaxJobs
NoJob == 0
State == {"Idle", "Downloading", "Paused", "Installing", "Completed", "Failed",
          "Cancelled"}
Terminal == {"Completed", "Failed", "Cancelled"}
Locking  == {"Downloading", "Installing"}

JobRecord == [st : {"none", "Queued", "Downloading", "Paused", "Completed",
                    "Failed", "Cancelled"},
              file : {"none", "part", "final"},
              cancel : BOOLEAN,   \* cancelRequested
              pause : BOOLEAN]    \* pauseRequested
NotThere == [st |-> "none", file |-> "none", cancel |-> FALSE, pause |-> FALSE]
Fresh    == [NotThere EXCEPT !.st = "Queued"]
Jobs     == {j \in Job : job[j].st # "none"}

\* What is left of the worker once the outcome is known, each done in one step.
Task == {"state", "unlock", "tidy", "publish"}
Local == [cur : Job \cup {NoJob},              \* the job runJob works on
          hr : {"none", "ok", "cancelled", "error"},   \* what HttpClient returned
          limit : BOOLEAN,                     \* diskSpaceHit or sizeLimitHit
          attempt : 0 .. MaxAttempts,
          kept : BOOLEAN,                      \* savedBeforeExtraction
          outcome : State,
          rest : Seq(Task)]
NoLocal == [cur |-> NoJob, hr |-> "none", limit |-> FALSE, attempt |-> 0,
            kept |-> FALSE, outcome |-> "Idle", rest |-> <<>>]

TypeOK ==
    /\ ui \in {"poll", "input", "flagDownload", "flagJob", "sayDownload",
               "flagInstall", "sayInstall", "lock", "join", "gone"}
    /\ shown \in State /\ state \in State
    /\ shell \in BOOLEAN /\ done \in BOOLEAN /\ stop \in BOOLEAN
    /\ active \in Job \cup {NoJob}
    /\ kind \in Kind \cup {"none", "saved"}
    /\ bgdl \in {"no", "armed", "due"}
    /\ reboot \in BOOLEAN /\ recovery \in BOOLEAN
    /\ job \in [Job -> JobRecord] /\ last \in 0 .. MaxJobs
    /\ pc \in {"off", "start", "transfer", "returned", "flagged", "pausedEvent",
               "judge", "plugin", "persist", "loop", "wait", "install", "offline",
               "finish"}
    /\ w \in Local
    /\ faults \in 0 .. MaxFaults
    /\ early \in BOOLEAN

-----------------------------------------------------------------------------
(* Helpers of both threads *)

Busy == ~done \/ state \in {"Downloading", "Paused", "Installing"}

\* setState, by the thread that has the shell lock to itself.
SetState(s) == state' = s /\ shell' = (s \in Locking)

Fault == faults < MaxFaults /\ faults' = faults + 1

\* cleanupCompletedJob: the entry leaves jobs_ only if every file is gone.
Cleanup(j) ==
    IF j \notin Jobs
    THEN UNCHANGED <<job, faults>>
    ELSE \/ job' = [job EXCEPT ![j] = NotThere] /\ UNCHANGED faults
         \/ Fault /\ \E f \in {job[j].file, "none"} : job' = [job EXCEPT ![j].file = f]

\* A worker is created and started, or that fails.
StartWorker(at) == done' = FALSE /\ pc' = at

-----------------------------------------------------------------------------
(* The UI thread: status() *)

\* A result is not shown before the worker has finished its tail.
ShownState == IF ~done /\ state \in Terminal THEN "Installing" ELSE state

\* Anything but the deferred BGDL job and a success whose time is up.
Poll ==
    /\ ui = "poll" /\ ui' = "input"
    /\ bgdl # "due"
    /\ bgdl' = IF bgdl = "armed" THEN "due" ELSE "no"
    /\ shown' = ShownState
    /\ UNCHANGED <<state, shell, done, request, reboot, recovery, queue, pc, w, story>>

\* acknowledgeResult, with its guards.
Acknowledge ==
    /\ done /\ state \in Terminal
    /\ ~recovery
    /\ SetState("Idle")
    /\ reboot' = FALSE /\ UNCHANGED recovery

\* maybeAutoAcknowledgeResult: only a success that needs no reboot.
PollDismiss ==
    /\ ui = "poll" /\ ui' = "input"
    /\ bgdl = "no"
    /\ state = "Completed" /\ ~reboot
    /\ Acknowledge
    /\ shown' = "Idle"
    /\ UNCHANGED <<done, request, bgdl, queue, pc, w, story>>

BgdlDue == bgdl = "due"

\* The PKG is handed to the system's own downloader, or that fails.
PollBgdl ==
    /\ ui = "poll" /\ ui' = "input"
    /\ BgdlDue
    /\ bgdl' = "no"
    /\ \E s \in {"Completed", "Failed"} : SetState(s) /\ shown' = s
    /\ UNCHANGED <<done, request, reboot, recovery, queue, pc, w, story>>

-----------------------------------------------------------------------------
(* The UI thread: one call of the controller in a frame *)

Called == ui = "input" /\ ui' = "poll" /\ UNCHANGED shown

NoCall ==
    /\ Called
    /\ UNCHANGED <<state, shell, done, request, offer, queue, pc, w, story>>

\* The screen takes no new request while its overlay is up, except Install All
\* behind a result that needs no decision.
MayRequest == Called /\ ~Busy /\ (shown = "Idle" \/ (shown \in Terminal /\ ~recovery))

\* No network or no space: a request that is over at once.
RequestRefused ==
    /\ MayRequest
    /\ SetState("Failed")
    /\ UNCHANGED <<done, request, offer, queue, pc, w, story>>

RequestBgdl ==
    /\ MayRequest
    /\ SetState("Downloading")
    /\ bgdl' = "armed"
    /\ stop' = FALSE
    /\ active' = NoJob
    /\ UNCHANGED <<done, kind, reboot, recovery, queue, pc, w, story>>

NewRequest(t) ==
    /\ kind' = t
    /\ stop' = FALSE
    /\ reboot' = FALSE
    /\ early' = FALSE

\* A job is enqueued and a worker started for it; without its thread the job is
\* cleaned up again, as far as its files allow.
RequestInstall(t) ==
    /\ MayRequest
    /\ last < MaxJobs
    /\ last' = last + 1
    /\ NewRequest(t)
    /\ recovery' = FALSE
    /\ \/ /\ SetState("Downloading")
          /\ StartWorker("start")
          /\ active' = last + 1
          /\ job' = [job EXCEPT ![last + 1] = Fresh]
          /\ UNCHANGED faults
       \/ /\ SetState("Failed")
          /\ Fault
          /\ active' = NoJob
          /\ \E left \in {Fresh, NotThere} : job' = [job EXCEPT ![last + 1] = left]
          /\ UNCHANGED <<done, pc>>
    /\ UNCHANGED <<bgdl, w>>

\* requestSavedZipExtraction.
RequestSaved ==
    /\ MayRequest
    /\ ~recovery
    /\ NewRequest("saved")
    /\ active' = NoJob
    /\ \/ SetState("Installing") /\ StartWorker("offline") /\ UNCHANGED faults
       \/ SetState("Failed") /\ Fault /\ UNCHANGED <<done, pc>>
    /\ UNCHANGED <<bgdl, recovery, job, last, w>>

\* pauseDownload.  Reading activeBgdlJob_ consumes its delay.
Pause ==
    /\ Called
    /\ shown = "Downloading"
    /\ state = "Downloading"
    /\ bgdl' = IF bgdl = "armed" THEN "due" ELSE bgdl
    /\ job' = IF bgdl # "due" /\ active \in Jobs /\ ~done /\ ~job[active].cancel
              THEN [job EXCEPT ![active].pause = TRUE] ELSE job
    /\ UNCHANGED <<state, shell, done, request, reboot, recovery, last, faults, pc, w,
                   story>>

\* resumeDownload: the same job again; without its thread it is cleaned up.
Resume ==
    /\ Called
    /\ shown = "Paused"
    /\ state = "Paused" /\ done
    /\ active \in Jobs /\ job[active].st = "Paused" /\ ~job[active].cancel
    /\ stop' = FALSE
    /\ LET again == [job[active] EXCEPT !.st = "Queued", !.pause = FALSE]
       IN  \/ /\ SetState("Downloading")
              /\ StartWorker("start")
              /\ job' = [job EXCEPT ![active] = again]
              /\ UNCHANGED <<active, faults>>
           \/ /\ SetState("Failed")
              /\ Fault
              /\ active' = NoJob
              /\ \E left \in {NotThere, again, [again EXCEPT !.file = "none"]} :
                    job' = [job EXCEPT ![active] = left]
              /\ UNCHANGED <<done, pc>>
    /\ UNCHANGED <<kind, offer, last, w, story>>

Close ==
    /\ Called
    /\ shown \in Terminal
    /\ Acknowledge
    /\ UNCHANGED <<done, request, bgdl, queue, pc, w, story>>

\* resolveZipRecovery, Keep or Delete; a Delete that fails changes nothing.
Resolve ==
    /\ Called
    /\ shown = "Failed" /\ recovery
    /\ state = "Failed" /\ done
    /\ SetState("Idle")
    /\ recovery' = FALSE /\ reboot' = FALSE
    /\ UNCHANGED <<done, request, bgdl, queue, pc, w, story>>

-----------------------------------------------------------------------------
(* The UI thread: cancel() *)

Overlay == shown \in {"Downloading", "Paused", "Installing"}

\* The worker is gone: the job goes with its bytes.
CancelPaused ==
    /\ Called
    /\ Overlay
    /\ state = "Paused" /\ done /\ active # NoJob
    /\ Cleanup(active)
    /\ active' = NoJob
    /\ SetState("Cancelled")
    /\ UNCHANGED <<done, kind, stop, offer, last, pc, w, early>>

\* currentState is read once; what follows relies on it.
Cancel ==
    /\ ui = "input"
    /\ Overlay
    /\ \/ state = "Downloading" /\ active # NoJob /\ ui' = "flagDownload"
       \/ state = "Installing" /\ ~done /\ kind # "plugin" /\ ui' = "flagInstall"
    /\ UNCHANGED <<shown, state, shell, done, request, offer, queue, pc, w, story>>

\* Worker positions from which the first install attempt is still to come.
BeforeInstall == {"start", "transfer", "returned", "flagged", "pausedEvent", "judge",
                  "persist"}

RaiseStop ==
    /\ ui \in {"flagDownload", "flagInstall"}
    /\ ui' = IF ui = "flagDownload" THEN "flagJob" ELSE "sayInstall"
    /\ stop' = TRUE
    /\ early' = (early \/ (pc \in BeforeInstall /\ kind # "plugin"))
    /\ UNCHANGED <<shown, state, shell, done, active, kind, offer, queue, pc, w>>

\* DownloadManager::cancel: a job not yet picked is over at once.
FlagJob ==
    /\ ui = "flagJob" /\ ui' = "sayDownload"
    /\ job' = CASE active \notin Jobs -> job
                [] active \in Jobs /\ job[active].st = "Queued" ->
                      [job EXCEPT ![active] = [@ EXCEPT !.cancel = TRUE,
                                               !.st = "Cancelled", !.file = "none"]]
                [] OTHER -> [job EXCEPT ![active].cancel = TRUE]
    /\ UNCHANGED <<shown, state, shell, done, request, offer, last, faults, pc, w, story>>

\* setState(Downloading or Installing, "Cancelling..."), then its lock.
SayCancelling ==
    /\ ui \in {"sayDownload", "sayInstall"} /\ ui' = "lock"
    /\ state' = IF ui = "sayDownload" THEN "Downloading" ELSE "Installing"
    /\ UNCHANGED <<shown, shell, done, request, offer, queue, pc, w, story>>

LockAgain ==
    /\ ui = "lock" /\ ui' = "poll"
    /\ shell' = TRUE
    /\ UNCHANGED <<shown, state, done, request, offer, queue, pc, w, story>>

-----------------------------------------------------------------------------
(* The UI thread: shutdown() *)

Exit ==
    /\ ui = "input" /\ ui' = "join"
    /\ shell' = FALSE
    /\ UNCHANGED <<shown, state, done, request, offer, queue, pc, w, story>>

\* sceKernelWaitThreadEnd; the worker is not asked to stop.
Join ==
    /\ ui = "join" /\ ui' = "gone"
    /\ pc = "off"
    /\ active' = NoJob
    /\ done' = TRUE
    /\ SetState("Idle")
    /\ UNCHANGED <<shown, kind, stop, offer, queue, pc, w, story>>

-----------------------------------------------------------------------------
(* The worker: processQueue and runJob *)

Queued == {j \in Jobs : job[j].st = "Queued"}
\* cancelFn's answer, its look at the link aside.
Flagged(j) == job[j].cancel \/ job[j].pause
Others   == <<ui, shown, request, offer, last, story>>

PickJob ==
    /\ pc = "start" /\ pc' = "transfer"
    /\ \E j \in Queued :
          /\ \A i \in Queued : j <= i
          /\ job' = [job EXCEPT ![j].st = "Downloading"]
          /\ w' = [w EXCEPT !.cur = j]
    /\ UNCHANGED <<Others, state, shell, done, faults>>

\* Cancelled before the worker got to it.
NothingQueued ==
    /\ pc = "start" /\ pc' = "judge"
    /\ Queued = {}
    /\ UNCHANGED <<Others, state, shell, done, job, w, faults>>

\* Bytes arrive: the progress callback stores Downloading without a lock.
Progress ==
    /\ pc = "transfer"
    /\ job[w.cur].file = "none"
    /\ job' = [job EXCEPT ![w.cur].file = "part"]
    /\ state' = "Downloading"
    /\ UNCHANGED <<Others, shell, done, pc, w, faults>>

\* The progress callback finds too little space or too many bytes.
HitLimit ==
    /\ pc = "transfer"
    /\ w' = [w EXCEPT !.limit = TRUE]
    /\ job' = [job EXCEPT ![w.cur].cancel = TRUE]
    /\ UNCHANGED <<Others, state, shell, done, pc, faults>>

\* cancelFn finds the link down, or a broken range download left a checkpoint.
LinkLost ==
    /\ pc = "transfer"
    /\ ~Flagged(w.cur)
    /\ job' = [job EXCEPT ![w.cur].pause = TRUE]
    /\ UNCHANGED <<Others, state, shell, done, pc, w, faults>>

HttpReturns(r) ==
    /\ pc = "transfer" /\ pc' = "returned"
    /\ r = "cancelled" => Flagged(w.cur)
    /\ r = "ok" => job[w.cur].file = "part"
    /\ w' = [w EXCEPT !.hr = r]
    /\ UNCHANGED <<Others, state, shell, done, job, faults>>

\* The job ends in state s with file f, and runJob returns.
JobEnds(s, f) ==
    /\ job' = [job EXCEPT ![w.cur] = [@ EXCEPT !.st = s, !.file = f]]
    /\ w' = [w EXCEPT !.hr = "none", !.limit = FALSE]
    /\ pc' = "judge"

\* The page of a file host gives no direct link.
ResolveFails ==
    /\ pc = "transfer"
    /\ JobEnds("Failed", job[w.cur].file)
    /\ UNCHANGED <<Others, state, shell, done, faults>>

\* The order of runJob's tests: limit, pause, cancel, error.
OverLimit ==
    /\ pc = "returned"
    /\ w.limit
    /\ JobEnds("Failed", "none")
    /\ UNCHANGED <<Others, state, shell, done, faults>>

PauseDue == job[w.cur].pause /\ ~job[w.cur].cancel

\* The pause test passed: the job is Paused, its event follows.
JobPauses ==
    /\ pc = "returned" /\ pc' = "pausedEvent"
    /\ ~w.limit /\ PauseDue
    /\ job' = [job EXCEPT ![w.cur].st = "Paused"]
    /\ w' = [w EXCEPT !.hr = "none"]
    /\ UNCHANGED <<Others, state, shell, done, faults>>

PausedEvent ==
    /\ pc = "pausedEvent" /\ pc' = "judge"
    /\ state' = "Paused"
    /\ UNCHANGED <<Others, shell, done, job, w, faults>>

JobGoesOn ==
    /\ pc = "returned" /\ pc' = "flagged"
    /\ ~w.limit /\ ~PauseDue
    /\ UNCHANGED <<Others, state, shell, done, job, w, faults>>

JobCancelled ==
    /\ pc = "flagged"
    /\ w.hr = "cancelled" \/ Flagged(w.cur)
    /\ JobEnds("Cancelled", "none")
    /\ UNCHANGED <<Others, state, shell, done, faults>>

\* The same test asks for the link once more.
JobUnlinked ==
    /\ pc = "flagged" /\ pc' = "judge"
    /\ w.hr # "cancelled" /\ ~Flagged(w.cur)
    /\ job' = [job EXCEPT ![w.cur] = [@ EXCEPT !.pause = TRUE, !.st = "Cancelled",
                                      !.file = "none"]]
    /\ w' = [w EXCEPT !.hr = "none"]
    /\ UNCHANGED <<Others, state, shell, done, faults>>

JobFails ==
    /\ pc = "flagged"
    /\ w.hr = "error" /\ ~Flagged(w.cur)
    /\ JobEnds("Failed", "none")
    /\ UNCHANGED <<Others, state, shell, done, faults>>

\* rename to the final name, and the Completed event.
JobCompletes ==
    /\ pc = "flagged"
    /\ w.hr = "ok" /\ ~Flagged(w.cur)
    /\ \/ JobEnds("Completed", "final") /\ state' = "Downloading" /\ UNCHANGED faults
       \/ /\ Fault
          /\ \E f \in {"none", "part", "final"} : JobEnds("Failed", f)
          /\ UNCHANGED state
    /\ UNCHANGED <<Others, shell, done>>

-----------------------------------------------------------------------------
(* The worker: what workerMain makes of the download *)

Screen == <<ui, shown, done, kind, stop, last, story>>

\* The outcome is known; the tasks that are left publish it.
Finish(s, tasks) ==
    /\ pc' = "finish"
    /\ w' = [w EXCEPT !.outcome = s, !.rest = tasks]

Downloaded  == w.cur # NoJob /\ job[w.cur].st = "Completed"
ActiveIs(s) == active \in Jobs /\ job[active].st = s

\* A paused download falls into the clean-up of a failed one.
JudgePausedTidies ==
    /\ pc = "judge"
    /\ ~Downloaded /\ ActiveIs("Paused")
    /\ Finish("Paused", <<"state", "unlock", "tidy", "publish">>)
    /\ UNCHANGED <<Screen, state, shell, active, offer, job, faults>>

\* Nothing of the job is cleaned up.
JudgePaused ==
    /\ pc = "judge"
    /\ ~Downloaded /\ ActiveIs("Paused")
    /\ Finish("Paused", <<"state", "unlock", "publish">>)
    /\ UNCHANGED <<Screen, state, shell, active, offer, job, faults>>

NotInstallable == IF Downloaded THEN ~ActiveIs("Completed") ELSE ~ActiveIs("Paused")

JudgeOver ==
    /\ pc = "judge"
    /\ NotInstallable
    /\ Finish(IF ActiveIs("Cancelled") THEN "Cancelled" ELSE "Failed",
              <<"state", "unlock", "tidy", "publish">>)
    /\ UNCHANGED <<Screen, state, shell, active, offer, job, faults>>

JudgeInstall ==
    /\ pc = "judge"
    /\ Downloaded /\ ActiveIs("Completed")
    /\ SetState("Installing")
    /\ pc' = CASE kind = "plugin" -> "plugin"
               [] kind = "zip" -> "persist"
               [] OTHER -> "loop"
    /\ UNCHANGED <<Screen, active, offer, job, faults, w>>

\* The folder of a plugin cannot be made: the job stays.
PluginNoFolder ==
    /\ pc = "plugin"
    /\ Finish("Failed", <<"state", "unlock", "publish">>)
    /\ UNCHANGED <<Screen, state, shell, active, offer, job, faults>>

PluginEnds ==
    /\ pc = "plugin"
    /\ \E s \in {"Completed", "Failed"} :
          /\ Finish(s, <<"state", "unlock", "tidy", "publish">>)
          /\ reboot' = (reboot \/ s = "Completed")
    /\ UNCHANGED <<Screen, state, shell, active, bgdl, recovery, job, faults>>

\* persistPendingZipRecovery moves the archive away and empties the job.
PersistZip ==
    /\ pc = "persist"
    /\ \/ /\ pc' = "loop"
          /\ Cleanup(active)
          /\ active' = NoJob
          /\ w' = [w EXCEPT !.kept = TRUE]
       \/ /\ Finish("Failed", <<"state", "unlock", "publish">>)
          /\ UNCHANGED <<job, faults, active>>
    /\ UNCHANGED <<Screen, state, shell, offer>>

-----------------------------------------------------------------------------
(* The worker: install attempts *)

Installer == <<Screen, state, shell, active, bgdl, reboot, job, faults>>

\* After a failure or a cancellation.
EndInstall(s) ==
    /\ Finish(s, IF w.kept THEN <<"state", "unlock", "publish">>
                 ELSE <<"state", "unlock", "tidy", "publish">>)
    /\ recovery' = (w.kept /\ s = "Failed")

StopSeen ==
    /\ pc \in {"loop", "wait"}
    /\ stop
    /\ EndInstall("Cancelled")
    /\ UNCHANGED Installer

\* The loop's test of the flag left out.
MayAttemptAnyway == pc = "loop"
MayAttempt == pc = "loop" /\ ~stop

\* Retries that never run out.
NextAttemptForever ==
    /\ MayAttempt
    /\ w' = [w EXCEPT !.attempt = IF @ < MaxAttempts THEN @ + 1 ELSE @]
    /\ pc' = IF w.attempt = 0 THEN "install" ELSE "wait"
    /\ UNCHANGED <<Installer, recovery>>

NextAttempt ==
    /\ MayAttempt
    /\ w.attempt < MaxAttempts
    /\ w' = [w EXCEPT !.attempt = @ + 1]
    /\ pc' = IF w.attempt = 0 THEN "install" ELSE "wait"
    /\ UNCHANGED <<Installer, recovery>>

OutOfAttempts ==
    /\ MayAttempt
    /\ w.attempt = MaxAttempts
    /\ EndInstall("Failed")
    /\ UNCHANGED Installer

\* setState(Installing, "retry..."), then the wait between attempts.
WaitRetry ==
    /\ pc = "wait" /\ pc' = "install"
    /\ ~stop
    /\ SetState("Installing")
    /\ UNCHANGED <<Screen, active, offer, job, faults, w>>

\* A transient error is tried again, one that speaks of integrity less often.
InstallSoftFails ==
    /\ pc = "install"
    /\ \/ pc' = "loop" /\ UNCHANGED <<recovery, w>>
       \/ w.attempt >= MaxIntegrity /\ EndInstall("Failed")
    /\ UNCHANGED Installer

InstallHardFails ==
    /\ pc = "install"
    /\ EndInstall("Failed")
    /\ UNCHANGED Installer

\* The dispatcher polls the flag where it can.
InstallStops ==
    /\ pc = "install"
    /\ stop
    /\ EndInstall("Cancelled")
    /\ UNCHANGED Installer

\* Receipt and clean-up come before Completed.
InstallOk ==
    /\ pc = "install"
    /\ Finish("Completed", IF w.kept THEN <<"state", "unlock", "publish">>
                           ELSE <<"tidy", "state", "unlock", "publish">>)
    /\ UNCHANGED <<Installer, recovery>>

\* workerSavedZipMain: one extraction, no retry.
OfflineEnds ==
    /\ pc = "offline"
    /\ \E s \in {"Completed", "Failed"} \cup (IF stop THEN {"Cancelled"} ELSE {}) :
          /\ Finish(s, <<"state", "unlock", "publish">>)
          /\ recovery' = (s = "Failed")
    /\ UNCHANGED Installer

-----------------------------------------------------------------------------
(* The worker: its tail *)

Doing(t) ==
    /\ pc = "finish"
    /\ w.rest # <<>> /\ Head(w.rest) = t
Done(t) == Doing(t) /\ pc' = pc /\ w' = [w EXCEPT !.rest = Tail(@)]

\* workerDone_ with the result, before the clean-up.
PublishStateAndDone ==
    /\ Done("state")
    /\ state' = w.outcome
    /\ done' = TRUE
    /\ UNCHANGED <<ui, shown, shell, request, offer, queue, story>>

PublishState ==
    /\ Done("state")
    /\ state' = w.outcome
    /\ UNCHANGED <<Screen, shell, active, offer, job, faults>>

Unlock ==
    /\ Done("unlock")
    /\ shell' = FALSE
    /\ UNCHANGED <<Screen, state, active, offer, job, faults>>

Tidy ==
    /\ Done("tidy")
    /\ Cleanup(active)
    /\ active' = NoJob
    /\ UNCHANGED <<Screen, state, shell, offer>>

\* workerDone_: the last thing the worker does.
PublishDone ==
    /\ Doing("publish")
    /\ done' = TRUE
    /\ pc' = "off"
    /\ w' = NoLocal
    /\ UNCHANGED <<ui, shown, state, shell, request, offer, queue, story>>

-----------------------------------------------------------------------------
Init ==
    /\ ui = "poll" /\ shown = "Idle" /\ state = "Idle"
    /\ shell = FALSE /\ done = TRUE
    /\ active = NoJob /\ kind = "none" /\ stop = FALSE
    /\ bgdl = "no" /\ reboot = FALSE /\ recovery = FALSE
    /\ job = [j \in Job |-> NotThere] /\ last = 0
    /\ pc = "off" /\ w = NoLocal
    /\ faults = 0
    /\ early = FALSE

Status == Poll \/ PollDismiss \/ PollBgdl

Call ==
    \/ NoCall \/ RequestRefused \/ RequestBgdl \/ RequestSaved
    \/ \E t \in Kind : RequestInstall(t)
    \/ Pause \/ Resume \/ Close \/ Resolve
    \/ CancelPaused \/ Cancel \/ Exit

CallGoesOn == RaiseStop \/ FlagJob \/ SayCancelling \/ LockAgain \/ Join

Run ==
    \/ PickJob \/ NothingQueued \/ Progress \/ HitLimit \/ LinkLost \/ ResolveFails
    \/ \E r \in {"ok", "cancelled", "error"} : HttpReturns(r)
    \/ OverLimit \/ JobPauses \/ PausedEvent \/ JobGoesOn \/ JobCancelled
    \/ JobUnlinked \/ JobFails \/ JobCompletes

Install ==
    \/ JudgePaused \/ JudgeOver \/ JudgeInstall
    \/ PluginNoFolder \/ PluginEnds \/ PersistZip
    \/ StopSeen \/ NextAttempt \/ OutOfAttempts \/ WaitRetry
    \/ InstallSoftFails \/ InstallHardFails \/ InstallStops \/ InstallOk
    \/ OfflineEnds

Finishing == PublishState \/ Unlock \/ Tidy \/ PublishDone

Worker == Run \/ Install \/ Finishing

\* The program has exited.
Gone == ui = "gone" /\ UNCHANGED vars

Next == Status \/ Call \/ CallGoesOn \/ Worker \/ Gone

\* Both threads are scheduled, and what the worker calls returns.  The user
\* need not press anything.
Spec == Init /\ [][Next]_vars /\ WF_vars(Worker) /\ WF_vars(Status \/ CallGoesOn \/ NoCall)

-----------------------------------------------------------------------------
(* Properties *)

\* The UI adds or removes a job only when no worker is left that may be using
\* jobs_: busy() must also cover the tail behind a published result.
JobsOwned == [][ui' # ui /\ Jobs' # Jobs => pc = "off"]_vars

\* The screen shows a result, which the user or Install All acts on, only once
\* the worker has finished the clean-up behind it.
ShownIsSettled == ui = "input" /\ shown \in Terminal => pc = "off"

\* A cancellation accepted at any point before the first install attempt, in
\* the queue, the download, its end or the saving of the ZIP, prevents it.
CancelPreventsInstall == early => pc \notin {"wait", "install"}

\* A paused download whose worker is gone still has its job, to be resumed or
\* cancelled, whatever was pressed while it was pausing.
PausedResumable == state = "Paused" /\ done => ActiveIs("Paused")

\* Every worker comes to its end: retries run out, whatever fails.
WorkerReturns == ~done ~> done
=============================================================================
