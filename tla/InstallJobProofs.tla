-------------------------- MODULE InstallJobProofs --------------------------
(***************************************************************************)
(* Proofs about InstallJob, for every number of jobs and faults, every     *)
(* limit on the attempts and every set of kinds: the types, that only one  *)
(* thread at a time changes the set of jobs, that a result on screen is    *)
(* settled, that a cancellation before the first install attempt is the    *)
(* last word, and that a paused download keeps its job.                    *)
(***************************************************************************)
EXTENDS InstallJob, TLAPS

-----------------------------------------------------------------------------
(* Types *)

LEMMA JobValues == NotThere \in JobRecord /\ Fresh \in JobRecord /\ NoJob \notin Job
  <1>1. NotThere \in JobRecord
    BY DEF NotThere, JobRecord
  <1>2. Fresh \in JobRecord
    BY DEF NotThere, Fresh, JobRecord
  <1>3. NoJob \notin Job
    BY BoundAssumption DEF NoJob, Job
  <1> QED BY <1>1, <1>2, <1>3

LEMMA JobUpdated ==
    ASSUME NEW f \in [Job -> JobRecord], NEW j, NEW r, j \in Job => r \in JobRecord
    PROVE  [f EXCEPT ![j] = r] \in [Job -> JobRecord]
  OBVIOUS

LEMMA NoLocalTyped == NoLocal \in Local
  BY BoundAssumption DEF NoLocal, Local, Task, State, NoJob

LEMMA TailTyped ==
    ASSUME TypeOK, NEW t, Done(t)
    PROVE  w' \in Local /\ pc' = "finish"
  <1>1. Tail(w.rest) \in Seq(Task)
    BY DEF Local, TypeOK, Done, Doing
  <1> QED BY <1>1 DEF Local, TypeOK, Done, Doing

LEMMA SetStateTyped ==
    ASSUME NEW s \in State, SetState(s)
    PROVE  state' \in State /\ shell' \in BOOLEAN
  BY DEF SetState

LEMMA FinishTyped ==
    ASSUME TypeOK, NEW s \in State, NEW tasks \in Seq(Task), Finish(s, tasks)
    PROVE  w' \in Local /\ pc' = "finish"
  BY DEF TypeOK, Finish, Local

LEMMA Tails ==
    /\ <<"state", "unlock", "publish">> \in Seq(Task)
    /\ <<"state", "unlock", "tidy", "publish">> \in Seq(Task)
    /\ <<"tidy", "state", "unlock", "publish">> \in Seq(Task)
  BY DEF Task

LEMMA EndInstallTyped ==
    ASSUME TypeOK, NEW s \in {"Failed", "Cancelled"}, EndInstall(s)
    PROVE  w' \in Local /\ pc' = "finish" /\ recovery' \in BOOLEAN
  <1>1. s \in State
    BY DEF State
  <1>2. w.kept \in BOOLEAN
    BY DEF TypeOK, Local
  <1> QED BY <1>1, <1>2, FinishTyped, Tails DEF EndInstall

LEMMA JobEndsTyped ==
    ASSUME TypeOK, NEW s \in {"Completed", "Failed", "Cancelled"},
           NEW f, w.cur \in Job => f \in {"none", "part", "final"}, JobEnds(s, f)
    PROVE  job' \in [Job -> JobRecord] /\ w' \in Local /\ pc' = "judge"
  <1>1. job' \in [Job -> JobRecord]
    <2>1. w.cur \in Job => [job[w.cur] EXCEPT !.st = s, !.file = f] \in JobRecord
      BY DEF TypeOK, JobRecord
    <2> QED BY <2>1, JobUpdated DEF TypeOK, JobEnds
  <1>2. w' \in Local
    BY DEF TypeOK, JobEnds, Local
  <1> QED BY <1>1, <1>2 DEF JobEnds

LEMMA CleanupTyped ==
    ASSUME TypeOK, NEW j, Cleanup(j)
    PROVE  job' \in [Job -> JobRecord] /\ faults' \in 0 .. MaxFaults
  <1>1. CASE j \notin Jobs
    BY <1>1 DEF Cleanup, TypeOK
  <1>2. CASE j \in Jobs /\ job' = [job EXCEPT ![j] = NotThere] /\ UNCHANGED faults
    BY <1>2, JobValues DEF TypeOK
  <1>3. CASE /\ j \in Jobs
             /\ Fault
             /\ \E f \in {job[j].file, "none"} : job' = [job EXCEPT ![j].file = f]
    <2>1. job' \in [Job -> JobRecord]
      BY <1>3 DEF TypeOK, Jobs, JobRecord
    <2> QED BY <1>3, <2>1, BoundAssumption DEF TypeOK, Fault
  <1> QED BY <1>1, <1>2, <1>3 DEF Cleanup

LEMMA ScreenTypes == ASSUME TypeOK, Status \/ Call \/ CallGoesOn PROVE TypeOK'
  <1>1. CASE Poll
    <2>1. shown' \in State
      BY <1>1 DEF Poll, ShownState, TypeOK, State
    <2> QED
      BY <1>1, <2>1
      DEF Poll, TypeOK, request, offer, queue, story
  <1>2. CASE PollDismiss
    <2>1. state' \in State /\ shell' \in BOOLEAN
      BY <1>2, SetStateTyped DEF PollDismiss, Acknowledge, State
    <2> QED
      BY <1>2, <2>1
      DEF PollDismiss, Acknowledge, State, TypeOK, request, offer, queue, story
  <1>3. CASE PollBgdl
    <2>1. state' \in State /\ shell' \in BOOLEAN /\ shown' \in State
      BY <1>3, SetStateTyped DEF PollBgdl, State
    <2> QED
      BY <1>3, <2>1
      DEF PollBgdl, TypeOK, request, offer, queue, story
  <1>4. CASE NoCall
    BY <1>4 DEF NoCall, Called, TypeOK, request, offer, queue, story
  <1>5. CASE RequestRefused
    <2>1. state' \in State /\ shell' \in BOOLEAN
      BY <1>5, SetStateTyped DEF RequestRefused, State
    <2> QED
      BY <1>5, <2>1
      DEF RequestRefused, MayRequest, Called, TypeOK, request, offer, queue, story
  <1>6. CASE RequestBgdl
    <2>1. state' \in State /\ shell' \in BOOLEAN
      BY <1>6, SetStateTyped DEF RequestBgdl, State
    <2> QED
      BY <1>6, <2>1
      DEF RequestBgdl, MayRequest, Called, TypeOK, request, offer, queue, story
  <1>7. CASE RequestSaved
    <2>1. state' \in State /\ shell' \in BOOLEAN
      BY <1>7, SetStateTyped DEF RequestSaved, State
    <2>2. done' \in BOOLEAN /\ (pc' = pc \/ pc' = "offline")
      BY <1>7 DEF RequestSaved, StartWorker, TypeOK
    <2>3. faults' \in 0 .. MaxFaults
      BY <1>7, BoundAssumption DEF RequestSaved, Fault, TypeOK
    <2> QED
      BY <1>7, <2>1, <2>2, <2>3
      DEF RequestSaved, MayRequest, Called, NewRequest, TypeOK, request, offer,
          queue, story
  <1>8. CASE Pause
    <2>1. job' \in [Job -> JobRecord]
      BY <1>8 DEF Pause, TypeOK, Jobs, JobRecord
    <2> QED
      BY <1>8, <2>1
      DEF Pause, Called, TypeOK, request, offer, queue, story
  <1>9. CASE Resume
    <2>1. state' \in State /\ shell' \in BOOLEAN
      BY <1>9, SetStateTyped DEF Resume, State
    <2>2. job' \in [Job -> JobRecord]
      BY <1>9, JobUpdated, JobValues DEF Resume, TypeOK, Jobs, JobRecord
    <2>3. done' \in BOOLEAN /\ (pc' = pc \/ pc' = "start")
      BY <1>9 DEF Resume, StartWorker, TypeOK
    <2>4. faults' = faults \/ Fault
      BY <1>9 DEF Resume
    <2>5. faults' \in 0 .. MaxFaults
      BY <1>9, <2>4, BoundAssumption DEF Fault, TypeOK
    <2>6. active' \in Job \cup {NoJob}
      BY <1>9 DEF Resume, TypeOK
    <2> QED
      BY <1>9, <2>1, <2>2, <2>3, <2>4, <2>5, <2>6
      DEF Resume, Called, TypeOK, request, offer, queue, story
  <1>10. CASE Close
    <2>1. state' \in State /\ shell' \in BOOLEAN
      BY <1>10, SetStateTyped DEF Close, Acknowledge, State
    <2> QED
      BY <1>10, <2>1
      DEF Close, Called, Acknowledge, TypeOK, request, offer, queue, story
  <1>11. CASE Resolve
    <2>1. state' \in State /\ shell' \in BOOLEAN
      BY <1>11, SetStateTyped DEF Resolve, State
    <2> QED
      BY <1>11, <2>1
      DEF Resolve, Called, TypeOK, request, offer, queue, story
  <1>12. CASE CancelPaused
    <2>1. state' \in State /\ shell' \in BOOLEAN
      BY <1>12, SetStateTyped DEF CancelPaused, State
    <2>2. job' \in [Job -> JobRecord] /\ faults' \in 0 .. MaxFaults
      BY <1>12, CleanupTyped DEF CancelPaused
    <2> QED
      BY <1>12, <2>1, <2>2
      DEF CancelPaused, Called, TypeOK, request, offer, queue, story
  <1>13. CASE Cancel
    BY <1>13 DEF Cancel, TypeOK, request, offer, queue, story
  <1>14. CASE Exit
    <2>1. shell' \in BOOLEAN /\ ui' = "join"
      BY <1>14 DEF Exit
    <2> QED
      BY <1>14, <2>1
      DEF Exit, TypeOK, request, offer, queue, story
  <1>15. CASE RaiseStop
    BY <1>15 DEF RaiseStop, TypeOK, request, offer, queue, story
  <1>16. CASE FlagJob
    <2>1. job' \in [Job -> JobRecord]
      BY <1>16 DEF FlagJob, TypeOK, Jobs, JobRecord
    <2> QED
      BY <1>16, <2>1
      DEF FlagJob, TypeOK, request, offer, queue, story
  <1>17. CASE SayCancelling
    BY <1>17 DEF SayCancelling, State, TypeOK, request, offer, queue, story
  <1>18. CASE LockAgain
    BY <1>18 DEF LockAgain, TypeOK, request, offer, queue, story
  <1>19. CASE Join
    <2>1. state' \in State /\ shell' \in BOOLEAN
      BY <1>19, SetStateTyped DEF Join, State
    <2> QED
      BY <1>19, <2>1
      DEF Join, TypeOK, request, offer, queue, story
  <1>20. ASSUME NEW t \in Kind, RequestInstall(t) PROVE TypeOK'
    <2>1. state' \in State /\ shell' \in BOOLEAN
      BY <1>20, SetStateTyped DEF RequestInstall, State
    <2>2. job' \in [Job -> JobRecord]
      BY <1>20, JobUpdated, JobValues DEF RequestInstall, TypeOK
    <2>3. last' \in 0 .. MaxJobs /\ faults' \in 0 .. MaxFaults
      BY <1>20, BoundAssumption DEF RequestInstall, TypeOK, Fault
    <2>4. active' \in Job \cup {NoJob}
      BY <1>20, BoundAssumption DEF RequestInstall, TypeOK, Job
    <2>5. done' \in BOOLEAN /\ (pc' = pc \/ pc' = "start")
      BY <1>20 DEF RequestInstall, TypeOK, StartWorker
    <2> QED
      BY <1>20, <2>1, <2>2, <2>3, <2>4, <2>5
      DEF RequestInstall, MayRequest, Called, NewRequest, TypeOK, request, offer,
          queue, story
  <1> QED
    BY <1>1, <1>2, <1>3, <1>4, <1>5, <1>6, <1>7, <1>8, <1>9, <1>10, <1>11, <1>12,
        <1>13, <1>14, <1>15, <1>16, <1>17, <1>18, <1>19, <1>20
    DEF Status, Call, CallGoesOn

LEMMA RunTypes == ASSUME TypeOK, Run PROVE TypeOK'
  <1>1. CASE PickJob
    <2>1. job' \in [Job -> JobRecord] /\ w' \in Local
      BY <1>1 DEF PickJob, TypeOK, Queued, Jobs, JobRecord, Local
    <2> QED
      BY <1>1, <2>1
      DEF PickJob, Others, TypeOK, request, offer, queue, story
  <1>2. CASE NothingQueued
    BY <1>2 DEF NothingQueued, Others, TypeOK, request, offer, queue, story
  <1>3. CASE Progress
    <2>1. job' \in [Job -> JobRecord]
      BY <1>3 DEF Progress, TypeOK, JobRecord
    <2> QED
      BY <1>3, <2>1
      DEF Progress, Others, State, TypeOK, request, offer, queue, story
  <1>4. CASE HitLimit
    <2>1. job' \in [Job -> JobRecord]
      BY <1>4 DEF HitLimit, TypeOK, JobRecord
    <2>2. w' \in Local
      BY <1>4 DEF HitLimit, TypeOK, Local
    <2> QED
      BY <1>4, <2>1, <2>2
      DEF HitLimit, Others, TypeOK, request, offer, queue, story
  <1>5. CASE LinkLost
    <2>1. job' \in [Job -> JobRecord]
      BY <1>5 DEF LinkLost, TypeOK, JobRecord
    <2> QED
      BY <1>5, <2>1
      DEF LinkLost, Others, TypeOK, request, offer, queue, story
  <1>6. CASE ResolveFails
    <2>1. job' \in [Job -> JobRecord] /\ w' \in Local /\ pc' = "judge"
      BY <1>6, JobEndsTyped DEF ResolveFails, TypeOK, JobRecord
    <2> QED
      BY <1>6, <2>1
      DEF ResolveFails, Others, TypeOK, request, offer, queue, story
  <1>7. CASE OverLimit
    <2>1. job' \in [Job -> JobRecord] /\ w' \in Local /\ pc' = "judge"
      BY <1>7, JobEndsTyped DEF OverLimit
    <2> QED
      BY <1>7, <2>1
      DEF OverLimit, Others, TypeOK, request, offer, queue, story
  <1>8. CASE JobPauses
    <2>1. job' \in [Job -> JobRecord]
      BY <1>8 DEF JobPauses, TypeOK, JobRecord
    <2>2. w' \in Local
      BY <1>8 DEF JobPauses, TypeOK, Local
    <2> QED
      BY <1>8, <2>1, <2>2
      DEF JobPauses, Others, TypeOK, request, offer, queue, story
  <1>9. CASE PausedEvent
    BY <1>9 DEF PausedEvent, Others, State, TypeOK, request, offer, queue, story
  <1>10. CASE JobGoesOn
    BY <1>10 DEF JobGoesOn, Others, TypeOK, request, offer, queue, story
  <1>11. CASE JobCancelled
    <2>1. job' \in [Job -> JobRecord] /\ w' \in Local /\ pc' = "judge"
      BY <1>11, JobEndsTyped DEF JobCancelled
    <2> QED
      BY <1>11, <2>1
      DEF JobCancelled, Others, TypeOK, request, offer, queue, story
  <1>12. CASE JobUnlinked
    <2>1. job' \in [Job -> JobRecord]
      BY <1>12 DEF JobUnlinked, TypeOK, JobRecord
    <2>2. w' \in Local
      BY <1>12 DEF JobUnlinked, TypeOK, Local
    <2> QED
      BY <1>12, <2>1, <2>2
      DEF JobUnlinked, Others, TypeOK, request, offer, queue, story
  <1>13. CASE JobFails
    <2>1. job' \in [Job -> JobRecord] /\ w' \in Local /\ pc' = "judge"
      BY <1>13, JobEndsTyped DEF JobFails
    <2> QED
      BY <1>13, <2>1
      DEF JobFails, Others, TypeOK, request, offer, queue, story
  <1>14. CASE JobCompletes
    <2>1. job' \in [Job -> JobRecord] /\ w' \in Local /\ pc' = "judge"
      BY <1>14, JobEndsTyped DEF JobCompletes
    <2>2. faults' \in 0 .. MaxFaults /\ state' \in State
      BY <1>14, BoundAssumption DEF JobCompletes, Fault, TypeOK, State
    <2> QED
      BY <1>14, <2>1, <2>2
      DEF JobCompletes, Others, TypeOK, request, offer, queue, story
  <1>15. ASSUME NEW r \in {"ok", "cancelled", "error"}, HttpReturns(r) PROVE TypeOK'
    <2>1. w' \in Local
      BY <1>15 DEF HttpReturns, TypeOK, Local
    <2> QED BY <1>15, <2>1 DEF HttpReturns, Others, TypeOK, request, offer, queue, story
  <1> QED
    BY <1>1, <1>2, <1>3, <1>4, <1>5, <1>6, <1>7, <1>8, <1>9, <1>10, <1>11, <1>12,
        <1>13, <1>14, <1>15
    DEF Run

LEMMA InstallTypes == ASSUME TypeOK, Install \/ Finishing PROVE TypeOK'
  <1>1. CASE JudgePaused
    <2>1. w' \in Local /\ pc' = "finish"
      BY <1>1, FinishTyped, Tails DEF JudgePaused, State
    <2> QED
      BY <1>1, <2>1
      DEF JudgePaused, Screen, TypeOK, request, offer, queue, story
  <1>2. CASE JudgeOver
    <2>1. w' \in Local /\ pc' = "finish"
      BY <1>2, FinishTyped, Tails DEF JudgeOver, State
    <2> QED
      BY <1>2, <2>1
      DEF JudgeOver, Screen, TypeOK, request, offer, queue, story
  <1>3. CASE JudgeInstall
    <2>1. state' \in State /\ shell' \in BOOLEAN
      BY <1>3, SetStateTyped DEF JudgeInstall, State
    <2>2. pc' \in {"plugin", "persist", "loop"}
      BY <1>3 DEF JudgeInstall
    <2> QED
      BY <1>3, <2>1, <2>2
      DEF JudgeInstall, Screen, TypeOK, request, offer, queue, story
  <1>4. CASE PluginNoFolder
    <2>1. w' \in Local /\ pc' = "finish"
      BY <1>4, FinishTyped, Tails DEF PluginNoFolder, State
    <2> QED
      BY <1>4, <2>1
      DEF PluginNoFolder, Screen, TypeOK, request, offer, queue, story
  <1>5. CASE PluginEnds
    <2>1. w' \in Local /\ pc' = "finish" /\ reboot' \in BOOLEAN
      BY <1>5, FinishTyped, Tails DEF PluginEnds, State, TypeOK
    <2> QED
      BY <1>5, <2>1
      DEF PluginEnds, Screen, TypeOK, request, offer, queue, story
  <1>6. CASE PersistZip
    <2>1. job' \in [Job -> JobRecord] /\ faults' \in 0 .. MaxFaults
      BY <1>6, CleanupTyped DEF PersistZip, TypeOK
    <2>2. w' \in Local /\ pc' \in {"loop", "finish"}
      BY <1>6, FinishTyped, Tails DEF PersistZip, State, TypeOK, Local
    <2> QED
      BY <1>6, <2>1, <2>2
      DEF PersistZip, Screen, TypeOK, request, offer, queue, story
  <1>7. CASE StopSeen
    <2>1. w' \in Local /\ pc' = "finish" /\ recovery' \in BOOLEAN
      BY <1>7, EndInstallTyped DEF StopSeen
    <2> QED
      BY <1>7, <2>1
      DEF StopSeen, Installer, Screen, TypeOK, request, offer, queue, story
  <1>8. CASE OutOfAttempts
    <2>1. w' \in Local /\ pc' = "finish" /\ recovery' \in BOOLEAN
      BY <1>8, EndInstallTyped DEF OutOfAttempts
    <2> QED
      BY <1>8, <2>1
      DEF OutOfAttempts, Installer, Screen, TypeOK, request, offer, queue, story
  <1>9. CASE InstallHardFails
    <2>1. w' \in Local /\ pc' = "finish" /\ recovery' \in BOOLEAN
      BY <1>9, EndInstallTyped DEF InstallHardFails
    <2> QED
      BY <1>9, <2>1
      DEF InstallHardFails, Installer, Screen, TypeOK, request, offer, queue, story
  <1>10. CASE InstallStops
    <2>1. w' \in Local /\ pc' = "finish" /\ recovery' \in BOOLEAN
      BY <1>10, EndInstallTyped DEF InstallStops
    <2> QED
      BY <1>10, <2>1
      DEF InstallStops, Installer, Screen, TypeOK, request, offer, queue, story
  <1>11. CASE NextAttempt
    <2>1. w' \in Local
      BY <1>11, BoundAssumption DEF NextAttempt, TypeOK, Local
    <2> QED
      BY <1>11, <2>1
      DEF NextAttempt, Installer, Screen, TypeOK, request, offer, queue, story
  <1>12. CASE WaitRetry
    <2>1. state' \in State /\ shell' \in BOOLEAN
      BY <1>12, SetStateTyped DEF WaitRetry, State
    <2> QED
      BY <1>12, <2>1
      DEF WaitRetry, Screen, TypeOK, request, offer, queue, story
  <1>13. CASE InstallSoftFails
    <2>1. w' \in Local /\ recovery' \in BOOLEAN /\ pc' \in {"loop", "finish"}
      BY <1>13, EndInstallTyped DEF InstallSoftFails, TypeOK
    <2> QED
      BY <1>13, <2>1
      DEF InstallSoftFails, Installer, Screen, TypeOK, request, offer, queue, story
  <1>14. CASE InstallOk
    <2>1. w' \in Local /\ pc' = "finish"
      BY <1>14, FinishTyped, Tails DEF InstallOk, State, TypeOK, Local
    <2> QED
      BY <1>14, <2>1
      DEF InstallOk, Installer, Screen, TypeOK, request, offer, queue, story
  <1>15. CASE OfflineEnds
    <2>1. w' \in Local /\ pc' = "finish" /\ recovery' \in BOOLEAN
      BY <1>15, FinishTyped, Tails DEF OfflineEnds, State
    <2> QED
      BY <1>15, <2>1
      DEF OfflineEnds, Installer, Screen, TypeOK, request, offer, queue, story
  <1>16. CASE PublishState
    <2>1. w' \in Local /\ pc' = "finish"
      BY <1>16, TailTyped DEF PublishState
    <2>2. state' \in State
      BY <1>16 DEF PublishState, TypeOK, Local
    <2> QED
      BY <1>16, <2>1, <2>2
      DEF PublishState, Screen, TypeOK, request, offer, queue, story
  <1>17. CASE Unlock
    <2>1. w' \in Local /\ pc' = "finish"
      BY <1>17, TailTyped DEF Unlock
    <2>2. shell' \in BOOLEAN
      BY <1>17 DEF Unlock
    <2> QED
      BY <1>17, <2>1, <2>2
      DEF Unlock, Screen, TypeOK, request, offer, queue, story
  <1>18. CASE Tidy
    <2>1. w' \in Local /\ pc' = "finish"
      BY <1>18, TailTyped DEF Tidy
    <2>2. job' \in [Job -> JobRecord] /\ faults' \in 0 .. MaxFaults
      BY <1>18, CleanupTyped DEF Tidy
    <2> QED
      BY <1>18, <2>1, <2>2
      DEF Tidy, Screen, TypeOK, request, offer, queue, story
  <1>19. CASE PublishDone
    <2>1. w' \in Local
      BY <1>19, NoLocalTyped DEF PublishDone
    <2> QED
      BY <1>19, <2>1
      DEF PublishDone, TypeOK, request, offer, queue, story
  <1> QED
    BY <1>1, <1>2, <1>3, <1>4, <1>5, <1>6, <1>7, <1>8, <1>9, <1>10, <1>11, <1>12,
        <1>13, <1>14, <1>15, <1>16, <1>17, <1>18, <1>19
    DEF Install, Finishing

LEMMA Types == TypeOK /\ [Next]_vars => TypeOK'
  <1> SUFFICES ASSUME TypeOK, [Next]_vars PROVE TypeOK'
    OBVIOUS
  <1>1. CASE UNCHANGED vars
    BY <1>1 DEF TypeOK, vars, request, offer, queue, story
  <1> QED
    BY <1>1, ScreenTypes, RunTypes, InstallTypes DEF Next, Worker, Gone

LEMMA InitTypes == Init => TypeOK
  <1> SUFFICES ASSUME Init PROVE TypeOK
    OBVIOUS
  <1>1. job \in [Job -> JobRecord]
    BY JobValues DEF Init
  <1>2. w \in Local
    BY NoLocalTyped DEF Init
  <1>3. /\ shell \in BOOLEAN /\ done \in BOOLEAN /\ stop \in BOOLEAN
        /\ reboot \in BOOLEAN /\ recovery \in BOOLEAN
        /\ early \in BOOLEAN
    BY DEF Init
  <1>4. last \in 0 .. MaxJobs /\ faults \in 0 .. MaxFaults
    BY BoundAssumption DEF Init
  <1> QED BY <1>1, <1>2, <1>3, <1>4 DEF Init, TypeOK, State

\* Every variable keeps its type: the attempts stay within kMaxInstallAttempts
\* and the worker is never anywhere but at its program points.
THEOREM TypeCorrect == Spec => []TypeOK
  BY InitTypes, Types, PTL DEF Spec

-----------------------------------------------------------------------------
(* One thread at a time *)

\* The worker is there exactly while workerDone_ is not set, and what the
\* screen shows as a result was shown with the worker gone.  A deferred BGDL
\* request keeps every other one away.
Alone ==
    /\ done <=> pc = "off"
    /\ ShownIsSettled
    /\ bgdl # "no" =>
          /\ pc = "off" /\ active = NoJob
          /\ \/ ui \in {"poll", "input", "join"} /\ state = "Downloading"
             \/ ui = "gone"

LEMMA RunFrame ==
    ASSUME Run
    PROVE  pc # "off" /\ pc' # "off" /\ UNCHANGED <<ui, shown, done, bgdl>>
  <1>1. CASE PickJob
    BY <1>1 DEF PickJob, Others, request, offer, queue, story
  <1>2. CASE NothingQueued
    BY <1>2 DEF NothingQueued, Others, request, offer, queue, story
  <1>3. CASE Progress
    BY <1>3 DEF Progress, Others, request, offer, queue, story
  <1>4. CASE HitLimit
    BY <1>4 DEF HitLimit, Others, request, offer, queue, story
  <1>5. CASE LinkLost
    BY <1>5 DEF LinkLost, Others, request, offer, queue, story
  <1>6. CASE ResolveFails
    BY <1>6 DEF ResolveFails, Others, JobEnds, request, offer, queue, story
  <1>7. CASE OverLimit
    BY <1>7 DEF OverLimit, Others, JobEnds, request, offer, queue, story
  <1>8. CASE JobPauses
    BY <1>8 DEF JobPauses, Others, request, offer, queue, story
  <1>9. CASE PausedEvent
    BY <1>9 DEF PausedEvent, Others, request, offer, queue, story
  <1>10. CASE JobGoesOn
    BY <1>10 DEF JobGoesOn, Others, request, offer, queue, story
  <1>11. CASE JobCancelled
    BY <1>11 DEF JobCancelled, Others, JobEnds, request, offer, queue, story
  <1>12. CASE JobUnlinked
    BY <1>12 DEF JobUnlinked, Others, request, offer, queue, story
  <1>13. CASE JobFails
    BY <1>13 DEF JobFails, Others, JobEnds, request, offer, queue, story
  <1>14. CASE JobCompletes
    BY <1>14 DEF JobCompletes, Others, JobEnds, request, offer, queue, story
  <1>15. ASSUME NEW r \in {"ok", "cancelled", "error"}, HttpReturns(r)
      PROVE pc # "off" /\ pc' # "off" /\ UNCHANGED <<ui, shown, done, bgdl>>
    BY <1>15 DEF HttpReturns, Others, request, offer, queue, story
  <1> QED
    BY <1>1, <1>2, <1>3, <1>4, <1>5, <1>6, <1>7, <1>8, <1>9, <1>10, <1>11, <1>12,
        <1>13, <1>14, <1>15
    DEF Run

LEMMA InstallFrame ==
    ASSUME Install \/ PublishState \/ Unlock \/ Tidy
    PROVE  pc # "off" /\ pc' # "off" /\ UNCHANGED <<ui, shown, done, bgdl>>
  <1>1. CASE JudgePaused
    BY <1>1 DEF JudgePaused, Screen, Finish, request, offer, queue, story
  <1>2. CASE JudgeOver
    BY <1>2 DEF JudgeOver, Screen, Finish, request, offer, queue, story
  <1>3. CASE JudgeInstall
    BY <1>3 DEF JudgeInstall, Screen, SetState, request, offer, queue, story
  <1>4. CASE PluginNoFolder
    BY <1>4 DEF PluginNoFolder, Screen, Finish, request, offer, queue, story
  <1>5. CASE PluginEnds
    BY <1>5 DEF PluginEnds, Screen, Finish, request, offer, queue, story
  <1>6. CASE PersistZip
    BY <1>6 DEF PersistZip, Screen, Finish, request, offer, queue, story
  <1>7. CASE StopSeen
    BY <1>7 DEF StopSeen, Installer, Screen, EndInstall, Finish, request, offer,
        queue, story
  <1>8. CASE NextAttempt
    BY <1>8 DEF NextAttempt, Installer, Screen, MayAttempt, request, offer, queue,
        story
  <1>9. CASE OutOfAttempts
    BY <1>9 DEF OutOfAttempts, Installer, Screen, EndInstall, Finish, MayAttempt,
        request, offer, queue, story
  <1>10. CASE WaitRetry
    BY <1>10 DEF WaitRetry, Screen, SetState, request, offer, queue, story
  <1>11. CASE InstallSoftFails
    BY <1>11 DEF InstallSoftFails, Installer, Screen, EndInstall, Finish, request,
        offer, queue, story
  <1>12. CASE InstallHardFails
    BY <1>12 DEF InstallHardFails, Installer, Screen, EndInstall, Finish, request,
        offer, queue, story
  <1>13. CASE InstallStops
    BY <1>13 DEF InstallStops, Installer, Screen, EndInstall, Finish, request,
        offer, queue, story
  <1>14. CASE InstallOk
    BY <1>14 DEF InstallOk, Installer, Screen, Finish, request, offer, queue, story
  <1>15. CASE OfflineEnds
    BY <1>15 DEF OfflineEnds, Installer, Screen, Finish, request, offer, queue, story
  <1>16. CASE PublishState
    BY <1>16 DEF PublishState, Screen, Done, Doing, request, offer, queue, story
  <1>17. CASE Unlock
    BY <1>17 DEF Unlock, Screen, Done, Doing, request, offer, queue, story
  <1>18. CASE Tidy
    BY <1>18 DEF Tidy, Screen, Done, Doing, request, offer, queue, story
  <1> QED
    BY <1>1, <1>2, <1>3, <1>4, <1>5, <1>6, <1>7, <1>8, <1>9, <1>10, <1>11, <1>12,
        <1>13, <1>14, <1>15, <1>16, <1>17, <1>18
    DEF Install

LEMMA ScreenAlone ==
    ASSUME TypeOK, Alone, Status \/ Call \/ CallGoesOn
    PROVE  Alone'
  <1>1. CASE Poll
    BY <1>1 DEF Poll, ShownState, Alone, ShownIsSettled,
        Terminal, Busy, request, offer, queue
  <1>2. CASE PollDismiss
    BY <1>2 DEF PollDismiss, Acknowledge, SetState, Alone, ShownIsSettled,
        Terminal, Busy, request, offer, queue
  <1>3. CASE PollBgdl
    BY <1>3 DEF PollBgdl, BgdlDue, SetState, Alone, ShownIsSettled,
        Terminal, Busy, request, offer, queue
  <1>4. CASE NoCall
    BY <1>4 DEF NoCall, Called, Alone, ShownIsSettled,
        Terminal, Busy, request, offer, queue
  <1>5. CASE RequestRefused
    BY <1>5 DEF RequestRefused, MayRequest, Called, SetState, Alone, ShownIsSettled,
        Terminal, Busy, request, offer, queue
  <1>6. CASE RequestBgdl
    BY <1>6 DEF RequestBgdl, MayRequest, Called, SetState, Alone, ShownIsSettled,
        Terminal, Busy, request, offer, queue
  <1>7. CASE RequestSaved
    BY <1>7 DEF RequestSaved, MayRequest, Called, SetState, NewRequest, StartWorker,
        Alone, ShownIsSettled,
        Terminal, Busy, request, offer, queue
  <1>8. CASE Pause
    BY <1>8 DEF Pause, Called, Alone, ShownIsSettled,
        Terminal, Busy, request, offer, queue
  <1>9. CASE Resume
    BY <1>9 DEF Resume, Called, SetState, StartWorker, Alone, ShownIsSettled,
        Terminal, Busy, request, offer, queue
  <1>10. CASE Close
    BY <1>10 DEF Close, Called, Acknowledge, SetState, Alone, ShownIsSettled,
        Terminal, Busy, request, offer, queue
  <1>11. CASE Resolve
    BY <1>11 DEF Resolve, Called, SetState, Alone, ShownIsSettled,
        Terminal, Busy, request, offer, queue
  <1>12. CASE CancelPaused
    BY <1>12 DEF CancelPaused, Called, SetState, Alone, ShownIsSettled,
        Terminal, Busy, request, offer, queue
  <1>13. CASE Cancel
    BY <1>13 DEF Cancel, Alone, ShownIsSettled,
        Terminal, Busy, request, offer, queue
  <1>14. CASE Exit
    BY <1>14 DEF Exit, Alone, ShownIsSettled,
        Terminal, Busy, request, offer, queue
  <1>15. CASE RaiseStop
    BY <1>15 DEF RaiseStop, Alone, ShownIsSettled,
        Terminal, Busy, request, offer, queue
  <1>16. CASE FlagJob
    BY <1>16 DEF FlagJob, Alone, ShownIsSettled,
        Terminal, Busy, request, offer, queue
  <1>17. CASE SayCancelling
    BY <1>17 DEF SayCancelling, Alone, ShownIsSettled,
        Terminal, Busy, request, offer, queue
  <1>18. CASE LockAgain
    BY <1>18 DEF LockAgain, Alone, ShownIsSettled,
        Terminal, Busy, request, offer, queue
  <1>19. CASE Join
    BY <1>19 DEF Join, SetState, Alone, ShownIsSettled,
        Terminal, Busy, request, offer, queue
  <1>20. ASSUME NEW t \in Kind, RequestInstall(t) PROVE Alone'
    BY <1>20 DEF RequestInstall, MayRequest, Called, SetState, NewRequest,
        StartWorker, Alone, ShownIsSettled,
        Terminal, Busy, request, offer, queue
  <1> QED
    BY <1>1, <1>2, <1>3, <1>4, <1>5, <1>6, <1>7, <1>8, <1>9, <1>10, <1>11, <1>12,
        <1>13, <1>14, <1>15, <1>16, <1>17, <1>18, <1>19, <1>20
    DEF Status, Call, CallGoesOn

LEMMA StaysAlone == TypeOK /\ Alone /\ [Next]_vars => Alone'
  <1> SUFFICES ASSUME TypeOK, Alone, [Next]_vars PROVE Alone'
    OBVIOUS
  <1>1. CASE UNCHANGED vars
    BY <1>1 DEF Alone, ShownIsSettled, vars, request, offer
  <1>2. CASE Run \/ Install \/ PublishState \/ Unlock \/ Tidy
    BY <1>2, RunFrame, InstallFrame DEF Alone, ShownIsSettled
  <1>3. CASE PublishDone
    BY <1>3 DEF PublishDone, Doing, Alone, ShownIsSettled, offer
  <1> QED
    BY <1>1, <1>2, <1>3, ScreenAlone DEF Next, Worker, Finishing, Gone

LEMMA InitAlone == Init => Alone
  BY DEF Init, Alone, ShownIsSettled, Terminal

\* What status() shows as a result, the worker has finished: Install All can go
\* on to the next request without meeting the clean-up of the last one.
THEOREM ResultSettled == Spec => []ShownIsSettled
  <1>1. Init => TypeOK /\ Alone
    BY InitTypes, InitAlone
  <1>2. TypeOK /\ Alone /\ [Next]_vars => (TypeOK /\ Alone)'
    BY Types, StaysAlone
  <1>3. TypeOK /\ Alone => ShownIsSettled
    BY DEF Alone
  <1> QED BY <1>1, <1>2, <1>3, PTL DEF Spec

LEMMA Owner ==
    ASSUME TypeOK, Alone, [Next]_vars
    PROVE  ui' # ui /\ Jobs' # Jobs => pc = "off"
  <1>1. ASSUME UNCHANGED job PROVE Jobs' = Jobs
    BY <1>1 DEF Jobs
  <1>2. CASE Run \/ Install \/ PublishState \/ Unlock \/ Tidy
    BY <1>2, RunFrame, InstallFrame
  <1>3. CASE PublishDone \/ UNCHANGED vars
    BY <1>3 DEF PublishDone, vars
  <1>4. ASSUME NEW t \in Kind, RequestInstall(t) PROVE pc = "off"
    BY <1>4 DEF RequestInstall, MayRequest, Busy, Alone
  <1>5. CASE RequestRefused \/ RequestBgdl \/ RequestSaved \/ Resume \/ CancelPaused
             \/ PollDismiss \/ Close
    BY <1>5
    DEF RequestRefused, RequestBgdl, RequestSaved, MayRequest, Busy, Resume,
        CancelPaused, PollDismiss, Close, Acknowledge, Alone
  <1>6. CASE Pause
    <2>1. \A j \in Job : job'[j].st = job[j].st
      BY <1>6 DEF Pause, TypeOK, JobRecord
    <2> QED BY <2>1 DEF Jobs
  <1>7. CASE FlagJob
    <2>1. \A j \in Job : (job'[j].st # "none") <=> (job[j].st # "none")
      BY <1>7 DEF FlagJob, Jobs, TypeOK, JobRecord
    <2> QED BY <2>1 DEF Jobs
  <1>8. CASE Poll \/ PollBgdl \/ NoCall \/ Resolve \/ Cancel \/ Exit \/ RaiseStop
             \/ SayCancelling \/ LockAgain \/ Join
    BY <1>1, <1>8
    DEF Poll, PollBgdl, NoCall, Resolve, Cancel, Exit, RaiseStop, SayCancelling,
        LockAgain, Join, queue
  <1> QED
    BY <1>2, <1>3, <1>4, <1>5, <1>6, <1>7, <1>8
    DEF Next, Status, Call, CallGoesOn, Worker, Finishing, Gone

\* jobs_ has no lock: the UI adds and removes entries with no worker left.
THEOREM OneOwner == Spec => JobsOwned
  <1>1. Init => TypeOK /\ Alone
    BY InitTypes, InitAlone
  <1>2. TypeOK /\ Alone /\ [Next]_vars => (TypeOK /\ Alone)'
    BY Types, StaysAlone
  <1>3. TypeOK /\ Alone /\ [Next]_vars => [ui' # ui /\ Jobs' # Jobs => pc = "off"]_vars
    BY Owner
  <1> QED BY <1>1, <1>2, <1>3, PTL DEF Spec, JobsOwned

-----------------------------------------------------------------------------
(* A cancellation before the first attempt *)

\* Where the worker can be once it has installed or extracted anything.
Installing == {"plugin", "persist", "loop", "wait", "install", "offline", "finish"}
Transferring == {"start", "transfer", "returned", "flagged", "pausedEvent", "judge"}

\* What keeps an early cancellation in force: the worker will see the flag, or
\* the job carries its own, or the UI is about to set that.
Heard ==
    /\ pc \in {"transfer", "returned", "flagged"} => w.cur \in Jobs
    /\ state = "Installing" /\ ~done => pc \in Installing
    /\ ui \in {"flagInstall", "sayInstall"} => pc \in Installing \cup {"off"}
    /\ pc = "persist" => ActiveIs("Completed")
    /\ early =>
          /\ CancelPreventsInstall
          /\ pc # "off" => stop
          /\ active \in Jobs /\ (pc \in Transferring \/ ActiveIs("Paused")) =>
                ui = "flagJob" \/ job[active].cancel

LEMMA JobEndsKeeps ==
    ASSUME TypeOK, w.cur \in Jobs, NEW s \in {"Completed", "Failed", "Cancelled"},
        NEW f,
           JobEnds(s, f)
    PROVE  /\ \A j \in Jobs' :
                 /\ j \in Jobs
                 /\ job'[j].cancel = job[j].cancel
                 /\ job'[j].st = "Paused" => job[j].st = "Paused"
           /\ pc' = "judge"
  BY DEF TypeOK, JobEnds, Jobs, JobRecord

LEMMA FlagKept ==
    ASSUME Heard, pc \in Transferring, UNCHANGED <<ui, active, early>>,
           \A j \in Jobs' : j \in Jobs /\ job'[j].cancel = job[j].cancel
    PROVE  early' /\ active' \in Jobs' => ui' = "flagJob" \/ job'[active'].cancel
  <1> SUFFICES ASSUME early', active' \in Jobs'
               PROVE  ui' = "flagJob" \/ job'[active'].cancel
    OBVIOUS
  <1>1. early /\ active \in Jobs
    OBVIOUS
  <1>2. ui = "flagJob" \/ job[active].cancel
    BY <1>1 DEF Heard
  <1>3. job'[active].cancel = job[active].cancel
    BY <1>1
  <1> QED BY <1>2, <1>3, Zenon

LEMMA ScreenHeard ==
    ASSUME TypeOK, Alone, Heard, Status \/ Call \/ CallGoesOn
    PROVE  Heard'
  <1> USE JobValues DEF Heard, Alone, CancelPreventsInstall, Installing, Transferring,
            BeforeInstall, ActiveIs, Jobs, TypeOK, JobRecord, request, offer, queue,
            story, Busy, Terminal
  <1>1. CASE Poll
    BY <1>1 DEF Poll, ShownState
  <1>2. CASE PollDismiss
    BY <1>2 DEF PollDismiss, Acknowledge, SetState
  <1>3. CASE PollBgdl
    BY <1>3 DEF PollBgdl, BgdlDue, SetState
  <1>4. CASE NoCall
    BY <1>4 DEF NoCall, Called
  <1>5. CASE RequestRefused
    BY <1>5 DEF RequestRefused, MayRequest, Called, SetState
  <1>6. CASE RequestBgdl
    BY <1>6 DEF RequestBgdl, MayRequest, Called, SetState
  <1>7. CASE RequestSaved
    BY <1>7 DEF RequestSaved, MayRequest, Called, SetState, NewRequest,
        StartWorker
  <1>8. CASE Pause
    BY <1>8 DEF Pause, Called
  <1>9. CASE Resume
    BY <1>9 DEF Resume, Called, SetState, StartWorker
  <1>10. CASE Close
    BY <1>10 DEF Close, Called, Acknowledge, SetState
  <1>11. CASE Resolve
    BY <1>11 DEF Resolve, Called, SetState
  <1>12. CASE CancelPaused
    BY <1>12 DEF CancelPaused, Called, SetState
  <1>13. CASE Cancel
    BY <1>13 DEF Cancel
  <1>14. CASE Exit
    BY <1>14 DEF Exit
  <1>15. CASE RaiseStop
    BY <1>15 DEF RaiseStop
  <1>16. CASE FlagJob
    BY <1>16 DEF FlagJob
  <1>17. CASE SayCancelling
    BY <1>17 DEF SayCancelling
  <1>18. CASE LockAgain
    BY <1>18 DEF LockAgain
  <1>19. CASE Join
    BY <1>19 DEF Join, SetState
  <1>20. ASSUME NEW t \in Kind, RequestInstall(t) PROVE Heard'
    BY <1>20 DEF RequestInstall, MayRequest, Called, SetState,
        NewRequest, StartWorker
  <1> QED
    BY <1>1, <1>2, <1>3, <1>4, <1>5, <1>6, <1>7, <1>8, <1>9, <1>10, <1>11, <1>12,
        <1>13, <1>14, <1>15, <1>16, <1>17, <1>18, <1>19, <1>20
    DEF Status, Call, CallGoesOn

LEMMA RunHeard ==
    ASSUME TypeOK, Alone, Heard, Run
    PROVE  Heard'
  <1>1. CASE PickJob
    <2>1. \A j \in Jobs' :
            /\ j \in Jobs
            /\ job'[j].cancel = job[j].cancel
            /\ job'[j].st = "Paused" => job[j].st = "Paused"
      BY <1>1 DEF PickJob, Heard, Queued, Jobs, TypeOK, JobRecord
    <2>2. w'.cur \in Jobs'
      BY <1>1 DEF PickJob, Queued, Jobs, TypeOK, JobRecord, Local
    <2>3. pc \in Transferring /\ UNCHANGED <<ui, active, early>>
      BY <1>1 DEF PickJob, Others, request, story, Transferring
    <2>4. \A j \in Jobs' : j \in Jobs /\ job'[j].cancel = job[j].cancel
      BY <2>1
    <2>5. early' /\ active' \in Jobs' => ui' = "flagJob" \/ job'[active'].cancel
      BY <2>3, <2>4, FlagKept
    <2> QED
      BY <1>1, <2>1, <2>2, <2>3, <2>5
      DEF PickJob, Others, Heard, Alone, CancelPreventsInstall, Installing,
        Transferring, ActiveIs, request, offer, story
  <1>2. CASE NothingQueued
    BY <1>2 DEF NothingQueued, Others, Heard, Alone, CancelPreventsInstall,
        Installing,
        Transferring, BeforeInstall, ActiveIs, Jobs, TypeOK, JobRecord, request,
        offer, queue, story, Busy, Terminal
  <1>3. CASE Progress
    BY <1>3 DEF Progress, Others, Heard, Alone, CancelPreventsInstall, Installing,
        Transferring, BeforeInstall, ActiveIs, Jobs, TypeOK, JobRecord, request,
        offer, queue, story, Busy, Terminal
  <1>4. CASE HitLimit
    BY <1>4 DEF HitLimit, Others, Heard, Alone, CancelPreventsInstall, Installing,
        Transferring, BeforeInstall, ActiveIs, Jobs, TypeOK, JobRecord, request,
        offer, queue, story, Busy, Terminal
  <1>5. CASE LinkLost
    BY <1>5 DEF LinkLost, Others, Heard, Alone, CancelPreventsInstall, Installing,
        Transferring, BeforeInstall, ActiveIs, Jobs, TypeOK, JobRecord, request,
        offer, queue, story, Busy, Terminal
  <1>6. CASE ResolveFails
    <2>1. w.cur \in Jobs
      BY <1>6 DEF ResolveFails, Heard
    <2>2. /\ pc' = "judge"
          /\ \A j \in Jobs' :
            /\ j \in Jobs
            /\ job'[j].cancel = job[j].cancel
            /\ job'[j].st = "Paused" => job[j].st = "Paused"
      BY <1>6, <2>1, JobEndsKeeps DEF ResolveFails
    <2>3. pc \in Transferring /\ UNCHANGED <<ui, active, early>>
      BY <1>6 DEF ResolveFails, Others, request, story, Transferring
    <2>4. \A j \in Jobs' : j \in Jobs /\ job'[j].cancel = job[j].cancel
      BY <2>2
    <2>5. early' /\ active' \in Jobs' => ui' = "flagJob" \/ job'[active'].cancel
      BY <2>3, <2>4, FlagKept
    <2> QED
      BY <1>6, <2>2, <2>3, <2>5
      DEF ResolveFails, Others, Heard, Alone, CancelPreventsInstall, Installing,
        Transferring, ActiveIs, request, offer, story
  <1>7. CASE OverLimit
    <2>1. w.cur \in Jobs
      BY <1>7 DEF OverLimit, Heard
    <2>2. /\ pc' = "judge"
          /\ \A j \in Jobs' :
            /\ j \in Jobs
            /\ job'[j].cancel = job[j].cancel
            /\ job'[j].st = "Paused" => job[j].st = "Paused"
      BY <1>7, <2>1, JobEndsKeeps DEF OverLimit
    <2>3. pc \in Transferring /\ UNCHANGED <<ui, active, early>>
      BY <1>7 DEF OverLimit, Others, request, story, Transferring
    <2>4. \A j \in Jobs' : j \in Jobs /\ job'[j].cancel = job[j].cancel
      BY <2>2
    <2>5. early' /\ active' \in Jobs' => ui' = "flagJob" \/ job'[active'].cancel
      BY <2>3, <2>4, FlagKept
    <2> QED
      BY <1>7, <2>2, <2>3, <2>5
      DEF OverLimit, Others, Heard, Alone, CancelPreventsInstall, Installing,
        Transferring, ActiveIs, request, offer, story
  <1>8. CASE JobPauses
    <2>1. w.cur \in Jobs /\ ~job[w.cur].cancel
      BY <1>8 DEF JobPauses, PauseDue, Heard
    <2>2. \A j \in Jobs' : j \in Jobs /\ job'[j].cancel = job[j].cancel
      BY <1>8, <2>1 DEF JobPauses, Jobs, TypeOK, JobRecord
    <2>3. pc \in Transferring /\ UNCHANGED <<ui, active, early>>
      BY <1>8 DEF JobPauses, Others, request, story, Transferring
    <2>4. \A j \in Jobs' : j \in Jobs /\ job'[j].cancel = job[j].cancel
      BY <2>2
    <2>5. early' /\ active' \in Jobs' => ui' = "flagJob" \/ job'[active'].cancel
      BY <2>3, <2>4, FlagKept
    <2> QED
      BY <1>8, <2>2, <2>3, <2>5
      DEF JobPauses, Others, Heard, Alone, CancelPreventsInstall, Installing,
        Transferring, ActiveIs, request, offer, story
  <1>9. CASE PausedEvent
    BY <1>9 DEF PausedEvent, Others, Heard, Alone, CancelPreventsInstall, Installing,
        Transferring, BeforeInstall, ActiveIs, Jobs, TypeOK, JobRecord, request,
        offer, queue, story, Busy, Terminal
  <1>10. CASE JobGoesOn
    BY <1>10 DEF JobGoesOn, Others, Heard, Alone, CancelPreventsInstall, Installing,
        Transferring, BeforeInstall, ActiveIs, Jobs, TypeOK, JobRecord, request,
        offer, queue, story, Busy, Terminal
  <1>11. CASE JobCancelled
    <2>1. w.cur \in Jobs
      BY <1>11 DEF JobCancelled, Heard
    <2>2. /\ pc' = "judge"
          /\ \A j \in Jobs' :
            /\ j \in Jobs
            /\ job'[j].cancel = job[j].cancel
            /\ job'[j].st = "Paused" => job[j].st = "Paused"
      BY <1>11, <2>1, JobEndsKeeps DEF JobCancelled
    <2>3. pc \in Transferring /\ UNCHANGED <<ui, active, early>>
      BY <1>11 DEF JobCancelled, Others, request, story, Transferring
    <2>4. \A j \in Jobs' : j \in Jobs /\ job'[j].cancel = job[j].cancel
      BY <2>2
    <2>5. early' /\ active' \in Jobs' => ui' = "flagJob" \/ job'[active'].cancel
      BY <2>3, <2>4, FlagKept
    <2> QED
      BY <1>11, <2>2, <2>3, <2>5
      DEF JobCancelled, Others, Heard, Alone, CancelPreventsInstall, Installing,
        Transferring, ActiveIs, request, offer, story
  <1>12. CASE JobUnlinked
    <2>1. \A j \in Jobs' :
            /\ j \in Jobs
            /\ job'[j].cancel = job[j].cancel
            /\ job'[j].st = "Paused" => job[j].st = "Paused"
      BY <1>12 DEF JobUnlinked, Heard, Queued, Jobs, TypeOK, JobRecord
    <2>3. pc \in Transferring /\ UNCHANGED <<ui, active, early>>
      BY <1>12 DEF JobUnlinked, Others, request, story, Transferring
    <2>4. \A j \in Jobs' : j \in Jobs /\ job'[j].cancel = job[j].cancel
      BY <2>1
    <2>5. early' /\ active' \in Jobs' => ui' = "flagJob" \/ job'[active'].cancel
      BY <2>3, <2>4, FlagKept
    <2> QED
      BY <1>12, <2>1, <2>3, <2>5
      DEF JobUnlinked, Others, Heard, Alone, CancelPreventsInstall, Installing,
        Transferring, ActiveIs, request, offer, story
  <1>13. CASE JobFails
    <2>1. w.cur \in Jobs
      BY <1>13 DEF JobFails, Heard
    <2>2. /\ pc' = "judge"
          /\ \A j \in Jobs' :
            /\ j \in Jobs
            /\ job'[j].cancel = job[j].cancel
            /\ job'[j].st = "Paused" => job[j].st = "Paused"
      BY <1>13, <2>1, JobEndsKeeps DEF JobFails
    <2>3. pc \in Transferring /\ UNCHANGED <<ui, active, early>>
      BY <1>13 DEF JobFails, Others, request, story, Transferring
    <2>4. \A j \in Jobs' : j \in Jobs /\ job'[j].cancel = job[j].cancel
      BY <2>2
    <2>5. early' /\ active' \in Jobs' => ui' = "flagJob" \/ job'[active'].cancel
      BY <2>3, <2>4, FlagKept
    <2> QED
      BY <1>13, <2>2, <2>3, <2>5
      DEF JobFails, Others, Heard, Alone, CancelPreventsInstall, Installing,
        Transferring, ActiveIs, request, offer, story
  <1>14. CASE JobCompletes
    <2>1. w.cur \in Jobs
      BY <1>14 DEF JobCompletes, Heard
    <2>2. /\ pc' = "judge"
          /\ \A j \in Jobs' :
            /\ j \in Jobs
            /\ job'[j].cancel = job[j].cancel
            /\ job'[j].st = "Paused" => job[j].st = "Paused"
      BY <1>14, <2>1, JobEndsKeeps DEF JobCompletes
    <2>3. pc \in Transferring /\ UNCHANGED <<ui, active, early>>
      BY <1>14 DEF JobCompletes, Others, request, story, Transferring
    <2>4. \A j \in Jobs' : j \in Jobs /\ job'[j].cancel = job[j].cancel
      BY <2>2
    <2>5. early' /\ active' \in Jobs' => ui' = "flagJob" \/ job'[active'].cancel
      BY <2>3, <2>4, FlagKept
    <2> QED
      BY <1>14, <2>2, <2>3, <2>5
      DEF JobCompletes, Others, Heard, Alone, CancelPreventsInstall, Installing,
        Transferring, ActiveIs, request, offer, story, TypeOK
  <1>15. ASSUME NEW r \in {"ok", "cancelled", "error"}, HttpReturns(r) PROVE Heard'
    BY <1>15 DEF HttpReturns, Others, Heard, Alone, CancelPreventsInstall,
        Installing,
        Transferring, BeforeInstall, ActiveIs, Jobs, TypeOK, JobRecord, request,
        offer, queue, story, Busy, Terminal
  <1> QED
    BY <1>1, <1>2, <1>3, <1>4, <1>5, <1>6, <1>7, <1>8, <1>9, <1>10, <1>11, <1>12,
        <1>13, <1>14, <1>15
    DEF Run

LEMMA InstallHeard ==
    ASSUME TypeOK, Alone, Heard, Install \/ Finishing
    PROVE  Heard'
  <1> USE JobValues DEF Heard, Alone, CancelPreventsInstall, Installing, Transferring,
            BeforeInstall, ActiveIs, Jobs, TypeOK, JobRecord, request, offer, queue,
            story, Busy, Terminal
  <1>1. CASE JudgePaused
    BY <1>1 DEF JudgePaused, Screen, Finish
  <1>2. CASE JudgeOver
    BY <1>2 DEF JudgeOver, Screen, Finish
  <1>3. CASE JudgeInstall
    BY <1>3 DEF JudgeInstall, Screen, SetState
  <1>4. CASE PluginNoFolder
    BY <1>4 DEF PluginNoFolder, Screen, Finish
  <1>5. CASE PluginEnds
    BY <1>5 DEF PluginEnds, Screen, Finish
  <1>6. CASE PersistZip
    BY <1>6 DEF PersistZip, Screen, Finish
  <1>7. CASE StopSeen
    BY <1>7 DEF StopSeen, Installer, Screen, EndInstall, Finish
  <1>8. CASE NextAttempt
    BY <1>8 DEF NextAttempt, Installer, Screen, MayAttempt
  <1>9. CASE OutOfAttempts
    BY <1>9 DEF OutOfAttempts, Installer, Screen, EndInstall, Finish,
        MayAttempt
  <1>10. CASE WaitRetry
    BY <1>10 DEF WaitRetry, Screen, SetState
  <1>11. CASE InstallSoftFails
    BY <1>11 DEF InstallSoftFails, Installer, Screen, EndInstall, Finish
  <1>12. CASE InstallHardFails
    BY <1>12 DEF InstallHardFails, Installer, Screen, EndInstall, Finish
  <1>13. CASE InstallStops
    BY <1>13 DEF InstallStops, Installer, Screen, EndInstall, Finish
  <1>14. CASE InstallOk
    BY <1>14 DEF InstallOk, Installer, Screen, Finish
  <1>15. CASE OfflineEnds
    BY <1>15 DEF OfflineEnds, Installer, Screen, Finish
  <1>16. CASE PublishState
    BY <1>16 DEF PublishState, Screen, Done, Doing
  <1>17. CASE Unlock
    BY <1>17 DEF Unlock, Screen, Done, Doing
  <1>18. CASE Tidy
    BY <1>18 DEF Tidy, Screen, Done, Doing
  <1>19. CASE PublishDone
    BY <1>19 DEF PublishDone, Doing
  <1> QED
    BY <1>1, <1>2, <1>3, <1>4, <1>5, <1>6, <1>7, <1>8, <1>9, <1>10, <1>11, <1>12,
        <1>13, <1>14, <1>15, <1>16, <1>17, <1>18, <1>19
    DEF Install, Finishing

LEMMA StaysHeard == TypeOK /\ Alone /\ Heard /\ [Next]_vars => Heard'
  <1> SUFFICES ASSUME TypeOK, Alone, Heard, [Next]_vars PROVE Heard'
    OBVIOUS
  <1>1. CASE UNCHANGED vars
    BY <1>1
    DEF Heard, CancelPreventsInstall, ActiveIs, Jobs, vars, request, offer, queue,
        story
  <1> QED
    BY <1>1, ScreenHeard, RunHeard, InstallHeard DEF Next, Worker, Gone

LEMMA InitHeard == Init => Heard
  BY JobValues DEF Init, Heard, ActiveIs, Jobs

\* A cancellation that came before the first install attempt prevents it,
\* wherever the download and the UI were, and whatever was pressed afterwards.
THEOREM EarlyCancel == Spec => []CancelPreventsInstall
  <1>1. Init => TypeOK /\ Alone /\ Heard
    BY InitTypes, InitAlone, InitHeard
  <1>2. TypeOK /\ Alone /\ Heard /\ [Next]_vars => (TypeOK /\ Alone /\ Heard)'
    BY Types, StaysAlone, StaysHeard
  <1>3. Heard => CancelPreventsInstall
    BY DEF Heard, CancelPreventsInstall
  <1> QED BY <1>1, <1>2, <1>3, PTL DEF Spec

-----------------------------------------------------------------------------
(* A paused download *)

\* Every tail the worker can be in.
Rests == {<<"publish">>, <<"unlock", "publish">>, <<"state", "unlock", "publish">>,
          <<"tidy", "publish">>, <<"unlock", "tidy", "publish">>,
          <<"state", "unlock", "tidy", "publish">>,
          <<"tidy", "state", "unlock", "publish">>}

\* Where the state is still to be published, and where nothing is tidied.
StateDue == {<<"state", "unlock", "publish">>, <<"state", "unlock", "tidy", "publish">>,
             <<"tidy", "state", "unlock", "publish">>}
Untidy == {<<"publish">>, <<"unlock", "publish">>, <<"state", "unlock", "publish">>}

Resumable ==
    /\ PausedResumable
    /\ pc = "finish" =>
          /\ w.rest \in Rests
          /\ w.outcome = "Paused" => w.rest \in Untidy /\ ActiveIs("Paused")
          /\ state = "Paused" /\ w.rest \notin StateDue => w.outcome = "Paused"

\* What each task leaves of the tail.
LEMMA TailSteps ==
    ASSUME NEW r \in Rests
    PROVE  /\ Head(r) = "state" => Tail(r) \in Rests \ StateDue
           /\ Head(r) = "unlock" => r \notin StateDue /\ Tail(r) \in Rests \ StateDue
           /\ Head(r) = "tidy" => r \notin Untidy /\ Tail(r) \in Rests
           /\ Head(r) = "tidy" /\ Tail(r) \notin StateDue => r \notin StateDue
           /\ r \in Untidy /\ Head(r) \in {"state", "unlock"} => Tail(r) \in Untidy
  <1>1. CASE r = <<"publish">>
    <2>1. Head(r) = "publish" /\ Tail(r) = <<>>
      BY <1>1
    <2>2. Len(r) = 1 /\ Len(Tail(r)) = 0
      BY <1>1, <2>1
    <2> QED BY <1>1, <2>1, <2>2 DEF Rests, StateDue, Untidy
  <1>2. CASE r = <<"unlock", "publish">>
    <2>1. Head(r) = "unlock" /\ Tail(r) = <<"publish">>
      BY <1>2
    <2>2. Len(r) = 2 /\ Len(Tail(r)) = 1
      BY <1>2, <2>1
    <2> QED BY <1>2, <2>1, <2>2 DEF Rests, StateDue, Untidy
  <1>3. CASE r = <<"state", "unlock", "publish">>
    <2>1. Head(r) = "state" /\ Tail(r) = <<"unlock", "publish">>
      BY <1>3
    <2>2. Len(r) = 3 /\ Len(Tail(r)) = 2
      BY <1>3, <2>1
    <2> QED BY <1>3, <2>1, <2>2 DEF Rests, StateDue, Untidy
  <1>4. CASE r = <<"tidy", "publish">>
    <2>1. Head(r) = "tidy" /\ Tail(r) = <<"publish">>
      BY <1>4
    <2>2. Len(r) = 2 /\ Len(Tail(r)) = 1
      BY <1>4, <2>1
    <2> QED BY <1>4, <2>1, <2>2 DEF Rests, StateDue, Untidy
  <1>5. CASE r = <<"unlock", "tidy", "publish">>
    <2>1. Head(r) = "unlock" /\ Tail(r) = <<"tidy", "publish">>
      BY <1>5
    <2>2. Len(r) = 3 /\ Len(Tail(r)) = 2
      BY <1>5, <2>1
    <2> QED BY <1>5, <2>1, <2>2 DEF Rests, StateDue, Untidy
  <1>6. CASE r = <<"state", "unlock", "tidy", "publish">>
    <2>1. Head(r) = "state" /\ Tail(r) = <<"unlock", "tidy", "publish">>
      BY <1>6
    <2>2. Len(r) = 4 /\ Len(Tail(r)) = 3
      BY <1>6, <2>1
    <2> QED BY <1>6, <2>1, <2>2 DEF Rests, StateDue, Untidy
  <1>7. CASE r = <<"tidy", "state", "unlock", "publish">>
    <2>1. Head(r) = "tidy" /\ Tail(r) = <<"state", "unlock", "publish">>
      BY <1>7
    <2>2. Len(r) = 4 /\ Len(Tail(r)) = 3
      BY <1>7, <2>1
    <2> QED BY <1>7, <2>1, <2>2 DEF Rests, StateDue, Untidy
  <1> QED BY <1>1, <1>2, <1>3, <1>4, <1>5, <1>6, <1>7 DEF Rests

LEMMA ScreenResumable ==
    ASSUME TypeOK, Alone, Resumable, Status \/ Call \/ CallGoesOn
    PROVE  Resumable'
  <1> USE JobValues DEF Resumable, PausedResumable, Alone, Rests, StateDue, Untidy,
            ActiveIs, Jobs, TypeOK, JobRecord, Local, request, offer, queue, story,
            Busy, Terminal
  <1>1. CASE Poll
    BY <1>1 DEF Poll, ShownState
  <1>2. CASE PollDismiss
    BY <1>2 DEF PollDismiss, Acknowledge, SetState
  <1>3. CASE PollBgdl
    BY <1>3 DEF PollBgdl, BgdlDue, SetState
  <1>4. CASE NoCall
    BY <1>4 DEF NoCall, Called
  <1>5. CASE RequestRefused
    BY <1>5 DEF RequestRefused, MayRequest, Called, SetState
  <1>6. CASE RequestBgdl
    BY <1>6 DEF RequestBgdl, MayRequest, Called, SetState
  <1>7. CASE RequestSaved
    BY <1>7 DEF RequestSaved, MayRequest, Called, SetState, NewRequest,
        StartWorker
  <1>8. CASE Pause
    BY <1>8 DEF Pause, Called
  <1>9. CASE Resume
    BY <1>9 DEF Resume, Called, SetState, StartWorker
  <1>10. CASE Close
    BY <1>10 DEF Close, Called, Acknowledge, SetState
  <1>11. CASE Resolve
    BY <1>11 DEF Resolve, Called, SetState
  <1>12. CASE CancelPaused
    BY <1>12 DEF CancelPaused, Called, SetState
  <1>13. CASE Cancel
    BY <1>13 DEF Cancel
  <1>14. CASE Exit
    BY <1>14 DEF Exit
  <1>15. CASE RaiseStop
    BY <1>15 DEF RaiseStop
  <1>16. CASE FlagJob
    BY <1>16 DEF FlagJob
  <1>17. CASE SayCancelling
    BY <1>17 DEF SayCancelling
  <1>18. CASE LockAgain
    BY <1>18 DEF LockAgain
  <1>19. CASE Join
    BY <1>19 DEF Join, SetState
  <1>20. ASSUME NEW t \in Kind, RequestInstall(t) PROVE Resumable'
    BY <1>20 DEF RequestInstall, MayRequest, Called, SetState,
        NewRequest, StartWorker
  <1> QED
    BY <1>1, <1>2, <1>3, <1>4, <1>5, <1>6, <1>7, <1>8, <1>9, <1>10, <1>11, <1>12,
        <1>13, <1>14, <1>15, <1>16, <1>17, <1>18, <1>19, <1>20
    DEF Status, Call, CallGoesOn

LEMMA RunResumable ==
    ASSUME TypeOK, Alone, Resumable, Run
    PROVE  Resumable'
  <1>1. CASE PickJob
    BY <1>1 DEF PickJob, Others, Resumable, PausedResumable, Alone, Transferring,
        request, offer, queue, story
  <1>2. CASE NothingQueued
    BY <1>2 DEF NothingQueued, Others, Resumable, PausedResumable, Alone,
        Transferring, request, offer, queue, story
  <1>3. CASE Progress
    BY <1>3 DEF Progress, Others, Resumable, PausedResumable, Alone, Transferring,
        request, offer, queue, story
  <1>4. CASE HitLimit
    BY <1>4 DEF HitLimit, Others, Resumable, PausedResumable, Alone, Transferring,
        request, offer, queue, story
  <1>5. CASE LinkLost
    BY <1>5 DEF LinkLost, Others, Resumable, PausedResumable, Alone, Transferring,
        request, offer, queue, story
  <1>6. CASE ResolveFails
    BY <1>6 DEF ResolveFails, Others, JobEnds, Resumable, PausedResumable, Alone,
        Transferring, request, offer, queue, story
  <1>7. CASE OverLimit
    BY <1>7 DEF OverLimit, Others, JobEnds, Resumable, PausedResumable, Alone,
        Transferring, request, offer, queue, story
  <1>8. CASE JobPauses
    BY <1>8 DEF JobPauses, Others, Resumable, PausedResumable, Alone, Transferring,
        request, offer, queue, story
  <1>9. CASE PausedEvent
    BY <1>9 DEF PausedEvent, Others, Resumable, PausedResumable, Alone,
        Transferring, request, offer, queue, story
  <1>10. CASE JobGoesOn
    BY <1>10 DEF JobGoesOn, Others, Resumable, PausedResumable, Alone, Transferring,
        request, offer, queue, story
  <1>11. CASE JobCancelled
    BY <1>11 DEF JobCancelled, Others, JobEnds, Resumable, PausedResumable, Alone,
        Transferring, request, offer, queue, story
  <1>12. CASE JobUnlinked
    BY <1>12 DEF JobUnlinked, Others, Resumable, PausedResumable, Alone,
        Transferring, request, offer, queue, story
  <1>13. CASE JobFails
    BY <1>13 DEF JobFails, Others, JobEnds, Resumable, PausedResumable, Alone,
        Transferring, request, offer, queue, story
  <1>14. CASE JobCompletes
    BY <1>14 DEF JobCompletes, Others, JobEnds, Resumable, PausedResumable, Alone,
        Transferring, request, offer, queue, story
  <1>15. ASSUME NEW r \in {"ok", "cancelled", "error"}, HttpReturns(r) PROVE Resumable'
    BY <1>15 DEF HttpReturns, Others, Resumable, PausedResumable, Alone,
        Transferring, request, offer, queue, story
  <1> QED
    BY <1>1, <1>2, <1>3, <1>4, <1>5, <1>6, <1>7, <1>8, <1>9, <1>10, <1>11, <1>12,
        <1>13, <1>14, <1>15
    DEF Run

LEMMA InstallResumable ==
    ASSUME TypeOK, Alone, Resumable, Install \/ Finishing
    PROVE  Resumable'
  <1> USE JobValues DEF Resumable, PausedResumable, Alone, Rests, StateDue, Untidy,
            ActiveIs, Jobs, TypeOK, JobRecord, Local, request, offer, queue, story,
            Busy, Terminal
  <1>1. CASE JudgePaused
    BY <1>1 DEF JudgePaused, Screen, Finish
  <1>2. CASE JudgeOver
    BY <1>2 DEF JudgeOver, Screen, Finish
  <1>3. CASE JudgeInstall
    BY <1>3 DEF JudgeInstall, Screen, SetState
  <1>4. CASE PluginNoFolder
    BY <1>4 DEF PluginNoFolder, Screen, Finish
  <1>5. CASE PluginEnds
    BY <1>5 DEF PluginEnds, Screen, Finish
  <1>6. CASE PersistZip
    BY <1>6 DEF PersistZip, Screen, Finish
  <1>7. CASE StopSeen
    BY <1>7 DEF StopSeen, Installer, Screen, EndInstall, Finish
  <1>8. CASE NextAttempt
    BY <1>8 DEF NextAttempt, Installer, Screen, MayAttempt
  <1>9. CASE OutOfAttempts
    BY <1>9 DEF OutOfAttempts, Installer, Screen, EndInstall, Finish,
        MayAttempt
  <1>10. CASE WaitRetry
    BY <1>10 DEF WaitRetry, Screen, SetState
  <1>11. CASE InstallSoftFails
    BY <1>11 DEF InstallSoftFails, Installer, Screen, EndInstall, Finish
  <1>12. CASE InstallHardFails
    BY <1>12 DEF InstallHardFails, Installer, Screen, EndInstall, Finish
  <1>13. CASE InstallStops
    BY <1>13 DEF InstallStops, Installer, Screen, EndInstall, Finish
  <1>14. CASE InstallOk
    BY <1>14 DEF InstallOk, Installer, Screen, Finish
  <1>15. CASE OfflineEnds
    BY <1>15 DEF OfflineEnds, Installer, Screen, Finish
  <1>16. CASE PublishState
    <2>1. /\ pc = "finish" /\ pc' = "finish" /\ Head(w.rest) = "state"
          /\ w'.rest = Tail(w.rest) /\ w'.outcome = w.outcome
      BY <1>16 DEF PublishState, Done, Doing, TypeOK, Local
    <2>2. done' = done /\ active' = active /\ job' = job /\ state' = w.outcome
      BY <1>16 DEF PublishState, Screen
    <2> HIDE DEF Rests, StateDue, Untidy
    <2> QED BY <2>1, <2>2, TailSteps
  <1>17. CASE Unlock
    <2>1. /\ pc = "finish" /\ pc' = "finish" /\ Head(w.rest) = "unlock"
          /\ w'.rest = Tail(w.rest) /\ w'.outcome = w.outcome
      BY <1>17 DEF Unlock, Done, Doing, TypeOK, Local
    <2>2. done' = done /\ active' = active /\ job' = job /\ state' = state
      BY <1>17 DEF Unlock, Screen
    <2> HIDE DEF Rests, StateDue, Untidy
    <2> QED BY <2>1, <2>2, TailSteps
  <1>18. CASE Tidy
    <2>1. /\ pc = "finish" /\ pc' = "finish" /\ Head(w.rest) = "tidy"
          /\ w'.rest = Tail(w.rest) /\ w'.outcome = w.outcome
      BY <1>18 DEF Tidy, Done, Doing, TypeOK, Local
    <2>2. done' = done /\ state' = state
      BY <1>18 DEF Tidy, Screen
    <2> HIDE DEF Rests, StateDue, Untidy, ActiveIs
    <2>3. w.rest \in Rests /\ ~done
      BY <2>1
    <2>4. /\ w.rest \notin Untidy /\ Tail(w.rest) \in Rests
          /\ Tail(w.rest) \notin StateDue => w.rest \notin StateDue
      BY <2>1, <2>3, TailSteps
    <2>5. w'.outcome # "Paused" /\ ~(state' = "Paused" /\ w'.rest \notin StateDue)
      BY <2>1, <2>2, <2>4
    <2> QED BY <2>1, <2>2, <2>3, <2>4, <2>5
  <1>19. CASE PublishDone
    BY <1>19 DEF PublishDone, Doing
  <1> QED
    BY <1>1, <1>2, <1>3, <1>4, <1>5, <1>6, <1>7, <1>8, <1>9, <1>10, <1>11, <1>12,
        <1>13, <1>14, <1>15, <1>16, <1>17, <1>18, <1>19
    DEF Install, Finishing

LEMMA StaysResumable == TypeOK /\ Alone /\ Resumable /\ [Next]_vars => Resumable'
  <1> SUFFICES ASSUME TypeOK, Alone, Resumable, [Next]_vars PROVE Resumable'
    OBVIOUS
  <1>1. CASE UNCHANGED vars
    BY <1>1
    DEF Resumable, PausedResumable, ActiveIs, Jobs, vars, request, offer, queue,
        story
  <1> QED
    BY <1>1, ScreenResumable, RunResumable, InstallResumable DEF Next, Worker, Gone

LEMMA InitResumable == Init => Resumable
  BY DEF Init, Resumable, PausedResumable

\* A download that has come to rest as paused still has its job and its bytes,
\* to be resumed or cancelled: no tail of the worker cleans them up.
THEOREM PauseKeepsJob == Spec => []PausedResumable
  <1>1. Init => TypeOK /\ Alone /\ Resumable
    BY InitTypes, InitAlone, InitResumable
  <1>2. TypeOK /\ Alone /\ Resumable /\ [Next]_vars => (TypeOK /\ Alone /\ Resumable)'
    BY Types, StaysAlone, StaysResumable
  <1>3. Resumable => PausedResumable
    BY DEF Resumable
  <1> QED BY <1>1, <1>2, <1>3, PTL DEF Spec

=============================================================================
