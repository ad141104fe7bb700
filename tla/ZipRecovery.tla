----------------------------- MODULE ZipRecovery -----------------------------
(***************************************************************************)
(* Saving a downloaded ZIP before it is extracted                          *)
(* (InstallController::persistPendingZipRecovery), the startup recovery    *)
(* that finishes a save cut short (recoverInterruptedZipMoves), the purge  *)
(* of orphan jobs behind it (DownloadManager::purgeIncompleteJobs, then    *)
(* StorageMaintenance::cleanupTransient), and the deletions that end an    *)
(* archive's life.                                                         *)
(*                                                                         *)
(* The disk has two places: a directory per job under downloads/jobs/, and *)
(* manual/<key>/, where an archive of base b is the file b (one part) or   *)
(* b.001, b.002, ... (raw ranges) beside the sidecar b.info.txt.  All jobs *)
(* here share one key and one file name, the case in which names collide.  *)
(* A file's bytes are the job they came from.  One thread acts at a time:  *)
(* startup runs before any worker, and the UI's deletions are refused      *)
(* while a worker is busy.  An I/O error or a power cut may strike at any  *)
(* step; MaxFaults bounds how many do.                                     *)
(***************************************************************************)
EXTENDS Naturals

CONSTANTS Job,        \* download jobs that complete with a data ZIP
          NoJob,      \* no file
          Parts,      \* Parts[j]: how many range files the archive of j has
          Legacy,     \* jobs a client older than cleanup_protocol 2 left behind
          NumBases,   \* names tried; the last stands for "<stem>_recovered"
          MaxFaults   \* bound on I/O errors and power cuts

ASSUME PartsAssumption == Parts \in [Job -> {1, 2, 4}]
ASSUME LegacyAssumption == Legacy \subseteq Job
ASSUME NoJobAssumption == NoJob \notin Job
ASSUME BoundAssumption == NumBases \in Nat \ {0} /\ MaxFaults \in Nat

VARIABLES
    src,      \* src[j]: the parts of j present in its job directory
    marker,   \* marker[j]: the text of .psva_keep_zip
    dest,     \* dest[j]: the base the marker names
    store,    \* store[b][s]: whose bytes the file in slot s of base b holds
    info,     \* info[b]: the sidecar, as [of: whose, text: how much of it]
    pc,       \* what the process is doing; "off" when it is not running
    cur,      \* the job being saved or recovered
    at,       \* the base being saved to, extracted or deleted
    count,    \* number of parts of the archive at that base
    k,        \* next part of a loop over parts
    ok,       \* whether every step of a rollback or deletion succeeded
    why,      \* who deletes: "extracted", "delete", "resolve", "maintain"
    todo,     \* job directories the startup scan has yet to visit
    fetched,  \* jobs that were downloaded
    faults,   \* I/O errors and power cuts so far
    guarded,  \* history: jobs whose marker was created
    released  \* history: guarded jobs given up by a success or a deletion

disk  == <<src, marker, dest, store, info>>
work  == <<cur, at, count, k, ok, why>>
story == <<guarded, released>>
vars  == <<disk, pc, work, todo, fetched, faults, story>>

Base == 1 .. NumBases
Slot == 0 .. 4
\* A marker or sidecar on disk: missing; empty, or cut within the header; cut
\* short of the extraction target; cut inside the target's line; or whole.
Text == {"absent", "empty", "short", "cut", "full"}

PartsOf(j) == 1 .. Parts[j]
\* The slot of part p of an archive of n parts: b itself, or b.00p.
SlotFor(n, p) == IF n = 1 THEN 0 ELSE p
SlotOf(j, p)  == SlotFor(Parts[j], p)
SlotsOf(n)    == {SlotFor(n, p) : p \in 1 .. n}
NoInfo == [of |-> NoJob, text |-> "absent"]

TypeOK ==
    /\ src \in [Job -> SUBSET (1 .. 4)]
    /\ marker \in [Job -> Text]
    /\ dest \in [Job -> Base]
    /\ store \in [Base -> [Slot -> Job \cup {NoJob}]]
    /\ info \in [Base -> [of : Job \cup {NoJob}, text : Text]]
    /\ pc \in {"off", "recover", "recoverMove", "purge", "clean", "idle",
               "persist", "sidecar", "move", "rollback", "extract", "decide", "erase"}
    /\ cur \in Job \cup {NoJob}
    /\ at \in Base
    /\ count \in 1 .. 4
    /\ k \in 0 .. 5
    /\ ok \in BOOLEAN
    /\ why \in {"none", "extracted", "delete", "resolve", "maintain"}
    /\ todo \subseteq Job
    /\ fetched \subseteq Job
    /\ faults \in 0 .. MaxFaults
    /\ guarded \subseteq Job
    /\ released \subseteq Job

-----------------------------------------------------------------------------
(* The disk *)

Fault   == faults < MaxFaults /\ faults' = faults + 1
NoFault == UNCHANGED faults

JobDirs == {j \in Job : src[j] # {} \/ marker[j] # "absent"}

\* uniqueRecoveryPath tests b, b.001 and b.info.txt, and no other part.
Free(b) == store[b][0] = NoJob /\ store[b][1] = NoJob /\ info[b].text = "absent"
IsRecoveryPath(b) ==
    IF b = NumBases
    THEN \A c \in 1 .. NumBases - 1 : ~Free(c)
    ELSE Free(b) /\ \A c \in 1 .. b - 1 : ~Free(c)

\* A move within ux0:.  The target is overwritten if it exists, so that only
\* the callers' checks keep two archives apart.
MoveOut(j, p, b) ==
    /\ src' = [src EXCEPT ![j] = @ \ {p}]
    /\ store' = [store EXCEPT ![b][SlotOf(j, p)] = j]
MoveBack(j, p, b) ==
    /\ src' = [src EXCEPT ![j] = @ \cup {p}]
    /\ store' = [store EXCEPT ![b][SlotOf(j, p)] = NoJob]

\* What savedZips makes of the sidecar: the count line comes last, and a text
\* without one is an older single-file record.
ListedCount(b) == IF info[b].text = "full" THEN Parts[info[b].of] ELSE 1
Complete(b) == \A s \in SlotsOf(ListedCount(b)) : store[b][s] # NoJob
Listed(b) == info[b].text \in {"cut", "full"} /\ Complete(b)
\* The storage screen's scanSaved asks for no extraction target.
Scanned(b) == info[b].text \in {"short", "cut", "full"} /\ Complete(b)

\* The jobs whose bytes an archive of n parts at b is made of.
Owners(b, n) == {j \in Job : \E s \in SlotsOf(n) : store[b][s] = j}

\* Nothing in progress: the worker has returned, or the process is gone.
AtRest ==
    /\ cur' = NoJob
    /\ at' = 1
    /\ count' = 1
    /\ k' = 0
    /\ ok' = TRUE
    /\ why' = "none"

-----------------------------------------------------------------------------
(* The worker: save the completed ZIP, then extract it *)

\* A download completes: DownloadManager hands over job->finalPath and ranges.
Download(j) ==
    /\ pc = "idle"
    /\ j \notin fetched
    /\ fetched' = fetched \cup {j}
    /\ src' = [src EXCEPT ![j] = PartsOf(j)]
    /\ pc' = "persist"
    /\ cur' = j
    /\ UNCHANGED <<marker, dest, store, info, at, count, k, ok, why, todo,
                   faults, story>>

\* workerMain: "Could not protect completed ZIP; restart PSVitaAlive to
\* recover it.", which only a job with a marker is owed (README, section 15).
GiveUp ==
    /\ pc' = "idle"
    /\ AtRest
    /\ UNCHANGED <<todo, fetched>>

\* No directory for the key, or a size that does not add up (a fault); a
\* target that exists.
PersistRefuse(b) ==
    /\ pc = "persist"
    /\ IsRecoveryPath(b)
    /\ IF \E p \in PartsOf(cur) : store[b][SlotOf(cur, p)] # NoJob
       THEN NoFault ELSE Fault
    /\ GiveUp
    /\ UNCHANGED <<disk, story>>

\* The collision test left out.
CanPersistUnchecked(b) == pc = "persist" /\ IsRecoveryPath(b)

CanPersist(b) ==
    /\ pc = "persist"
    /\ IsRecoveryPath(b)
    /\ \A p \in PartsOf(cur) : store[b][SlotOf(cur, p)] = NoJob

\* The journal is written before the sidecar and before any move.
PersistJournal(b) ==
    /\ CanPersist(b)
    /\ marker' = [marker EXCEPT ![cur] = "full"]
    /\ dest' = [dest EXCEPT ![cur] = b]
    /\ guarded' = guarded \cup {cur}
    /\ at' = b
    /\ pc' = "sidecar"
    /\ NoFault
    /\ UNCHANGED <<src, store, info, cur, count, k, ok, why, todo, fetched,
                   released>>

\* writeFile truncates, then writes: a failed write leaves what got out.
JournalFails(b, text) ==
    /\ CanPersist(b)
    /\ Fault
    /\ marker' = [marker EXCEPT ![cur] = text]
    /\ dest' = [dest EXCEPT ![cur] = b]
    /\ guarded' = IF text = "absent" THEN guarded ELSE guarded \cup {cur}
    /\ GiveUp
    /\ UNCHANGED <<src, store, info, released>>

PersistSidecar ==
    /\ pc = "sidecar"
    /\ info' = [info EXCEPT ![at] = [of |-> cur, text |-> "full"]]
    /\ pc' = "move"
    /\ k' = 1
    /\ NoFault
    /\ UNCHANGED <<src, marker, dest, store, cur, at, count, ok, why, todo,
                   fetched, story>>

\* The sidecar is left as it is: the marker stays, and a later save finds the
\* base taken.
SidecarFails(text) ==
    /\ pc = "sidecar"
    /\ Fault
    /\ info' = [info EXCEPT ![at] =
                  IF text = "absent" THEN @ ELSE [of |-> cur, text |-> text]]
    /\ GiveUp
    /\ UNCHANGED <<src, marker, dest, store, guarded, released>>

PersistMove ==
    /\ pc = "move"
    /\ k \in PartsOf(cur)
    /\ \/ /\ NoFault
          /\ MoveOut(cur, k, at)
          /\ k' = k + 1
          /\ UNCHANGED <<pc, ok>>
       \/ /\ Fault
          /\ pc' = "rollback"
          /\ k' = k - 1
          /\ ok' = TRUE
          /\ UNCHANGED <<src, store>>
    /\ UNCHANGED <<marker, dest, info, cur, at, count, why, todo, fetched, story>>

PersistRollback ==
    /\ pc = "rollback"
    /\ k > 0
    /\ k' = k - 1
    /\ \/ /\ NoFault
          /\ MoveBack(cur, k, at)
          /\ UNCHANGED ok
       \/ /\ Fault
          /\ ok' = FALSE
          /\ UNCHANGED <<src, store>>
    /\ UNCHANGED <<marker, dest, info, pc, cur, at, count, why, todo, fetched,
                   story>>

\* The sidecar goes only if every part went back; the marker stays.
PersistRollbackEnd ==
    /\ pc = "rollback"
    /\ k = 0
    /\ IF ok
       THEN \/ NoFault /\ info' = [info EXCEPT ![at] = NoInfo]
            \/ Fault /\ UNCHANGED info
       ELSE NoFault /\ UNCHANGED info
    /\ GiveUp
    /\ UNCHANGED <<src, marker, dest, store, guarded, released>>

\* The marker and the job go as soon as the first part has moved.
CommitAfterFirstPart ==
    /\ pc = "move"
    /\ k > 1
    /\ marker' = [marker EXCEPT ![cur] = "absent"]
    /\ src' = [src EXCEPT ![cur] = {}]
    /\ pc' = "extract"
    /\ count' = Parts[cur]
    /\ NoFault
    /\ UNCHANGED <<dest, store, info, cur, at, k, ok, why, todo, fetched, story>>

\* All parts moved: the marker is removed (the result is not looked at), then
\* cleanupCompletedJob empties the job directory.
PersistCommit ==
    /\ pc = "move"
    /\ k > Parts[cur]
    /\ \/ NoFault /\ marker' = [marker EXCEPT ![cur] = "absent"]
       \/ Fault /\ UNCHANGED marker
    /\ src' = [src EXCEPT ![cur] = {}]
    /\ pc' = "extract"
    /\ count' = Parts[cur]
    /\ UNCHANGED <<dest, store, info, cur, at, k, ok, why, todo, fetched, story>>

\* removeSavedZipArchive, deleteSavedZip, resolveZipRecovery(false) and
\* StorageMaintenance::removeSelected all begin here, with the archive of n
\* parts at b: from now on its bytes may go.
StartErase(b, n, reason) ==
    /\ pc' = "erase"
    /\ at' = b
    /\ count' = n
    /\ k' = 1
    /\ ok' = TRUE
    /\ why' = reason
    /\ released' = released \cup Owners(b, n)
    /\ UNCHANGED <<disk, cur, todo, fetched, faults, guarded>>

\* The extraction of the archive at `at` succeeds, fails or is cancelled; a
\* failure waits for Keep or Delete, a cancelled archive stays saved.
ExtractOk   == pc = "extract" /\ StartErase(at, count, "extracted")
ExtractFail ==
    /\ pc = "extract"
    /\ pc' = "decide"
    /\ UNCHANGED <<disk, work, todo, fetched, faults, story>>
ToIdle == pc' = "idle" /\ AtRest /\ UNCHANGED <<disk, todo, fetched, faults, story>>
ExtractCancel == pc = "extract" /\ ToIdle
Keep          == pc = "decide" /\ ToIdle
Discard       == pc = "decide" /\ StartErase(at, count, "resolve")

\* deleteSavedZip returns at the first file it cannot remove; the others go on.
EraseFile ==
    /\ pc = "erase"
    /\ k <= count
    /\ \/ /\ NoFault
          /\ store' = [store EXCEPT ![at][SlotFor(count, k)] = NoJob]
          /\ k' = k + 1
          /\ UNCHANGED <<pc, cur, at, count, ok, why>>
       \/ /\ Fault
          /\ UNCHANGED store
          /\ IF why = "delete"
             THEN pc' = "idle" /\ AtRest
             ELSE ok' = FALSE /\ k' = k + 1 /\ UNCHANGED <<pc, cur, at, count, why>>
    /\ UNCHANGED <<src, marker, dest, info, todo, fetched, story>>

\* The sidecar goes last: in any case from the storage screen, otherwise only
\* when every part is gone.  A Delete that failed is asked again.
EraseInfo ==
    /\ pc = "erase"
    /\ k > count
    /\ LET want == ok \/ why = "maintain" IN
       \/ /\ NoFault
          /\ info' = IF want THEN [info EXCEPT ![at] = NoInfo] ELSE info
          /\ IF why = "resolve" /\ ~want
             THEN pc' = "decide" /\ UNCHANGED work
             ELSE pc' = "idle" /\ AtRest
       \/ /\ want /\ Fault
          /\ UNCHANGED info
          /\ IF why = "resolve"
             THEN pc' = "decide" /\ UNCHANGED work
             ELSE pc' = "idle" /\ AtRest
    /\ UNCHANGED <<src, marker, dest, store, todo, fetched, story>>

-----------------------------------------------------------------------------
(* The user, while no worker is busy *)

ExtractSaved(b) ==
    /\ pc = "idle"
    /\ Listed(b)
    /\ pc' = "extract"
    /\ at' = b
    /\ count' = ListedCount(b)
    /\ UNCHANGED <<disk, cur, k, ok, why, todo, fetched, faults, story>>

DeleteSaved(b) ==
    pc = "idle" /\ Listed(b) /\ StartErase(b, ListedCount(b), "delete")
MaintainSaved(b) ==
    pc = "idle" /\ Scanned(b) /\ StartErase(b, ListedCount(b), "maintain")

\* The storage screen removes a job directory, marked or not: eraseTree empties
\* it in the order the file system lists it and may stop anywhere.
MaintainJob(j) ==
    /\ pc = "idle"
    /\ j \in JobDirs
    /\ \/ /\ NoFault
          /\ src' = [src EXCEPT ![j] = {}]
          /\ marker' = [marker EXCEPT ![j] = "absent"]
       \/ /\ Fault
          /\ \E left \in SUBSET src[j] : src' = [src EXCEPT ![j] = left]
          /\ \/ marker' = [marker EXCEPT ![j] = "absent"]
             \/ UNCHANGED marker
    /\ released' = released \cup ({j} \cap guarded)
    /\ UNCHANGED <<dest, store, info, pc, work, todo, fetched, guarded>>

-----------------------------------------------------------------------------
(* Startup: recoverInterruptedZipMoves, purgeIncompleteJobs, cleanupTransient *)

Start ==
    /\ pc = "off"
    /\ pc' = "recover"
    /\ todo' = JobDirs
    /\ UNCHANGED <<disk, work, fetched, faults, story>>

Visited(j) == pc = "recover" /\ j \in todo /\ todo' = todo \ {j}

\* parseZipRecoveryTransaction accepts a text that reaches into the sidecar.
Readable(j) == marker[j] \in {"short", "cut", "full"}
\* Each part must be in exactly one of the two places.
Recoverable(j) ==
    /\ Readable(j)
    /\ \A p \in PartsOf(j) :
          p \in src[j] <=> store[dest[j]][SlotOf(j, p)] = NoJob

\* No marker, an unreadable or unparsable one, or an ambiguous pair of files.
RecoverSkip(j) ==
    /\ Visited(j)
    /\ IF Recoverable(j) THEN Fault ELSE NoFault
    /\ UNCHANGED <<disk, pc, work, fetched, story>>

\* A sidecar that exists, whatever it says, is kept.
RecoverSidecar(j) ==
    /\ Visited(j)
    /\ Recoverable(j)
    /\ info' = IF info[dest[j]].text = "absent"
               THEN [info EXCEPT ![dest[j]] = [of |-> j, text |-> marker[j]]]
               ELSE info
    /\ pc' = "recoverMove"
    /\ cur' = j
    /\ k' = 1
    /\ NoFault
    /\ UNCHANGED <<src, marker, dest, store, at, count, ok, why, fetched, story>>

RecoverSidecarFails(j, text) ==
    /\ Visited(j)
    /\ Recoverable(j)
    /\ info[dest[j]].text = "absent"
    /\ Fault
    /\ info' = IF text = "absent" THEN info
               ELSE [info EXCEPT ![dest[j]] = [of |-> j, text |-> text]]
    /\ UNCHANGED <<src, marker, dest, store, pc, work, fetched, story>>

\* A part moved before the power cut is moved again, and that rename fails.
RecoverMoveNoSkip ==
    /\ pc = "recoverMove"
    /\ k \in PartsOf(cur)
    /\ NoFault
    /\ IF store[dest[cur]][SlotOf(cur, k)] # NoJob
       THEN pc' = "recover" /\ AtRest /\ UNCHANGED <<src, store>>
       ELSE /\ MoveOut(cur, k, dest[cur])
            /\ k' = k + 1
            /\ UNCHANGED <<pc, cur, at, count, ok, why>>
    /\ UNCHANGED <<marker, dest, info, todo, fetched, story>>

RecoverMove ==
    /\ pc = "recoverMove"
    /\ k \in PartsOf(cur)
    /\ \/ /\ NoFault
          /\ IF store[dest[cur]][SlotOf(cur, k)] # NoJob
             THEN UNCHANGED <<src, store>>
             ELSE MoveOut(cur, k, dest[cur])
          /\ k' = k + 1
          /\ UNCHANGED <<pc, cur, at, count, ok, why>>
       \/ /\ store[dest[cur]][SlotOf(cur, k)] = NoJob
          /\ Fault
          /\ pc' = "recover"
          /\ AtRest
          /\ UNCHANGED <<src, store>>
    /\ UNCHANGED <<marker, dest, info, todo, fetched, story>>

RecoverDone ==
    /\ pc = "recoverMove"
    /\ k > Parts[cur]
    /\ \/ NoFault /\ marker' = [marker EXCEPT ![cur] = "absent"]
       \/ Fault /\ UNCHANGED marker
    /\ pc' = "recover"
    /\ AtRest
    /\ UNCHANGED <<src, dest, store, info, todo, fetched, story>>

RecoverEnd ==
    /\ pc = "recover"
    /\ todo = {}
    /\ pc' = "purge"
    /\ todo' = JobDirs
    /\ UNCHANGED <<disk, work, fetched, faults, story>>

\* The rule of cleanup_protocol 2 applied to every job.
PreservedMarked(j) == marker[j] # "absent"

\* startupJobAction: a marker, or a completed ZIP of an older client.
Preserved(j) == marker[j] # "absent" \/ j \in Legacy

PurgeKeep(j) ==
    /\ pc \in {"purge", "clean"}
    /\ j \in todo
    /\ Preserved(j)
    /\ todo' = todo \ {j}
    /\ UNCHANGED <<disk, pc, work, fetched, faults, story>>

\* Remove; a file that cannot be removed stays for the second pass, or for the
\* next startup.
PurgeRemove(j) ==
    /\ pc \in {"purge", "clean"}
    /\ j \in todo
    /\ ~Preserved(j)
    /\ todo' = todo \ {j}
    /\ \/ NoFault /\ src' = [src EXCEPT ![j] = {}]
       \/ Fault /\ \E left \in SUBSET src[j] \ {{}} : src' = [src EXCEPT ![j] = left]
    /\ UNCHANGED <<marker, dest, store, info, pc, work, fetched, story>>

\* cleanupTransient visits the job directories that are left, by the same rule.
PurgeEnd ==
    /\ pc = "purge"
    /\ todo = {}
    /\ pc' = "clean"
    /\ todo' = JobDirs
    /\ UNCHANGED <<disk, work, fetched, faults, story>>

CleanEnd == pc = "clean" /\ todo = {} /\ ToIdle

-----------------------------------------------------------------------------
\* A power cut; a write it interrupts leaves what the failing writes leave.
Off == pc' = "off" /\ todo' = {} /\ AtRest
Crash ==
    /\ pc # "off"
    /\ Fault
    /\ Off
    /\ UNCHANGED <<disk, fetched, story>>

\* The power cut falls within the write of the marker or of a sidecar.
CrashInWrite(b, text) ==
    /\ Fault
    /\ Off
    /\ \/ /\ CanPersist(b)
          /\ marker' = [marker EXCEPT ![cur] = text]
          /\ dest' = [dest EXCEPT ![cur] = b]
          /\ guarded' = guarded \cup {cur}
          /\ UNCHANGED info
       \/ /\ \/ /\ pc = "sidecar" /\ at = b
                /\ info' = [info EXCEPT ![b] = [of |-> cur, text |-> text]]
             \/ /\ pc = "recover"
                /\ \E j \in todo :
                      /\ Recoverable(j) /\ dest[j] = b /\ info[b].text = "absent"
                      /\ info' = [info EXCEPT ![b] = [of |-> j, text |-> text]]
          /\ UNCHANGED <<marker, dest, guarded>>
    /\ UNCHANGED <<src, store, fetched, released>>

\* The user leaves the application.
Exit ==
    /\ pc = "idle"
    /\ Off
    /\ UNCHANGED <<disk, fetched, faults, story>>

-----------------------------------------------------------------------------
Init ==
    /\ src = [j \in Job |-> IF j \in Legacy THEN PartsOf(j) ELSE {}]
    /\ marker = [j \in Job |-> "absent"]
    /\ dest = [j \in Job |-> 1]
    /\ store = [b \in Base |-> [s \in Slot |-> NoJob]]
    /\ info = [b \in Base |-> NoInfo]
    /\ pc = "off"
    /\ cur = NoJob /\ at = 1 /\ count = 1 /\ k = 0 /\ ok = TRUE /\ why = "none"
    /\ todo = {}
    /\ fetched = Legacy
    /\ faults = 0
    /\ guarded = Legacy /\ released = {}

Torn == Text \ {"full"}

Save ==
    \/ \E b \in Base :
          \/ PersistRefuse(b)
          \/ PersistJournal(b)
          \/ \E text \in Torn : JournalFails(b, text)
    \/ PersistSidecar
    \/ \E text \in Torn : SidecarFails(text)
    \/ PersistMove \/ PersistRollback \/ PersistRollbackEnd \/ PersistCommit

Extract == ExtractOk \/ ExtractFail \/ ExtractCancel

Erase == EraseFile \/ EraseInfo

User ==
    \/ Keep \/ Discard \/ Start \/ Exit
    \/ \E j \in Job : Download(j) \/ MaintainJob(j)
    \/ \E b \in Base : ExtractSaved(b) \/ DeleteSaved(b) \/ MaintainSaved(b)

Startup ==
    \/ \E j \in Job :
          \/ RecoverSkip(j) \/ RecoverSidecar(j)
          \/ \E text \in Torn : RecoverSidecarFails(j, text)
          \/ PurgeKeep(j) \/ PurgeRemove(j)
    \/ RecoverMove \/ RecoverDone \/ RecoverEnd \/ PurgeEnd \/ CleanEnd

PowerCut == Crash \/ \E b \in Base : \E text \in Torn \ {"absent"} : CrashInWrite(b, text)

Next == Save \/ Extract \/ Erase \/ User \/ Startup \/ PowerCut

\* The worker and the startup code run on without waiting for anyone; the
\* user's actions and power cuts may never come.
Fairness == WF_vars(Save) /\ WF_vars(Extract) /\ WF_vars(Erase) /\ WF_vars(Startup)

Spec == Init /\ [][Next]_vars /\ Fairness

-----------------------------------------------------------------------------
(* Properties *)

OnDisk(j) == \A p \in PartsOf(j) : p \in src[j] \/ store[dest[j]][SlotOf(j, p)] = j
InManual(j) == \A p \in PartsOf(j) : store[dest[j]][SlotOf(j, p)] = j

\* No part of an archive is lost once its marker has been created, whatever
\* fails and whenever the power goes, until the archive is extracted or its
\* deletion is asked for; an archive kept by an older client is never purged.
NoLoss == \A j \in guarded \ released : OnDisk(j)

\* The marker is retired only when the whole archive is in manual/: what the
\* next purge then deletes is an empty job.
RetiredIsWhole ==
    \A j \in guarded \ (released \cup Legacy) : marker[j] = "absent" => InManual(j)

\* No move, in a save, a rollback or a recovery, lands on an existing file.
NeverOverwrites ==
    [][\A b \in Base : \A s \in Slot :
          store[b][s] # NoJob => store'[b][s] \in {store[b][s], NoJob}]_vars

\* A startup that meets no further fault puts every archive it can recover
\* whole into manual/ and retires its marker, unless another archive has
\* taken its base in the same pass.
RecoveryCompletes ==
    \A j \in Job :
        (pc = "recover" /\ faults = MaxFaults /\ j \in todo \ released /\ Recoverable(j))
            ~> \/ marker[j] = "absent" /\ InManual(j)
               \/ pc = "idle" /\ marker[j] # "absent" /\ OnDisk(j) /\ ~Recoverable(j)

\* What ArchiveVault sees of the jobs.
VaultArchive ==
    [j \in Job |-> IF j \in released THEN "dropped"
                  ELSE IF j \in guarded /\ OnDisk(j) THEN "held" ELSE "absent"]
Vault == INSTANCE ArchiveVault WITH Inherited <- Legacy, archive <- VaultArchive
\* Saving and recovering an archive implements holding it until it is dropped.
HeldUntilDropped == Vault!Spec
=============================================================================
