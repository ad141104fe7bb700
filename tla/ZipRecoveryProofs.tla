-------------------------- MODULE ZipRecoveryProofs --------------------------
(***************************************************************************)
(* Proofs about ZipRecovery, for every set of jobs, every number of parts  *)
(* and of base names, and every number of faults: the types, that no part  *)
(* of a protected archive is lost, that a marker is retired only behind a  *)
(* whole archive, that no move overwrites a file, and that the code        *)
(* implements ArchiveVault.                                                *)
(*                                                                         *)
(* NoLoss alone is not inductive.  IInv adds what the code knows at each   *)
(* program point: which parts a save or a recovery has moved (Saving,      *)
(* Recovering), that a deletion only touches archives given up (Erasing),  *)
(* and who may own a file or a marker (Owned).                             *)
(***************************************************************************)
EXTENDS ZipRecovery, TLAPS

\* Where part p of j lies in manual/, if it is there.
Place(j, p) == store[dest[j]][SlotOf(j, p)]

Owned ==
    /\ \A b \in Base : \A s \in Slot : store[b][s] \in Job => store[b][s] \in guarded
    /\ \A b \in Base : info[b].text # "absent" => info[b].of \in Job
    /\ \A j \in Job : marker[j] # "absent" => j \in guarded
    /\ guarded \subseteq fetched
    /\ released \subseteq guarded

Saving ==
    /\ pc = "persist" =>
          /\ cur \in fetched \ guarded
          /\ PartsOf(cur) \subseteq src[cur]
    /\ pc \in {"sidecar", "move", "rollback"} =>
          /\ cur \in guarded
          /\ dest[cur] = at
          /\ marker[cur] # "absent"
    /\ pc = "sidecar" => \A p \in PartsOf(cur) :
          p \in src[cur] /\ store[at][SlotOf(cur, p)] = NoJob
    /\ pc = "move" =>
          /\ k \in 1 .. Parts[cur] + 1
          /\ \A p \in PartsOf(cur) :
                IF p < k THEN store[at][SlotOf(cur, p)] = cur
                ELSE p \in src[cur] /\ store[at][SlotOf(cur, p)] = NoJob
    /\ pc = "rollback" =>
          /\ k \in 0 .. Parts[cur]
          /\ \A p \in PartsOf(cur) : p <= k => store[at][SlotOf(cur, p)] = cur

Recovering ==
    pc = "recoverMove" =>
        /\ cur \in guarded
        /\ marker[cur] # "absent"
        /\ k \in 1 .. Parts[cur] + 1
        /\ \A p \in PartsOf(cur) :
              IF p < k THEN cur \in released \/ Place(cur, p) = cur
              ELSE p \in src[cur] <=> Place(cur, p) = NoJob

Erasing ==
    pc = "erase" =>
        /\ k >= 1
        /\ \A s \in SlotsOf(count) : store[at][s] \in Job => store[at][s] \in released

Custody  == Owned /\ NoLoss /\ RetiredIsWhole
Progress == Saving /\ Recovering /\ Erasing
IInv == TypeOK /\ Custody /\ Progress

-----------------------------------------------------------------------------
(* Slots and moves *)

LEMMA SlotFacts ==
    ASSUME NEW j \in Job
    PROVE  /\ Parts[j] \in {1, 2, 4}
           /\ \A p \in PartsOf(j) : p \in 1 .. 4 /\ SlotOf(j, p) \in Slot
           /\ \A p, q \in PartsOf(j) : SlotOf(j, p) = SlotOf(j, q) => p = q
           /\ \A p \in PartsOf(j) : SlotOf(j, p) \in SlotsOf(Parts[j])
  <1>1. Parts[j] \in {1, 2, 4}
    BY PartsAssumption
  <1>2. \A p \in PartsOf(j) : p \in 1 .. 4 /\ SlotOf(j, p) \in Slot
    BY <1>1 DEF PartsOf, SlotOf, SlotFor, Slot
  <1>3. \A p, q \in PartsOf(j) : SlotOf(j, p) = SlotOf(j, q) => p = q
    BY <1>1 DEF PartsOf, SlotOf, SlotFor
  <1>4. \A p \in PartsOf(j) : SlotOf(j, p) \in SlotsOf(Parts[j])
    BY DEF PartsOf, SlotOf, SlotsOf
  <1> QED BY <1>1, <1>2, <1>3, <1>4

LEMMA SlotsOfInSlot == \A n \in 1 .. 4 : SlotsOf(n) \subseteq Slot
  BY DEF SlotsOf, SlotFor, Slot

\* A move out of the job directory changes one slot and one directory.
LEMMA MoveOutEffect ==
    ASSUME TypeOK, NEW j \in Job, NEW p \in PartsOf(j), NEW b \in Base,
           MoveOut(j, p, b)
    PROVE  /\ src' \in [Job -> SUBSET (1 .. 4)]
           /\ store' \in [Base -> [Slot -> Job \cup {NoJob}]]
           /\ store'[b][SlotOf(j, p)] = j
           /\ \A c \in Base : \A s \in Slot :
                 (c # b \/ s # SlotOf(j, p)) => store'[c][s] = store[c][s]
           /\ src'[j] = src[j] \ {p}
           /\ \A i \in Job : i # j => src'[i] = src[i]
  <1>1. SlotOf(j, p) \in Slot
    BY SlotFacts
  <1> QED BY <1>1 DEF MoveOut, TypeOK

LEMMA MoveBackEffect ==
    ASSUME TypeOK, NEW j \in Job, NEW p \in PartsOf(j), NEW b \in Base,
           MoveBack(j, p, b)
    PROVE  /\ src' \in [Job -> SUBSET (1 .. 4)]
           /\ store' \in [Base -> [Slot -> Job \cup {NoJob}]]
           /\ store'[b][SlotOf(j, p)] = NoJob
           /\ \A c \in Base : \A s \in Slot :
                 (c # b \/ s # SlotOf(j, p)) => store'[c][s] = store[c][s]
           /\ src'[j] = src[j] \cup {p}
           /\ \A i \in Job : i # j => src'[i] = src[i]
  <1>1. SlotOf(j, p) \in Slot /\ p \in 1 .. 4
    BY SlotFacts
  <1> QED BY <1>1 DEF MoveBack, TypeOK

-----------------------------------------------------------------------------
(* Types *)

\* What the types of the next state need beyond TypeOK.
Typed ==
    /\ pc \in {"persist", "sidecar", "move", "rollback", "recoverMove"} => cur \in Job
    /\ \A b \in Base : info[b].text # "absent" => info[b].of \in Job
    /\ pc \in {"move", "recoverMove"} => k \in 1 .. 5
    /\ pc = "rollback" => k <= 4

WorkTyped ==
    /\ cur \in Job \cup {NoJob}
    /\ at \in Base
    /\ count \in 1 .. 4
    /\ k \in 0 .. 5
    /\ ok \in BOOLEAN
    /\ why \in {"none", "extracted", "delete", "resolve", "maintain"}

LEMMA FaultTyped == TypeOK /\ (Fault \/ NoFault) => faults' \in 0 .. MaxFaults
  BY BoundAssumption DEF TypeOK, Fault, NoFault

LEMMA RestTyped == AtRest => WorkTyped'
  BY BoundAssumption DEF AtRest, WorkTyped, Base

LEMMA IInvTyped == IInv => Typed
  <1> SUFFICES ASSUME IInv PROVE Typed
    OBVIOUS
  <1>1. pc \in {"persist", "sidecar", "move", "rollback", "recoverMove"} => cur \in Job
    BY DEF IInv, Custody, Progress, TypeOK, Owned, Saving, Recovering
  <1>2. pc \in {"move", "rollback", "recoverMove"} => Parts[cur] \in {1, 2, 4}
    BY <1>1, PartsAssumption
  <1>3. pc \in {"move", "recoverMove"} => k \in 1 .. 5
    BY <1>2 DEF IInv, Progress, Saving, Recovering
  <1>4. pc = "rollback" => k <= 4
    BY <1>2 DEF IInv, Progress, Saving
  <1> QED BY <1>1, <1>3, <1>4 DEF IInv, Custody, Owned, Typed

LEMMA Types == TypeOK /\ Typed /\ [Next]_vars => TypeOK'
  <1> SUFFICES ASSUME TypeOK, Typed, [Next]_vars PROVE TypeOK'
    OBVIOUS
  <1> USE FaultTyped, RestTyped DEF disk, work, story, WorkTyped
  <1>1. ASSUME NEW b \in Base, PersistRefuse(b) PROVE TypeOK'
    BY <1>1 DEF PersistRefuse, TypeOK, GiveUp, Typed
  <1>2. ASSUME NEW b \in Base, PersistJournal(b) PROVE TypeOK'
    BY <1>2 DEF PersistJournal, TypeOK, CanPersist, Typed, Text
  <1>3. ASSUME NEW b \in Base, NEW text \in Torn, JournalFails(b, text) PROVE TypeOK'
    BY <1>3 DEF JournalFails, TypeOK, GiveUp, Typed, CanPersist, Text, Torn
  <1>4. CASE PersistSidecar
    BY <1>4 DEF PersistSidecar, TypeOK, Text, NoInfo, Typed
  <1>5. ASSUME NEW text \in Torn, SidecarFails(text) PROVE TypeOK'
    BY <1>5 DEF SidecarFails, TypeOK, GiveUp, Typed, Torn, Text, NoInfo
  <1>6. CASE PersistMove
    <2>1. cur \in Job /\ k \in 1 .. 5 /\ k + 1 \in 0 .. 5 /\ k - 1 \in 0 .. 5
      <3>1. cur \in Job /\ k \in 1 .. 5
        BY <1>6 DEF PersistMove, Typed
      <3>2. k <= 4
        BY <1>6, <3>1, SlotFacts DEF PersistMove
      <3> QED BY <3>1, <3>2
    <2>2. CASE NoFault /\ MoveOut(cur, k, at)
      BY <1>6, <2>1, <2>2, MoveOutEffect DEF PersistMove, TypeOK
    <2>3. CASE Fault /\ UNCHANGED <<src, store>>
      BY <1>6, <2>1, <2>3 DEF PersistMove, TypeOK
    <2> QED BY <1>6, <2>2, <2>3 DEF PersistMove
  <1>7. CASE PersistRollback
    <2>1. cur \in Job /\ k \in 1 .. 4 /\ k - 1 \in 0 .. 5
      BY <1>7 DEF PersistRollback, Typed, TypeOK
    <2>2. CASE NoFault /\ MoveBack(cur, k, at)
      <3>1. SlotOf(cur, k) \in Slot
        BY <2>1, PartsAssumption DEF SlotOf, SlotFor, Slot
      <3> QED BY <1>7, <2>1, <2>2, <3>1 DEF PersistRollback, MoveBack, TypeOK
    <2>3. CASE Fault /\ UNCHANGED <<src, store>>
      BY <1>7, <2>1, <2>3 DEF PersistRollback, TypeOK
    <2> QED BY <1>7, <2>2, <2>3 DEF PersistRollback
  <1>8. CASE PersistRollbackEnd
    <2>1. faults' \in 0 .. MaxFaults
      BY <1>8 DEF PersistRollbackEnd
    <2>2. info' \in [Base -> [of : Job \cup {NoJob}, text : Text]]
      <3>1. NoInfo \in [of : Job \cup {NoJob}, text : Text]
        BY DEF NoInfo, Text
      <3>2. info' = info \/ info' = [info EXCEPT ![at] = NoInfo]
        BY <1>8 DEF PersistRollbackEnd
      <3> QED BY <3>1, <3>2 DEF TypeOK
    <2>3. pc' = "idle" /\ AtRest /\ UNCHANGED <<todo, fetched>>
      BY <1>8 DEF PersistRollbackEnd, GiveUp
    <2>4. UNCHANGED <<src, marker, dest, store, guarded, released>>
      BY <1>8 DEF PersistRollbackEnd
    <2> QED BY <2>1, <2>2, <2>3, <2>4 DEF TypeOK
  <1>9. CASE PersistCommit
    <2>1. Parts[cur] \in 1 .. 4
      BY <1>9, PartsAssumption DEF PersistCommit, Typed
    <2>2. faults' \in 0 .. MaxFaults /\ marker' \in [Job -> Text]
      BY <1>9 DEF PersistCommit, TypeOK, Text
    <2>3. src' \in [Job -> SUBSET (1 .. 4)]
      BY <1>9 DEF PersistCommit, TypeOK
    <2> QED BY <1>9, <2>1, <2>2, <2>3 DEF PersistCommit, TypeOK
  <1>10. CASE ExtractOk
    BY <1>10 DEF ExtractOk, TypeOK, StartErase, Owners
  <1>11. CASE ExtractFail
    BY <1>11 DEF ExtractFail, TypeOK
  <1>12. CASE ExtractCancel
    BY <1>12 DEF ExtractCancel, TypeOK, ToIdle
  <1>13. CASE EraseFile
    <2>1. SlotFor(count, k) \in Slot /\ k + 1 \in 0 .. 5
      BY <1>13 DEF EraseFile, TypeOK, SlotFor, Slot
    <2>2. store' \in [Base -> [Slot -> Job \cup {NoJob}]]
      <3>1. CASE store' = [store EXCEPT ![at][SlotFor(count, k)] = NoJob]
        BY <3>1, <2>1 DEF TypeOK
      <3>2. CASE UNCHANGED store
        BY <3>2 DEF TypeOK
      <3> QED BY <1>13, <3>1, <3>2 DEF EraseFile
    <2>3. WorkTyped' /\ pc' \in {"erase", "idle"}
      BY <1>13, <2>1 DEF EraseFile, TypeOK
    <2>4. faults' \in 0 .. MaxFaults
      BY <1>13 DEF EraseFile
    <2> QED BY <1>13, <2>2, <2>3, <2>4 DEF EraseFile, TypeOK
  <1>14. CASE EraseInfo
    <2>1. info' \in [Base -> [of : Job \cup {NoJob}, text : Text]]
      <3>1. CASE UNCHANGED info
        BY <3>1 DEF TypeOK
      <3>2. CASE info' = [info EXCEPT ![at] = NoInfo]
        BY <3>2 DEF TypeOK, NoInfo, Text
      <3> QED BY <1>14, <3>1, <3>2 DEF EraseInfo
    <2>2. WorkTyped' /\ pc' \in {"decide", "idle"} /\ faults' \in 0 .. MaxFaults
      BY <1>14 DEF EraseInfo, TypeOK
    <2> QED BY <1>14, <2>1, <2>2 DEF EraseInfo, TypeOK
  <1>15. CASE Keep
    BY <1>15 DEF Keep, TypeOK, ToIdle
  <1>16. CASE Discard
    BY <1>16 DEF Discard, TypeOK, StartErase, Owners
  <1>17. CASE Start
    BY <1>17 DEF Start, TypeOK, JobDirs
  <1>18. CASE Exit
    BY <1>18 DEF Exit, TypeOK, Off
  <1>19. ASSUME NEW j \in Job, Download(j) PROVE TypeOK'
    BY <1>19, SlotFacts DEF Download, TypeOK
  <1>20. ASSUME NEW j \in Job, MaintainJob(j) PROVE TypeOK'
    <2>1. src' \in [Job -> SUBSET (1 .. 4)]
      BY <1>20 DEF MaintainJob, TypeOK
    <2>2. marker' \in [Job -> Text] /\ faults' \in 0 .. MaxFaults
      BY <1>20 DEF MaintainJob, TypeOK, Text
    <2> QED BY <1>20, <2>1, <2>2 DEF MaintainJob, TypeOK
  <1>21. ASSUME NEW b \in Base, ExtractSaved(b) PROVE TypeOK'
    BY <1>21, PartsAssumption DEF ExtractSaved, TypeOK, ListedCount, Typed, Listed
  <1>22. ASSUME NEW b \in Base, DeleteSaved(b) PROVE TypeOK'
    BY <1>22, PartsAssumption
    DEF DeleteSaved, TypeOK, StartErase, Owners, ListedCount, Typed, Listed
  <1>23. ASSUME NEW b \in Base, MaintainSaved(b) PROVE TypeOK'
    BY <1>23, PartsAssumption
    DEF MaintainSaved, TypeOK, StartErase, Owners, ListedCount, Typed, Scanned
  <1>24. ASSUME NEW j \in Job, RecoverSkip(j) PROVE TypeOK'
    BY <1>24 DEF RecoverSkip, TypeOK, Visited
  <1>25. ASSUME NEW j \in Job, RecoverSidecar(j) PROVE TypeOK'
    BY <1>25 DEF RecoverSidecar, TypeOK, Visited, Text, NoInfo, Typed
  <1>26. ASSUME NEW j \in Job, NEW text \in Torn, RecoverSidecarFails(j, text)
      PROVE TypeOK'
    BY <1>26 DEF RecoverSidecarFails, TypeOK, Visited, Torn, Text, NoInfo, Typed
  <1>27. ASSUME NEW j \in Job, PurgeKeep(j) PROVE TypeOK'
    BY <1>27 DEF PurgeKeep, TypeOK
  <1>28. ASSUME NEW j \in Job, PurgeRemove(j) PROVE TypeOK'
    BY <1>28 DEF PurgeRemove, TypeOK
  <1>29. CASE RecoverMove
    <2>1. cur \in Job /\ k \in 1 .. 5 /\ dest[cur] \in Base
      BY <1>29 DEF RecoverMove, Typed, TypeOK
    <2>2. k + 1 \in 0 .. 5
      <3>1. k <= 4
        BY <1>29, <2>1, SlotFacts DEF RecoverMove
      <3> QED BY <2>1, <3>1
    <2>3. CASE MoveOut(cur, k, dest[cur])
      <3>1. k \in PartsOf(cur)
        BY <1>29 DEF RecoverMove
      <3>2. /\ src' \in [Job -> SUBSET (1 .. 4)]
            /\ store' \in [Base -> [Slot -> Job \cup {NoJob}]]
        BY <2>1, <2>3, <3>1, MoveOutEffect
      <3> QED BY <1>29, <2>2, <3>2 DEF RecoverMove, TypeOK
    <2>4. CASE UNCHANGED <<src, store>>
      BY <1>29, <2>2, <2>4 DEF RecoverMove, TypeOK
    <2> QED BY <1>29, <2>3, <2>4 DEF RecoverMove
  <1>30. CASE RecoverDone
    BY <1>30 DEF RecoverDone, TypeOK, Text, NoInfo, Typed
  <1>31. CASE RecoverEnd
    BY <1>31 DEF RecoverEnd, TypeOK, JobDirs
  <1>32. CASE PurgeEnd
    BY <1>32 DEF PurgeEnd, TypeOK, JobDirs
  <1>36. CASE CleanEnd
    BY <1>36 DEF CleanEnd, TypeOK, ToIdle
  <1>33. CASE Crash
    BY <1>33 DEF Crash, TypeOK, Off
  <1>34. ASSUME NEW b \in Base, NEW text \in Torn \ {"absent"}, CrashInWrite(b, text)
      PROVE TypeOK'
    <2>1. text \in Text
      BY DEF Torn
    <2>2. marker' \in [Job -> Text] /\ dest' \in [Job -> Base] /\ guarded' \subseteq Job
      <3>1. CASE UNCHANGED <<marker, dest, guarded>>
        BY <3>1 DEF TypeOK
      <3>2. CASE /\ pc = "persist"
                 /\ marker' = [marker EXCEPT ![cur] = text]
                 /\ dest' = [dest EXCEPT ![cur] = b]
                 /\ guarded' = guarded \cup {cur}
        BY <3>2, <2>1 DEF TypeOK, Typed
      <3> QED BY <1>34, <3>1, <3>2 DEF CrashInWrite, CanPersist
    <2>3. info' \in [Base -> [of : Job \cup {NoJob}, text : Text]]
      <3>1. ASSUME NEW j \in Job, info' = [info EXCEPT ![b] = [of |-> j, text |-> text]]
            PROVE  info' \in [Base -> [of : Job \cup {NoJob}, text : Text]]
        BY <3>1, <2>1 DEF TypeOK
      <3>2. CASE UNCHANGED info
        BY <3>2 DEF TypeOK
      <3>3. todo \subseteq Job /\ (pc = "sidecar" => cur \in Job)
        BY DEF TypeOK, Typed
      <3> QED BY <1>34, <3>1, <3>2, <3>3 DEF CrashInWrite
    <2> QED BY <1>34, <2>2, <2>3 DEF CrashInWrite, Off, TypeOK
  <1>35. CASE UNCHANGED vars
    BY <1>35 DEF vars, TypeOK
  <1> QED
    BY <1>1, <1>2, <1>3, <1>4, <1>5, <1>6, <1>7, <1>8, <1>9, <1>10, <1>11, <1>12,
        <1>13, <1>14, <1>15, <1>16, <1>17, <1>18, <1>19, <1>20, <1>21, <1>22, <1>23,
        <1>24, <1>25, <1>26, <1>27, <1>28, <1>29, <1>30, <1>31, <1>32, <1>33, <1>34,
        <1>35, <1>36
    DEF Next, Save, Extract, Erase, User, Startup, PowerCut, Torn

-----------------------------------------------------------------------------
(* The inductive invariant *)

LEMMA Quiet ==
    Custody /\ UNCHANGED <<disk, fetched, guarded, released>> => Custody'
  <1> SUFFICES ASSUME Custody, UNCHANGED <<disk, fetched, guarded, released>>
               PROVE Custody'
    OBVIOUS
  <1>1. Owned'
    BY DEF Custody, disk, Owned
  <1>2. NoLoss' /\ RetiredIsWhole'
    BY DEF Custody, disk, NoLoss, RetiredIsWhole, OnDisk, InManual
  <1> QED BY <1>1, <1>2 DEF Custody

LEMMA Passive ==
    pc' \notin {"persist", "sidecar", "move", "rollback", "recoverMove", "erase"}
        => Progress'
  BY DEF Progress, Saving, Recovering, Erasing

\* Sidecars do not matter to what is kept, only to whom they name.
LEMMA SidecarOnly ==
    ASSUME Custody, UNCHANGED <<src, marker, dest, store, fetched, guarded, released>>,
           \A b \in Base : info'[b].text # "absent" => info'[b].of \in Job
    PROVE  Custody'
  <1>1. Owned'
    BY DEF Custody, Owned
  <1>2. NoLoss' /\ RetiredIsWhole'
    BY DEF Custody, NoLoss, RetiredIsWhole, OnDisk, InManual
  <1> QED BY <1>1, <1>2 DEF Custody

\* A deletion gives up every archive whose files it may touch.
LEMMA StartEraseKeeps ==
    ASSUME IInv, NEW b \in Base, NEW n \in 1 .. 4, NEW r, StartErase(b, n, r)
    PROVE  Custody' /\ Progress'
  <1> USE SlotsOfInSlot DEF IInv, Custody, TypeOK
  <1>1. Owners(b, n) \subseteq guarded
    BY DEF Owners, Owned
  <1>2. Owned'
    BY <1>1 DEF StartErase, disk, Owned
  <1>3. NoLoss' /\ RetiredIsWhole'
    BY DEF StartErase, disk, NoLoss, RetiredIsWhole, OnDisk, InManual
  <1>4. Erasing'
    BY DEF StartErase, disk, Erasing, Owners
  <1>5. Saving' /\ Recovering'
    BY DEF StartErase, Saving, Recovering
  <1> QED BY <1>2, <1>3, <1>4, <1>5 DEF Progress

\* A part that moves from the job directory to its own free slot stays on disk.
LEMMA MoveOutCustody ==
    ASSUME TypeOK, Custody, NEW j \in guarded, NEW p \in PartsOf(j),
           MoveOut(j, p, dest[j]), Place(j, p) = NoJob,
           UNCHANGED <<marker, dest, info, fetched, guarded, released>>
    PROVE  Custody'
  <1> USE DEF TypeOK, Custody
  <1>1. j \in Job /\ dest[j] \in Base
    OBVIOUS
  <1>2. /\ store'[dest[j]][SlotOf(j, p)] = j
        /\ \A c \in Base : \A s \in Slot :
              (c # dest[j] \/ s # SlotOf(j, p)) => store'[c][s] = store[c][s]
        /\ src'[j] = src[j] \ {p}
        /\ \A i \in Job : i # j => src'[i] = src[i]
    BY <1>1, MoveOutEffect
  <1>3. Owned'
    BY <1>1, <1>2 DEF Owned
  <1>4. \A i \in Job : \A q \in PartsOf(i) : Place(i, q) = i => Place(i, q)' = i
    <2> SUFFICES ASSUME NEW i \in Job, NEW q \in PartsOf(i), Place(i, q) = i
                 PROVE store'[dest[i]][SlotOf(i, q)] = i
      BY DEF Place
    <2>1. SlotOf(i, q) \in Slot /\ dest[i] \in Base
      BY SlotFacts
    <2>2. dest[i] # dest[j] \/ SlotOf(i, q) # SlotOf(j, p)
      BY NoJobAssumption DEF Place
    <2> QED BY <1>2, <2>1, <2>2 DEF Place
  <1>5. NoLoss'
    <2> SUFFICES ASSUME NEW i \in guarded \ released, NEW q \in PartsOf(i)
                 PROVE (q \in src[i] \/ Place(i, q) = i)'
      BY DEF NoLoss, OnDisk, Place, PartsOf
    <2>1. q \in src[i] \/ Place(i, q) = i
      BY DEF NoLoss, OnDisk, Place
    <2> QED BY <1>1, <1>2, <1>4, <2>1 DEF Place
  <1>6. RetiredIsWhole'
    BY <1>4 DEF RetiredIsWhole, InManual, Place, PartsOf
  <1> QED BY <1>3, <1>5, <1>6

\* So does the one a rollback returns.
LEMMA MoveBackCustody ==
    ASSUME TypeOK, Custody, NEW j \in guarded, NEW p \in PartsOf(j),
           MoveBack(j, p, dest[j]), Place(j, p) = j, marker[j] # "absent",
           UNCHANGED <<marker, dest, info, fetched, guarded, released>>
    PROVE  Custody'
  <1> USE DEF TypeOK, Custody
  <1>1. j \in Job /\ dest[j] \in Base
    OBVIOUS
  <1>2. /\ store'[dest[j]][SlotOf(j, p)] = NoJob
        /\ \A c \in Base : \A s \in Slot :
              (c # dest[j] \/ s # SlotOf(j, p)) => store'[c][s] = store[c][s]
        /\ src'[j] = src[j] \cup {p}
        /\ \A i \in Job : i # j => src'[i] = src[i]
    BY <1>1, MoveBackEffect
  <1>3. Owned'
    BY <1>1, <1>2, NoJobAssumption DEF Owned
  <1>4. \A i \in Job : \A q \in PartsOf(i) :
            Place(i, q) = i /\ (i # j \/ q # p) => Place(i, q)' = i
    <2> SUFFICES ASSUME NEW i \in Job, NEW q \in PartsOf(i), Place(i, q) = i,
                        i # j \/ q # p
                 PROVE store'[dest[i]][SlotOf(i, q)] = i
      BY DEF Place
    <2>1. SlotOf(i, q) \in Slot /\ dest[i] \in Base
      BY SlotFacts
    <2>2. dest[i] # dest[j] \/ SlotOf(i, q) # SlotOf(j, p)
      BY <1>1, SlotFacts DEF Place
    <2> QED BY <1>2, <2>1, <2>2 DEF Place
  <1>5. NoLoss'
    <2> SUFFICES ASSUME NEW i \in guarded \ released, NEW q \in PartsOf(i)
                 PROVE (q \in src[i] \/ Place(i, q) = i)'
      BY DEF NoLoss, OnDisk, Place, PartsOf
    <2>1. q \in src[i] \/ Place(i, q) = i
      BY DEF NoLoss, OnDisk, Place
    <2> QED BY <1>1, <1>2, <1>4, <2>1 DEF Place
  <1>6. RetiredIsWhole'
    BY <1>4 DEF RetiredIsWhole, InManual, Place, PartsOf
  <1> QED BY <1>3, <1>5, <1>6

\* Retiring the marker, and with it the job's own files, behind a whole archive.
LEMMA RetireCustody ==
    ASSUME TypeOK, Custody, NEW j \in Job,
           j \in guarded \ released => InManual(j),
           \A i \in Job : i # j => src'[i] = src[i] /\ marker'[i] = marker[i],
           \A i \in Job : marker'[i] # "absent" => marker[i] # "absent",
           UNCHANGED <<dest, store, info, fetched, guarded, released>>
    PROVE  Custody'
  <1> USE DEF TypeOK, Custody
  <1>1. Owned'
    BY DEF Owned
  <1>2. NoLoss'
    BY DEF NoLoss, OnDisk, InManual, PartsOf
  <1>3. RetiredIsWhole'
    BY DEF RetiredIsWhole, InManual, PartsOf
  <1> QED BY <1>1, <1>2, <1>3

\* A marker created for a job that was never guarded, whose parts are all here.
LEMMA JournalCustody ==
    ASSUME TypeOK, Custody, NEW j \in fetched \ guarded, NEW b \in Base, NEW text,
           PartsOf(j) \subseteq src[j],
           marker' = [marker EXCEPT ![j] = text],
           dest' = [dest EXCEPT ![j] = b],
           guarded' = IF text = "absent" THEN guarded ELSE guarded \cup {j},
           UNCHANGED <<src, store, info, fetched, released>>
    PROVE  Custody'
  <1> USE DEF TypeOK, Custody
  <1>1. \A i \in Job : i # j => marker'[i] = marker[i] /\ dest'[i] = dest[i]
    OBVIOUS
  <1>2. Owned'
    BY <1>1 DEF Owned
  <1>3. NoLoss'
    BY <1>1 DEF NoLoss, OnDisk, PartsOf
  <1>4. RetiredIsWhole'
    <2>1. marker'[j] = text /\ (j \in guarded' => text # "absent")
      OBVIOUS
    <2> QED BY <1>1, <2>1 DEF RetiredIsWhole, InManual, PartsOf
  <1> QED BY <1>2, <1>3, <1>4

LEMMA Inductive == IInv /\ [Next]_vars => IInv'
  <1> SUFFICES ASSUME IInv, [Next]_vars PROVE Custody' /\ Progress'
    BY IInvTyped, Types DEF IInv
  <1> USE DEF IInv
  <1>1. ASSUME NEW b \in Base, PersistRefuse(b) PROVE Custody' /\ Progress'
    <2>1. pc' = "idle" /\ UNCHANGED <<disk, fetched, story>>
      BY <1>1 DEF PersistRefuse, GiveUp
    <2>2. Custody'
      BY <2>1, Quiet DEF story
    <2>3. Progress'
      BY <2>1, Passive
    <2> QED BY <2>2, <2>3
  <1>2. ASSUME NEW b \in Base, PersistJournal(b) PROVE Custody' /\ Progress'
    <2>1. cur \in fetched \ guarded /\ PartsOf(cur) \subseteq src[cur]
      BY <1>2 DEF PersistJournal, CanPersist, Progress, Saving
    <2>2. Custody'
      BY <1>2, <2>1, JournalCustody DEF PersistJournal
    <2>3. Saving'
      BY <1>2, <2>1 DEF PersistJournal, CanPersist, Saving, TypeOK, PartsOf, SlotOf
    <2>4. Recovering' /\ Erasing'
      BY <1>2 DEF PersistJournal, Recovering, Erasing
    <2> QED BY <2>2, <2>3, <2>4 DEF Progress
  <1>3. ASSUME NEW b \in Base, NEW text \in Torn,
                JournalFails(b, text)
         PROVE  Custody' /\ Progress'
    <2>1. cur \in fetched \ guarded /\ PartsOf(cur) \subseteq src[cur]
      BY <1>3 DEF JournalFails, CanPersist, Progress, Saving
    <2>2. Custody'
      BY <1>3, <2>1, JournalCustody DEF JournalFails, GiveUp
    <2> QED BY <1>3, <2>2, Passive DEF JournalFails, GiveUp
  <1>4. CASE PersistSidecar
    <2>1. cur \in Job /\ cur \in guarded /\ dest[cur] = at /\ marker[cur] # "absent"
      BY <1>4 DEF PersistSidecar, Progress, Saving, TypeOK
    <2>2. \A c \in Base : info'[c].text # "absent" => info'[c].of \in Job
      BY <1>4, <2>1 DEF PersistSidecar, TypeOK, Custody, Owned
    <2>3. Custody'
      BY <1>4, <2>2, SidecarOnly DEF PersistSidecar, story
    <2>4. Saving'
      <3>1. 1 \in 1 .. Parts[cur] + 1 /\ \A p \in PartsOf(cur) : ~(p < 1)
        BY <2>1, SlotFacts DEF PartsOf
      <3> QED
        BY <1>4, <2>1, <3>1
        DEF PersistSidecar, story, Progress, Saving, PartsOf, SlotOf
    <2>5. Recovering' /\ Erasing'
      BY <1>4 DEF PersistSidecar, Recovering, Erasing
    <2> QED BY <2>3, <2>4, <2>5 DEF Progress
  <1>5. ASSUME NEW text \in Torn, SidecarFails(text) PROVE Custody' /\ Progress'
    <2>1. \A c \in Base : info'[c].text # "absent" => info'[c].of \in Job
      BY <1>5, IInvTyped DEF SidecarFails, TypeOK, Typed, Custody, Owned
    <2>2. Custody'
      BY <1>5, <2>1, SidecarOnly DEF SidecarFails, GiveUp
    <2> QED BY <1>5, <2>2, Passive DEF SidecarFails, GiveUp
  <1>6. CASE PersistMove
    <2>1. /\ cur \in Job /\ cur \in guarded /\ dest[cur] = at /\ marker[cur] # "absent"
          /\ k \in PartsOf(cur) /\ at \in Base
      BY <1>6 DEF PersistMove, Progress, Saving, TypeOK
    <2>2. \A p \in PartsOf(cur) :
            IF p < k THEN store[at][SlotOf(cur, p)] = cur
            ELSE p \in src[cur] /\ store[at][SlotOf(cur, p)] = NoJob
      BY <1>6 DEF PersistMove, Progress, Saving
    <2>3. Recovering' /\ Erasing'
      BY <1>6 DEF PersistMove, Recovering, Erasing
    <2>4. CASE MoveOut(cur, k, at) /\ k' = k + 1 /\ pc' = pc
      <3>1. Custody'
        <4>1. ~(k < k)
          BY <2>1 DEF PartsOf
        <4>2. Place(cur, k) = NoJob
          BY <2>1, <2>2, <4>1 DEF Place
        <4> QED BY <1>6, <2>1, <2>4, <4>2, MoveOutCustody DEF PersistMove, story
      <3>2. /\ store'[at][SlotOf(cur, k)] = cur
            /\ \A s \in Slot : s # SlotOf(cur, k) => store'[at][s] = store[at][s]
            /\ src'[cur] = src[cur] \ {k}
        BY <2>1, <2>4, MoveOutEffect
      <3>3. \A p \in PartsOf(cur) :
              IF p < k + 1 THEN store'[at][SlotOf(cur, p)] = cur
              ELSE p \in src'[cur] /\ store'[at][SlotOf(cur, p)] = NoJob
        <4> SUFFICES ASSUME NEW p \in PartsOf(cur)
                     PROVE  IF p < k + 1 THEN store'[at][SlotOf(cur, p)] = cur
                            ELSE p \in src'[cur] /\ store'[at][SlotOf(cur, p)] = NoJob
          OBVIOUS
        <4>1. CASE p = k
          BY <2>1, <3>2, <4>1 DEF PartsOf
        <4>2. CASE p # k
          <5>1. store'[at][SlotOf(cur, p)] = store[at][SlotOf(cur, p)]
            BY <2>1, <3>2, <4>2, SlotFacts
          <5>2. (p < k + 1) = (p < k)
            BY <2>1, <4>2 DEF PartsOf
          <5> QED BY <2>2, <3>2, <4>2, <5>1, <5>2
        <4> QED BY <4>1, <4>2
      <3>4. k + 1 \in 1 .. Parts[cur] + 1
        BY <2>1, SlotFacts DEF PartsOf
      <3>5. Saving'
        BY <1>6, <2>1, <2>4, <3>3, <3>4 DEF PersistMove, story, Saving, PartsOf, SlotOf
      <3> QED BY <2>3, <3>1, <3>5 DEF Progress
    <2>5. CASE pc' = "rollback" /\ k' = k - 1 /\ UNCHANGED <<src, store>>
      <3>1. Custody'
        BY <1>6, <2>5, Quiet DEF PersistMove, disk, story
      <3>2. /\ k - 1 \in 0 .. Parts[cur]
            /\ \A p \in PartsOf(cur) : p <= k - 1 => p < k
        BY <2>1, SlotFacts DEF PartsOf
      <3>3. Saving'
        BY <1>6, <2>1, <2>2, <2>5, <3>2 DEF PersistMove, story, Saving, PartsOf, SlotOf
      <3> QED BY <2>3, <3>1, <3>3 DEF Progress
    <2> QED BY <1>6, <2>4, <2>5 DEF PersistMove
  <1>7. CASE PersistRollback
    <2>1. /\ cur \in Job /\ cur \in guarded /\ dest[cur] = at /\ marker[cur] # "absent"
          /\ k \in PartsOf(cur) /\ at \in Base
          /\ \A p \in PartsOf(cur) : p <= k => store[at][SlotOf(cur, p)] = cur
      <3>1. cur \in Job /\ k \in 0 .. Parts[cur] /\ k > 0
        BY <1>7 DEF PersistRollback, Progress, Saving, TypeOK
      <3>2. k \in PartsOf(cur)
        BY <3>1, SlotFacts DEF PartsOf
      <3> QED BY <1>7, <3>1, <3>2 DEF PersistRollback, Progress, Saving, TypeOK
    <2>2. /\ k - 1 \in 0 .. Parts[cur]
          /\ \A p \in PartsOf(cur) : p <= k - 1 => p <= k /\ p # k
      BY <2>1, SlotFacts DEF PartsOf
    <2>3. Recovering' /\ Erasing'
      BY <1>7 DEF PersistRollback, Recovering, Erasing
    <2>4. CASE MoveBack(cur, k, at)
      <3>1. k <= k
        BY <2>1 DEF PartsOf
      <3>2. Custody'
        BY <1>7, <2>1, <2>4, <3>1, MoveBackCustody DEF PersistRollback, story, Place
      <3>3. \A s \in Slot : s # SlotOf(cur, k) => store'[at][s] = store[at][s]
        BY <2>1, <2>4, MoveBackEffect
      <3>4. \A p \in PartsOf(cur) : p <= k - 1 => store'[at][SlotOf(cur, p)] = cur
        BY <2>1, <2>2, <3>3, SlotFacts
      <3>5. Saving'
        BY <1>7, <2>1, <2>2, <3>4 DEF PersistRollback, story, Saving, PartsOf, SlotOf
      <3> QED BY <2>3, <3>2, <3>5 DEF Progress
    <2>5. CASE UNCHANGED <<src, store>>
      <3>1. Custody'
        BY <1>7, <2>5, Quiet DEF PersistRollback, disk, story
      <3>2. Saving'
        BY <1>7, <2>1, <2>2, <2>5 DEF PersistRollback, story, Saving, PartsOf, SlotOf
      <3> QED BY <2>3, <3>1, <3>2 DEF Progress
    <2> QED BY <1>7, <2>4, <2>5 DEF PersistRollback
  <1>8. CASE PersistRollbackEnd
    <2>1. info' = info \/ info' = [info EXCEPT ![at] = NoInfo]
      BY <1>8 DEF PersistRollbackEnd
    <2>2. \A c \in Base : info'[c].text # "absent" => info'[c].of \in Job
      <3>1. CASE UNCHANGED info
        BY <3>1 DEF Custody, Owned
      <3>2. CASE info' = [info EXCEPT ![at] = NoInfo]
        <4>1. \A c \in Base : info'[c] = IF c = at THEN NoInfo ELSE info[c]
          BY <3>2 DEF TypeOK
        <4>2. NoInfo.text = "absent"
          BY DEF NoInfo
        <4> QED BY <4>1, <4>2 DEF Custody, Owned
      <3> QED BY <1>8, <3>1, <3>2 DEF PersistRollbackEnd
    <2>3. Custody'
      BY <1>8, <2>2, SidecarOnly DEF PersistRollbackEnd, GiveUp
    <2> QED BY <1>8, <2>3, Passive DEF PersistRollbackEnd, GiveUp
  <1>9. CASE PersistCommit
    <2>1. cur \in Job /\ dest[cur] = at
      BY <1>9 DEF PersistCommit, Progress, Saving, TypeOK
    <2>2. \A p \in PartsOf(cur) : p < k
      BY <1>9, <2>1, SlotFacts DEF PersistCommit, Progress, Saving, PartsOf
    <2>3. InManual(cur)
      BY <1>9, <2>1, <2>2 DEF PersistCommit, Progress, Saving, InManual
    <2>4. /\ \A i \in Job : i # cur => src'[i] = src[i] /\ marker'[i] = marker[i]
          /\ \A i \in Job : marker'[i] # "absent" => marker[i] # "absent"
      BY <1>9, <2>1 DEF PersistCommit, TypeOK
    <2>5. Custody'
      BY <1>9, <2>1, <2>3, <2>4, RetireCustody DEF PersistCommit, story
    <2> QED BY <1>9, <2>5, Passive DEF PersistCommit
  <1>10. CASE ExtractOk
    BY <1>10, StartEraseKeeps DEF ExtractOk, TypeOK
  <1>11. CASE ExtractFail
    BY <1>11, Quiet, Passive DEF ExtractFail, disk, story
  <1>12. CASE ExtractCancel
    BY <1>12, Quiet, Passive DEF ExtractCancel, ToIdle, story
  <1>13. CASE EraseFile
    <2>1. SlotFor(count, k) \in SlotsOf(count) /\ SlotFor(count, k) \in Slot
      <3>1. k \in 1 .. count
        BY <1>13 DEF EraseFile, Progress, Erasing, TypeOK
      <3> QED BY <3>1, SlotsOfInSlot DEF SlotsOf, TypeOK
    <2>2. CASE UNCHANGED store
      <3>1. Custody'
        BY <1>13, <2>2, Quiet DEF EraseFile, disk, story
      <3>2. CASE pc' = "idle"
        BY <3>1, <3>2, Passive
      <3>3. CASE k' = k + 1 /\ UNCHANGED <<pc, at, count>>
        <4>1. k' >= 1
          BY <3>3 DEF TypeOK
        <4>2. Erasing'
          BY <1>13, <2>2, <3>3, <4>1 DEF EraseFile, story, Progress, Erasing, SlotsOf
        <4>3. Saving' /\ Recovering'
          BY <1>13, <3>3 DEF EraseFile, Saving, Recovering
        <4> QED BY <3>1, <4>2, <4>3 DEF Progress
      <3> QED BY <1>13, <2>2, <3>2, <3>3 DEF EraseFile
    <2>3. CASE /\ store' = [store EXCEPT ![at][SlotFor(count, k)] = NoJob]
               /\ UNCHANGED <<pc, at, count>>
      <3>1. \A c \in Base : \A s \in Slot :
              store'[c][s] = IF c = at /\ s = SlotFor(count, k) THEN NoJob ELSE store[c][s]
        BY <2>1, <2>3 DEF TypeOK
      <3>2. store[at][SlotFor(count, k)] \in Job => store[at][SlotFor(count, k)] \in released
        BY <1>13, <2>1 DEF EraseFile, Progress, Erasing
      <3>3. \A i \in Job \ released : \A q \in PartsOf(i) : Place(i, q) = i => Place(i, q)' = i
        <4> SUFFICES ASSUME NEW i \in Job \ released, NEW q \in PartsOf(i),
                            store[dest[i]][SlotOf(i, q)] = i
                     PROVE  store'[dest[i]][SlotOf(i, q)] = i
          BY <1>13 DEF EraseFile, Place
        <4>1. dest[i] \in Base /\ SlotOf(i, q) \in Slot
          BY SlotFacts DEF TypeOK
        <4> QED BY <3>1, <3>2, <4>1
      <3>4. Owned'
        BY <1>13, <3>1, NoJobAssumption DEF EraseFile, story, Custody, Owned
      <3>5. NoLoss' /\ RetiredIsWhole'
        BY <1>13, <3>3
        DEF EraseFile, story, Custody, NoLoss, RetiredIsWhole, OnDisk, InManual, Place,
            PartsOf, TypeOK
      <3>6. Erasing'
        BY <1>13, <2>3, <3>1, SlotsOfInSlot, NoJobAssumption
        DEF EraseFile, story, Progress, Erasing, TypeOK
      <3>7. Saving' /\ Recovering'
        BY <1>13, <2>3 DEF EraseFile, Saving, Recovering
      <3> QED BY <3>4, <3>5, <3>6, <3>7 DEF Custody, Progress
    <2> QED BY <1>13, <2>2, <2>3 DEF EraseFile
  <1>14. CASE EraseInfo
    <2>1. \A c \in Base : info'[c].text # "absent" => info'[c].of \in Job
      <3>1. info' = info \/ info' = [info EXCEPT ![at] = NoInfo]
        BY <1>14 DEF EraseInfo
      <3>2. \A c \in Base : info'[c] = info[c] \/ info'[c].text = "absent"
        BY <3>1 DEF NoInfo, TypeOK
      <3> QED BY <3>2 DEF Custody, Owned
    <2>2. Custody'
      BY <1>14, <2>1, SidecarOnly DEF EraseInfo, story
    <2> QED BY <1>14, <2>2, Passive DEF EraseInfo
  <1>15. CASE Keep
    BY <1>15, Quiet, Passive DEF Keep, ToIdle, story
  <1>16. CASE Discard
    BY <1>16, StartEraseKeeps DEF Discard, TypeOK
  <1>17. CASE Start
    BY <1>17, Quiet, Passive DEF Start, story
  <1>18. CASE Exit
    BY <1>18, Quiet, Passive DEF Exit, Off, story
  <1>19. ASSUME NEW j \in Job, Download(j) PROVE Custody' /\ Progress'
    <2>1. src'[j] = PartsOf(j) /\ \A i \in Job : i # j => src'[i] = src[i]
      BY <1>19 DEF Download, TypeOK
    <2>2. j \notin guarded
      BY <1>19 DEF Download, Custody, Owned
    <2>3. Owned'
      BY <1>19 DEF Download, story, Custody, Owned
    <2>4. NoLoss' /\ RetiredIsWhole'
      BY <1>19, <2>1, <2>2
      DEF Download, story, Custody, NoLoss, RetiredIsWhole, OnDisk, InManual, TypeOK,
          PartsOf
    <2>5. Progress'
      BY <1>19, <2>1, <2>2
      DEF Download, story, Progress, Saving, Recovering, Erasing, PartsOf
    <2> QED BY <2>3, <2>4, <2>5 DEF Custody
  <1>20. ASSUME NEW j \in Job, MaintainJob(j) PROVE Custody' /\ Progress'
    <2>1. /\ \A i \in Job : i # j => src'[i] = src[i] /\ marker'[i] = marker[i]
          /\ \A i \in Job : marker'[i] # "absent" => marker[i] # "absent"
      BY <1>20 DEF MaintainJob, TypeOK
    <2>2. Owned'
      BY <1>20, <2>1 DEF MaintainJob, Custody, Owned
    <2>3. NoLoss' /\ RetiredIsWhole'
      BY <1>20, <2>1
      DEF MaintainJob, Custody, NoLoss, RetiredIsWhole, OnDisk, InManual, TypeOK,
          PartsOf
    <2> QED BY <1>20, <2>2, <2>3, Passive DEF MaintainJob, Custody
  <1>21. ASSUME NEW b \in Base, ExtractSaved(b) PROVE Custody' /\ Progress'
    BY <1>21, Quiet, Passive DEF ExtractSaved, story
  <1>22. ASSUME NEW b \in Base, DeleteSaved(b) PROVE Custody' /\ Progress'
    <2>1. ListedCount(b) \in 1 .. 4
      BY <1>22, PartsAssumption DEF DeleteSaved, Listed, ListedCount, Custody, Owned
    <2> QED BY <1>22, <2>1, StartEraseKeeps DEF DeleteSaved
  <1>23. ASSUME NEW b \in Base, MaintainSaved(b) PROVE Custody' /\ Progress'
    <2>1. ListedCount(b) \in 1 .. 4
      BY <1>23, PartsAssumption DEF MaintainSaved, Scanned, ListedCount, Custody, Owned
    <2> QED BY <1>23, <2>1, StartEraseKeeps DEF MaintainSaved
  <1>24. ASSUME NEW j \in Job, RecoverSkip(j) PROVE Custody' /\ Progress'
    BY <1>24, Quiet, Passive DEF RecoverSkip, Visited, story
  <1>25. ASSUME NEW j \in Job, RecoverSidecar(j) PROVE Custody' /\ Progress'
    <2>1. \A c \in Base : info'[c].text # "absent" => info'[c].of \in Job
      BY <1>25 DEF RecoverSidecar, TypeOK, Custody, Owned
    <2>2. Custody'
      BY <1>25, <2>1, SidecarOnly DEF RecoverSidecar, story
    <2>3. j \in guarded /\ marker[j] # "absent"
      BY <1>25 DEF RecoverSidecar, Recoverable, Readable, Custody, Owned
    <2>4. 1 \in 1 .. Parts[j] + 1 /\ \A p \in PartsOf(j) : ~(p < 1)
      BY SlotFacts DEF PartsOf
    <2>5. Recovering'
      BY <1>25, <2>3, <2>4
      DEF RecoverSidecar, Recoverable, story, Recovering, Place, PartsOf, SlotOf
    <2>6. Saving' /\ Erasing'
      BY <1>25 DEF RecoverSidecar, Saving, Erasing
    <2> QED BY <2>2, <2>5, <2>6 DEF Progress
  <1>26. ASSUME NEW j \in Job, NEW text \in Torn,
                RecoverSidecarFails(j, text)
         PROVE  Custody' /\ Progress'
    <2>1. \A c \in Base : info'[c].text # "absent" => info'[c].of \in Job
      BY <1>26 DEF RecoverSidecarFails, TypeOK, Custody, Owned
    <2>2. Custody'
      BY <1>26, <2>1, SidecarOnly DEF RecoverSidecarFails, story, Visited
    <2>3. pc' = "recover"
      BY <1>26 DEF RecoverSidecarFails, Visited
    <2> QED BY <2>2, <2>3, Passive
  <1>27. ASSUME NEW j \in Job, PurgeKeep(j) PROVE Custody' /\ Progress'
    BY <1>27, Quiet, Passive DEF PurgeKeep, story
  <1>28. ASSUME NEW j \in Job, PurgeRemove(j) PROVE Custody' /\ Progress'
    <2>1. j \in guarded \ released => InManual(j)
      BY <1>28 DEF PurgeRemove, Preserved, Custody, RetiredIsWhole
    <2>2. \A i \in Job : i # j => src'[i] = src[i]
      BY <1>28 DEF PurgeRemove, TypeOK
    <2>3. Custody'
      BY <1>28, <2>1, <2>2, RetireCustody DEF PurgeRemove, story
    <2> QED BY <1>28, <2>3, Passive DEF PurgeRemove
  <1>29. CASE RecoverMove
    <2>1. /\ cur \in Job /\ cur \in guarded /\ marker[cur] # "absent"
          /\ k \in PartsOf(cur) /\ dest[cur] \in Base
      BY <1>29 DEF RecoverMove, Progress, Recovering, TypeOK
    <2>2. \A p \in PartsOf(cur) :
            IF p < k THEN cur \in released \/ Place(cur, p) = cur
            ELSE p \in src[cur] <=> Place(cur, p) = NoJob
      BY <1>29 DEF RecoverMove, Progress, Recovering
    <2>3. ~(k < k) /\ k + 1 \in 1 .. Parts[cur] + 1
      BY <2>1, SlotFacts DEF PartsOf
    <2>4. Saving' /\ Erasing'
      BY <1>29 DEF RecoverMove, Saving, Erasing
    <2>5. CASE pc' = "recover" /\ UNCHANGED <<src, store>>
      <3>1. Custody'
        BY <1>29, <2>5, Quiet DEF RecoverMove, disk, story
      <3> QED BY <2>5, <3>1, Passive
    <2>6. CASE /\ Place(cur, k) # NoJob /\ UNCHANGED <<src, store>>
               /\ k' = k + 1 /\ UNCHANGED <<pc, cur>>
      <3>1. Custody'
        BY <1>29, <2>6, Quiet DEF RecoverMove, disk, story
      <3>2. cur \in released \/ Place(cur, k) = cur
        BY <2>1, <2>2, <2>3, <2>6 DEF Custody, NoLoss, OnDisk, Place
      <3>3. \A p \in PartsOf(cur) :
              IF p < k + 1 THEN cur \in released \/ Place(cur, p) = cur
              ELSE p \in src[cur] <=> Place(cur, p) = NoJob
        <4> SUFFICES ASSUME NEW p \in PartsOf(cur), p # k
                     PROVE (p < k + 1) = (p < k)
          BY <2>1, <2>2, <3>2 DEF PartsOf
        <4> QED BY <2>1 DEF PartsOf
      <3>4. Recovering'
        BY <1>29, <2>1, <2>3, <2>6, <3>3
        DEF RecoverMove, story, Recovering, Place, PartsOf, SlotOf
      <3> QED BY <2>4, <3>1, <3>4 DEF Progress
    <2>7. CASE /\ Place(cur, k) = NoJob /\ MoveOut(cur, k, dest[cur])
               /\ k' = k + 1 /\ UNCHANGED <<pc, cur>>
      <3>1. Custody'
        BY <1>29, <2>1, <2>7, MoveOutCustody DEF RecoverMove, story
      <3>2. /\ store'[dest[cur]][SlotOf(cur, k)] = cur
            /\ \A s \in Slot : s # SlotOf(cur, k) => store'[dest[cur]][s] = store[dest[cur]][s]
            /\ src'[cur] = src[cur] \ {k}
        BY <2>1, <2>7, MoveOutEffect
      <3>3. \A p \in PartsOf(cur) :
              IF p < k + 1 THEN cur \in released \/ store'[dest[cur]][SlotOf(cur, p)] = cur
              ELSE p \in src'[cur] <=> store'[dest[cur]][SlotOf(cur, p)] = NoJob
        <4> SUFFICES ASSUME NEW p \in PartsOf(cur)
                     PROVE  IF p < k + 1 THEN cur \in released \/ store'[dest[cur]][SlotOf(cur, p)] = cur
                            ELSE p \in src'[cur] <=> store'[dest[cur]][SlotOf(cur, p)] = NoJob
          OBVIOUS
        <4>1. CASE p = k
          BY <2>1, <3>2, <4>1 DEF PartsOf
        <4>2. CASE p # k
          <5>1. store'[dest[cur]][SlotOf(cur, p)] = Place(cur, p)
            BY <2>1, <3>2, <4>2, SlotFacts DEF Place
          <5>2. (p < k + 1) = (p < k)
            BY <2>1, <4>2 DEF PartsOf
          <5> QED BY <2>2, <3>2, <4>2, <5>1, <5>2
        <4> QED BY <4>1, <4>2
      <3>4. Recovering'
        BY <1>29, <2>1, <2>3, <2>7, <3>3
        DEF RecoverMove, story, Recovering, Place, PartsOf, SlotOf
      <3> QED BY <2>4, <3>1, <3>4 DEF Progress
    <2> QED BY <1>29, <2>5, <2>6, <2>7 DEF RecoverMove, Place
  <1>30. CASE RecoverDone
    <2>1. cur \in Job
      BY <1>30 DEF RecoverDone, Progress, Recovering, TypeOK
    <2>2. \A p \in PartsOf(cur) : p < k
      BY <1>30, <2>1, SlotFacts DEF RecoverDone, Progress, Recovering, PartsOf
    <2>3. cur \in guarded \ released => InManual(cur)
      BY <1>30, <2>1, <2>2 DEF RecoverDone, Progress, Recovering, InManual, Place
    <2>4. /\ \A i \in Job : i # cur => marker'[i] = marker[i]
          /\ \A i \in Job : marker'[i] # "absent" => marker[i] # "absent"
      BY <1>30, <2>1 DEF RecoverDone, TypeOK
    <2>5. Custody'
      BY <1>30, <2>1, <2>3, <2>4, RetireCustody DEF RecoverDone, story
    <2> QED BY <1>30, <2>5, Passive DEF RecoverDone
  <1>31. CASE RecoverEnd
    BY <1>31, Quiet, Passive DEF RecoverEnd, story
  <1>32. CASE PurgeEnd
    BY <1>32, Quiet, Passive DEF PurgeEnd, story
  <1>36. CASE CleanEnd
    BY <1>36, Quiet, Passive DEF CleanEnd, ToIdle, story
  <1>33. CASE Crash
    BY <1>33, Quiet, Passive DEF Crash, Off, story
  <1>34. ASSUME NEW b \in Base, NEW text \in Torn \ {"absent"},
                CrashInWrite(b, text)
         PROVE  Custody' /\ Progress'
    <2>1. /\ text # "absent"
          /\ UNCHANGED <<src, store, fetched, released>>
      BY <1>34 DEF CrashInWrite
    <2>2. ASSUME CanPersist(b),
                 marker' = [marker EXCEPT ![cur] = text],
                 dest' = [dest EXCEPT ![cur] = b],
                 guarded' = guarded \cup {cur},
                 UNCHANGED info
          PROVE  Custody'
      <3>1. pc = "persist"
        BY <2>2 DEF CanPersist
      <3>2. cur \in fetched \ guarded /\ PartsOf(cur) \subseteq src[cur]
        BY <3>1 DEF Progress, Saving
      <3> QED BY <2>1, <2>2, <3>2, JournalCustody
    <2>3. ASSUME UNCHANGED <<marker, dest, guarded>>,
                 \E i \in Job : info' = [info EXCEPT ![b] = [of |-> i, text |-> text]]
          PROVE  Custody'
      <3>1. \A c \in Base : info'[c].text # "absent" => info'[c].of \in Job
        <4>1. PICK i \in Job : info' = [info EXCEPT ![b] = [of |-> i, text |-> text]]
          BY <2>3
        <4>2. \A c \in Base : info'[c] = IF c = b THEN [of |-> i, text |-> text] ELSE info[c]
          BY <4>1 DEF TypeOK
        <4> QED BY <4>2 DEF Custody, Owned
      <3> QED BY <2>1, <2>3, <3>1, SidecarOnly
    <2>4. Custody'
      <3>1. pc = "sidecar" => cur \in Job
        BY DEF Progress, Saving, TypeOK
      <3>2. todo \subseteq Job
        BY DEF TypeOK
      <3> QED BY <1>34, <2>2, <2>3, <3>1, <3>2 DEF CrashInWrite
    <2> QED BY <1>34, <2>4, Passive DEF CrashInWrite, Off
  <1>35. CASE UNCHANGED vars
    <2>1. Custody'
      BY <1>35, Quiet DEF vars, disk, story
    <2>2. Progress'
      BY <1>35
      DEF vars, disk, work, story, Progress, Saving, Recovering, Erasing, Place,
          PartsOf, SlotOf
    <2> QED BY <2>1, <2>2
  <1> QED
    BY <1>1, <1>2, <1>3, <1>4, <1>5, <1>6, <1>7, <1>8, <1>9, <1>10, <1>11, <1>12,
        <1>13, <1>14, <1>15, <1>16, <1>17, <1>18, <1>19, <1>20, <1>21, <1>22, <1>23,
        <1>24, <1>25, <1>26, <1>27, <1>28, <1>29, <1>30, <1>31, <1>32, <1>33, <1>34,
        <1>35, <1>36
         DEF Next, Save, Extract, Erase, User, Startup, PowerCut

-----------------------------------------------------------------------------
(* The theorems *)

LEMMA Initially == Init => IInv
  <1> SUFFICES ASSUME Init PROVE IInv
    OBVIOUS
  <1> USE LegacyAssumption, NoJobAssumption, BoundAssumption DEF Init
  <1>1. \A j \in Job : PartsOf(j) \subseteq 1 .. 4
    BY SlotFacts
  <1>2. TypeOK
    BY <1>1 DEF TypeOK, NoInfo, Text, Base
  <1>3. Owned
    BY DEF Owned, NoInfo, Base, Slot
  <1>4. NoLoss /\ RetiredIsWhole
    BY DEF NoLoss, RetiredIsWhole, OnDisk
  <1>5. Progress
    BY DEF Progress, Saving, Recovering, Erasing
  <1> QED BY <1>2, <1>3, <1>4, <1>5 DEF IInv, Custody

LEMMA Always == Spec => []IInv
  BY Initially, Inductive, PTL DEF Spec

\* The types of the save, the recovery and the purge: every loop over parts
\* stays within the parts there are, and names only bases that exist.
THEOREM TypeCorrect == Spec => []TypeOK
  <1>1. IInv => TypeOK
    BY DEF IInv
  <1> QED BY <1>1, Always, PTL

\* persistPendingZipRecovery, recoverInterruptedZipMoves and
\* purgeIncompleteJobs never lose a part of an archive whose marker was
\* created, for any number of faults and power cuts, at any step.
THEOREM ArchiveSafe == Spec => []NoLoss
  <1>1. IInv => NoLoss
    BY DEF IInv, Custody
  <1> QED BY <1>1, Always, PTL

\* The marker goes only behind a whole archive, so that the purge that
\* follows a missing marker never deletes the last copy of a part.
THEOREM RetiredWhole == Spec => []RetiredIsWhole
  <1>1. IInv => RetiredIsWhole
    BY DEF IInv, Custody
  <1> QED BY <1>1, Always, PTL

-----------------------------------------------------------------------------
(* Moves never land on a file *)

KeepsFiles ==
    \A b \in Base : \A s \in Slot :
        store[b][s] # NoJob => store'[b][s] \in {store[b][s], NoJob}

LEMMA MovesKeepFiles == IInv /\ [Next]_vars => KeepsFiles
  <1> SUFFICES ASSUME IInv, [Next]_vars PROVE KeepsFiles
    OBVIOUS
  <1> USE DEF IInv
  <1>1. CASE UNCHANGED store
    BY <1>1 DEF KeepsFiles
  <1>2. CASE PersistMove
    <2>1. cur \in Job /\ k \in PartsOf(cur) /\ at \in Base
      BY <1>2 DEF PersistMove, Progress, Saving, TypeOK
    <2>2. store[at][SlotOf(cur, k)] = NoJob
      <3>1. ~(k < k)
        BY <2>1 DEF PartsOf
      <3> QED BY <1>2, <2>1, <3>1 DEF PersistMove, Progress, Saving
    <2>3. CASE MoveOut(cur, k, at)
      BY <2>1, <2>2, <2>3, MoveOutEffect DEF KeepsFiles
    <2> QED BY <1>1, <1>2, <2>3 DEF PersistMove
  <1>3. CASE PersistRollback
    <2>1. cur \in Job /\ at \in Base
      BY <1>3 DEF PersistRollback, Progress, Saving, TypeOK
    <2>2. k \in PartsOf(cur)
      BY <1>3, <2>1, SlotFacts DEF PersistRollback, Progress, Saving, PartsOf
    <2>3. CASE MoveBack(cur, k, at)
      BY <2>1, <2>2, <2>3, MoveBackEffect DEF KeepsFiles
    <2> QED BY <1>1, <1>3, <2>3 DEF PersistRollback
  <1>4. CASE EraseFile
    BY <1>1, <1>4 DEF EraseFile, KeepsFiles, TypeOK
  <1>5. CASE RecoverMove
    <2>1. cur \in Job /\ k \in PartsOf(cur) /\ dest[cur] \in Base
      BY <1>5 DEF RecoverMove, Progress, Recovering, TypeOK
    <2>2. CASE /\ store[dest[cur]][SlotOf(cur, k)] = NoJob
               /\ MoveOut(cur, k, dest[cur])
      BY <2>1, <2>2, MoveOutEffect DEF KeepsFiles
    <2> QED BY <1>1, <1>5, <2>2 DEF RecoverMove
  <1>6. CASE Save
    BY <1>1, <1>2, <1>3, <1>6
       DEF Save, PersistRefuse, PersistJournal, JournalFails, PersistSidecar,
           SidecarFails, PersistRollbackEnd, PersistCommit, disk
  <1>7. CASE Extract \/ Erase
    BY <1>1, <1>4, <1>7
       DEF Extract, Erase, ExtractOk, ExtractFail, ExtractCancel, ToIdle, EraseInfo,
           StartErase, disk
  <1>8. CASE User
    BY <1>1, <1>8
       DEF User, Keep, Discard, Start, Exit, Download, MaintainJob, ExtractSaved,
           DeleteSaved, MaintainSaved, ToIdle, StartErase, disk
  <1>9. CASE Startup
    BY <1>1, <1>5, <1>9
       DEF Startup, RecoverSkip, RecoverSidecar, RecoverSidecarFails, PurgeKeep,
           PurgeRemove, RecoverDone, RecoverEnd, PurgeEnd, CleanEnd, ToIdle, disk
  <1>10. CASE PowerCut \/ UNCHANGED vars
    BY <1>1, <1>10 DEF PowerCut, Crash, CrashInWrite, vars, disk
  <1> QED BY <1>6, <1>7, <1>8, <1>9, <1>10 DEF Next

\* Neither a save, nor its rollback, nor the startup recovery moves a part onto
\* a file that is already there: the existence checks made once, before the
\* loop, still hold at every rename.
THEOREM NoOverwrite == Spec => NeverOverwrites
  <1>1. IInv /\ [Next]_vars
          => [\A b \in Base : \A s \in Slot :
                store[b][s] # NoJob => store'[b][s] \in {store[b][s], NoJob}]_vars
    BY MovesKeepFiles DEF KeepsFiles
  <1> QED BY <1>1, Always, PTL DEF Spec, NeverOverwrites

-----------------------------------------------------------------------------
(* Refinement of ArchiveVault *)

\* Protection is given to one job at a time and never withdrawn; what is given
\* up was protected.
LEMMA StoryGrows ==
    ASSUME IInv, [Next]_vars
    PROVE  \/ guarded' = guarded /\ released \subseteq released'
           \/ /\ released' = released
              /\ \E j \in Job \ guarded : guarded' = guarded \cup {j}
  <1> DEFINE Gives == guarded' = guarded /\ released \subseteq released'
  <1> DEFINE Guards == /\ released' = released
                      /\ \E j \in Job \ guarded : guarded' = guarded \cup {j}
  <1>1. ASSUME NEW b \in Base, CanPersist(b) PROVE cur \in Job \ guarded
    BY <1>1 DEF CanPersist, IInv, TypeOK, Progress, Saving
  <1>2. CASE Save
    BY <1>1, <1>2
       DEF Save, PersistRefuse, PersistJournal, JournalFails, PersistSidecar,
           SidecarFails, PersistMove, PersistRollback, PersistRollbackEnd,
           PersistCommit, GiveUp, story
  <1>3. CASE Extract \/ Erase
    BY <1>3
       DEF Extract, Erase, ExtractOk, ExtractFail, ExtractCancel, ToIdle, EraseFile,
           EraseInfo, StartErase, story
  <1>4. CASE User
    BY <1>4
       DEF User, Keep, Discard, Start, Exit, Download, MaintainJob, ExtractSaved,
           DeleteSaved, MaintainSaved, ToIdle, StartErase, story
  <1>5. CASE Startup
    BY <1>5
       DEF Startup, RecoverSkip, RecoverSidecar, RecoverSidecarFails, RecoverMove,
           PurgeKeep, PurgeRemove, RecoverDone, RecoverEnd, PurgeEnd, CleanEnd, ToIdle, story
  <1>6. CASE PowerCut
    BY <1>1, <1>6 DEF PowerCut, Crash, CrashInWrite, story
  <1>7. CASE UNCHANGED vars
    BY <1>7 DEF vars, story
  <1> QED BY <1>2, <1>3, <1>4, <1>5, <1>6, <1>7 DEF Next

Standing(j) == IF j \in released THEN "dropped"
               ELSE IF j \in guarded THEN "held" ELSE "absent"

LEMMA VaultIsStanding == IInv => VaultArchive = [j \in Job |-> Standing(j)]
  BY DEF IInv, Custody, NoLoss, VaultArchive, Standing

LEMMA VaultInit == Init => Vault!Init
  <1> SUFFICES ASSUME Init PROVE Vault!Init
    OBVIOUS
  <1>1. VaultArchive = [j \in Job |-> Standing(j)]
    BY Initially, VaultIsStanding
  <1> QED BY <1>1 DEF Init, Standing, Vault!Init

LEMMA VaultStep ==
    IInv /\ [Next]_vars => Vault!Next \/ UNCHANGED VaultArchive
  <1> SUFFICES ASSUME IInv, [Next]_vars PROVE Vault!Next \/ UNCHANGED VaultArchive
    OBVIOUS
  <1>1. /\ VaultArchive = [j \in Job |-> Standing(j)]
        /\ VaultArchive' = [j \in Job |-> Standing(j)']
    BY Inductive, VaultIsStanding
       DEF IInv, Custody, NoLoss, VaultArchive, Standing
  <1>2. released \subseteq guarded /\ released' \subseteq guarded'
    BY Inductive DEF IInv, Custody, Owned
  <1>3. guarded \subseteq Job /\ released' \subseteq Job
    BY Inductive DEF IInv, TypeOK
  <1>4. CASE guarded' = guarded /\ released \subseteq released'
    <2> DEFINE S == released' \ released
    <2>1. S \in SUBSET Job /\ \A j \in S : VaultArchive[j] = "held"
      BY <1>1, <1>2, <1>3, <1>4 DEF Standing
    <2>2. VaultArchive' = [j \in Job |-> IF j \in S THEN "dropped" ELSE VaultArchive[j]]
      BY <1>1, <1>2, <1>4 DEF Standing
    <2>3. Vault!Drop(S)
      BY <2>1, <2>2 DEF Vault!Drop
    <2> QED BY <2>1, <2>3 DEF Vault!Next
  <1>5. ASSUME released' = released,
               NEW j \in Job \ guarded, guarded' = guarded \cup {j}
        PROVE  Vault!Next
    <2>1. VaultArchive[j] = "absent"
      BY <1>1, <1>2, <1>5 DEF Standing
    <2>2. VaultArchive' = [VaultArchive EXCEPT ![j] = "held"]
      BY <1>1, <1>2, <1>5 DEF Standing
    <2>3. Vault!Hold(j)
      BY <2>1, <2>2 DEF Vault!Hold
    <2> QED BY <2>3 DEF Vault!Next
  <1> QED BY <1>4, <1>5, StoryGrows

\* The code implements ArchiveVault: across power cuts, I/O errors, rollbacks
\* and partial recoveries a protected archive changes only from held to
\* dropped, and only by an extraction that succeeded or a deletion.
THEOREM ImplementsVault == Spec => HeldUntilDropped
  <1>1. IInv /\ [Next]_vars => [Vault!Next]_VaultArchive
    BY VaultStep
  <1> QED BY <1>1, VaultInit, Always, PTL DEF Spec, HeldUntilDropped, Vault!Spec
=============================================================================
