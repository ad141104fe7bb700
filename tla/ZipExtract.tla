------------------------------ MODULE ZipExtract ------------------------------
(* Unpacking an archive over a folder that may already hold files: source/archive/zip_extractor.cpp, extract(),   *)
(* with what source/storage/storage_maintenance.cpp does to its staging folder at the next start.                 *)
(* Files that lie too deep for the console's file system are unpacked into a staging tree and their whole folder, *)
(* a branch, is renamed into place once every entry has been read.                                                *)
(* A file is its length and the entry that wrote it; folders, progress reports and messages are left out.         *)
EXTENDS Integers, Sequences, FiniteSets, FiniteSetsExt

CONSTANTS
  Paths,        \* the files an archive may name, or that lie beside them
  Branches,     \* the deep folders
  NoBranch,     \* the branch of a file that is not deep
  Branch,       \* Paths -> Branches \cup {NoBranch}
  Archives,     \* the archives: sequences of entries [path, size, kind]
  OldSizes,     \* the sizes of the files before the first attempt, 0 for no file
  Capacity,     \* room of the volume
  Margin,       \* the fixed part of the room kept free (32 MiB)
  MaxOthers,    \* bound: room others may take while the archive is unpacked
  MaxFaults,    \* bound: I/O errors
  MaxCuts,      \* bound: power cuts
  MaxAttempts   \* bound: attempts of the caller

Kinds == {"good", "corrupt", "unsupported", "unsafe"}

ASSUME PathsAssumption ==
  /\ NoBranch \notin Branches
  /\ Branch \in [Paths -> Branches \cup {NoBranch}]
ASSUME ArchivesAssumption == Archives \subseteq Seq([path : Paths, size : Nat \ {0}, kind : Kinds])
ASSUME OldSizesAssumption == OldSizes \subseteq [Paths -> Nat]
ASSUME RoomAssumption == IsFiniteSet(Paths) /\ {Capacity, Margin, MaxOthers} \subseteq Nat

VARIABLES
  archive,   \* the archive being installed
  disk,      \* the files at their destinations
  stage,     \* the files in the staging tree
  staging,   \* the staging folder exists
  others,    \* room taken by other writers
  pc,        \* where extract() is; "off" is a console without power
  i,         \* the entry being unpacked
  fresh,     \* definitelyNewFile: this entry's file was created by this attempt
  created,   \* newlyCreatedFiles: <<"disk" or "stage", path>>
  unmoved,   \* branches that the commit has still to move
  known,     \* haveSpace: the volume told its free space
  cancel,    \* the caller's cancel flag
  outcome,   \* the result; "NoSpace" is an IoError told apart by its message
  users,     \* (history) disk before the first attempt
  before,    \* (history) files that were there when this attempt began
  faults, cuts, attempts

attemptVars == <<i, fresh, created, unmoved, known>>
budget == <<faults, cuts, attempts>>
vars == <<archive, disk, stage, staging, others, pc, attemptVars, cancel, outcome, users, before, budget>>

Absent == [by |-> 0, len |-> 0]
UserFile(n) == IF n = 0 THEN Absent ELSE [by |-> -1, len |-> n]
Entries == 1..Len(archive)
Deep(p) == Branch[p] # NoBranch
Tree(p) == IF Deep(p) THEN "stage" ELSE "disk"
InBranch(b) == {p \in Paths : Branch[p] = b}
Occupied(b) == \E p \in InBranch(b) : disk[p] # Absent
DeepBranches == {Branch[archive[k].path] : k \in Entries} \ {NoBranch}

-----------------------------------------------------------------------------
(* The space check. *)

Occupancy(tree) == MapThenSumSet(LAMBDA p : tree[p].len, Paths)
Free == Capacity - others - Occupancy(disk) - Occupancy(stage)

UncompressedTotal == MapThenSumSet(LAMBDA k : archive[k].size, Entries)
Required(growth) == growth + Margin + growth \div 20

\* Mutant of Credit: all of the old file's room is counted.
CreditWhole(k) ==
  LET p == archive[k].path
      first == \A l \in 1..k-1 : archive[l].path # p
  IN  IF first /\ ~Deep(p) THEN disk[p].len ELSE 0

\* Room that replacing a file gives back, counted at the first entry of each path and never for a deep file.
Credit(k) ==
  LET p == archive[k].path
      first == \A l \in 1..k-1 : archive[l].path # p
  IN  IF first /\ ~Deep(p) THEN Min({archive[k].size, disk[p].len}) ELSE 0

EstimatedGrowth ==
  IF Free >= Required(UncompressedTotal) THEN UncompressedTotal
  ELSE UncompressedTotal - MapThenSumSet(Credit, Entries)

-----------------------------------------------------------------------------
Init ==
  /\ archive \in Archives
  /\ users \in {[p \in Paths |-> UserFile(old[p])] : old \in OldSizes}
  /\ disk = users
  /\ stage = [p \in Paths |-> Absent] /\ staging = FALSE
  /\ others = 0
  /\ pc = "idle" /\ outcome = "none" /\ cancel = FALSE
  /\ i = 1 /\ fresh = FALSE /\ created = << >> /\ unmoved = {} /\ known = FALSE
  /\ before = {}
  /\ faults = 0 /\ cuts = 0 /\ attempts = 0

\* An installer unpacks the archive, for the first time or again after an attempt that failed.
Extract ==
  /\ pc \in {"idle", "done"} /\ outcome # "Ok"
  /\ attempts < MaxAttempts
  /\ attempts' = attempts + 1
  /\ pc' = "space" /\ outcome' = "none" /\ cancel' = FALSE
  /\ i' = 1 /\ fresh' = FALSE /\ created' = << >> /\ unmoved' = {}
  /\ known' \in BOOLEAN
  /\ before' = {p \in Paths : disk[p] # Absent}
  /\ UNCHANGED <<archive, disk, stage, staging, others, users, faults, cuts>>

\* The user cancels the job: extract() sees it at its next call of shouldCancel.
CancelJob ==
  /\ pc \notin {"idle", "done", "off"} /\ ~cancel
  /\ cancel' = TRUE
  /\ UNCHANGED <<archive, disk, stage, staging, others, pc, attemptVars, outcome, users, before, budget>>

\* Downloads, logs and images take room meanwhile.
OthersWrite ==
  /\ others < MaxOthers /\ Free > 0
  /\ pc \notin {"idle", "done", "off"}
  /\ others' = others + 1
  /\ UNCHANGED <<archive, disk, stage, staging, pc, attemptVars, cancel, outcome, users, before, budget>>

\* The scan of the sizes and methods, then the room they need; nothing has been written when it refuses.
CheckSpace ==
  /\ pc = "space"
  /\ \/ /\ \E k \in Entries : archive[k].kind = "unsupported"
        /\ outcome' = "InvalidEntry" /\ pc' = "done"
     \/ /\ cancel /\ known /\ Free < Required(UncompressedTotal)
        /\ outcome' = "Cancelled" /\ pc' = "done"
     \/ /\ \A k \in Entries : archive[k].kind # "unsupported"
        /\ IF known /\ Free < Required(EstimatedGrowth)
             THEN outcome' = "IoError" /\ pc' = "done"
             ELSE pc' = "preflight" /\ UNCHANGED outcome
  /\ UNCHANGED <<archive, disk, stage, staging, others, attemptVars, cancel, users, before, budget>>

\* Every path is checked and, when there are deep ones, the staging folder made, before a file is opened. An occupied
\* branch, or a folder that cannot be made, is refused after that: the unwinding of extract() then removes the folder.
Preflight ==
  /\ pc = "preflight"
  /\ IF cancel
       THEN pc' = "done" /\ outcome' = "Cancelled" /\ UNCHANGED <<staging, unmoved, faults>>
     ELSE IF \E k \in Entries : archive[k].kind = "unsafe"
       THEN pc' = "done" /\ outcome' = "UnsafePath" /\ UNCHANGED <<staging, unmoved, faults>>
     ELSE /\ staging' = (DeepBranches # {})
          /\ unmoved' = DeepBranches
          /\ \/ /\ \A b \in DeepBranches : ~Occupied(b)
                /\ pc' = "open" /\ UNCHANGED <<outcome, faults>>
             \/ /\ \E b \in DeepBranches : Occupied(b)
                /\ pc' = "sweep" /\ outcome' = "IoError" /\ UNCHANGED faults
             \/ /\ faults < MaxFaults /\ faults' = faults + 1
                /\ pc' = "sweep" /\ outcome' = "IoError"
  /\ UNCHANGED <<archive, disk, stage, others, i, fresh, created, known, cancel, users, before, cuts, attempts>>

\* One file of a tree is given new contents.
Put(tree, p, f) ==
  /\ disk' = IF tree = "disk" THEN [disk EXCEPT ![p] = f] ELSE disk
  /\ stage' = IF tree = "stage" THEN [stage EXCEPT ![p] = f] ELSE stage
FileIn(tree, p) == IF tree = "disk" THEN disk[p] ELSE stage[p]

\* Mutant of OpenEntry: a replaced file is listed as created.
OpenEntryLists ==
  /\ pc = "open" /\ i <= Len(archive) /\ ~cancel
  /\ LET p == archive[i].path
         isNew == FileIn(Tree(p), p) = Absent
     IN  /\ Put(Tree(p), p, [by |-> i, len |-> 0])
         /\ fresh' = isNew
         /\ created' = Append(created, <<Tree(p), p>>)
  /\ pc' = "write"
  /\ UNCHANGED <<archive, staging, others, i, unmoved, known, cancel, outcome, users, before, budget>>

\* An exclusive create tells a new file from one that is there; one that is there is truncated in place.
OpenEntry ==
  /\ pc = "open" /\ i <= Len(archive) /\ ~cancel
  /\ LET p == archive[i].path
         isNew == FileIn(Tree(p), p) = Absent
     IN  /\ Put(Tree(p), p, [by |-> i, len |-> 0])
         /\ fresh' = isNew
         /\ created' = IF isNew THEN Append(created, <<Tree(p), p>>) ELSE created
  /\ pc' = "write"
  /\ UNCHANGED <<archive, staging, others, i, unmoved, known, cancel, outcome, users, before, budget>>

\* The loop ends before the file is opened: the job was cancelled, or the entry or its file cannot be opened.
OpenFails ==
  /\ pc = "open" /\ i <= Len(archive)
  /\ \/ cancel /\ outcome' = "Cancelled" /\ UNCHANGED faults
     \/ ~cancel /\ faults < MaxFaults /\ faults' = faults + 1 /\ outcome' = "IoError"
  /\ pc' = "reclaim"
  /\ UNCHANGED <<archive, disk, stage, staging, others, attemptVars, cancel, users, before, cuts, attempts>>

\* One more block of the entry.
WriteBlock ==
  LET p == archive[i].path
      f == FileIn(Tree(p), p)
  IN  /\ pc = "write" /\ ~cancel
      /\ f.len < archive[i].size /\ Free > 0
      /\ Put(Tree(p), p, [f EXCEPT !.len = @ + 1])
      /\ UNCHANGED <<archive, staging, others, pc, attemptVars, cancel, outcome, users, before, budget>>

\* The entry is whole and its checksum and size are right.
CloseEntry ==
  /\ pc = "write" /\ ~cancel
  /\ archive[i].kind = "good"
  /\ FileIn(Tree(archive[i].path), archive[i].path).len = archive[i].size
  /\ pc' = "open" /\ i' = i + 1
  /\ UNCHANGED <<archive, disk, stage, staging, others, fresh, created, unmoved, known, cancel, outcome, users,
                 before, budget>>

\* The entry is given up: cancelled, unreadable, no room, or an I/O error. Its file is deleted if this attempt made
\* it, and left incomplete if it was there before.
EntryFails ==
  LET p == archive[i].path
      f == FileIn(Tree(p), p)
  IN  /\ pc = "write"
      /\ \/ cancel /\ outcome' = "Cancelled" /\ UNCHANGED faults
         \/ ~cancel /\ f.len = archive[i].size /\ archive[i].kind = "corrupt" /\ outcome' = "IoError" /\ UNCHANGED faults
         \/ ~cancel /\ f.len < archive[i].size /\ Free <= 0 /\ outcome' = "NoSpace" /\ UNCHANGED faults
         \/ ~cancel /\ faults < MaxFaults /\ faults' = faults + 1 /\ outcome' = "IoError"
      /\ Put(Tree(p), p, IF fresh THEN Absent ELSE f)
      /\ pc' = "reclaim"
      /\ UNCHANGED <<archive, staging, others, attemptVars, cancel, users, before, cuts, attempts>>

\* Every entry was read and the archive closed.
CloseArchive ==
  /\ pc = "open" /\ i > Len(archive)
  /\ \/ pc' = "commit" /\ UNCHANGED <<outcome, faults>>
     \/ faults < MaxFaults /\ faults' = faults + 1 /\ pc' = "reclaim" /\ outcome' = "IoError"
  /\ UNCHANGED <<archive, disk, stage, staging, others, attemptVars, cancel, users, before, cuts, attempts>>

\* One branch is renamed into place, after a second look at its destination.
CommitBranch ==
  /\ pc = "commit" /\ ~cancel
  /\ \E b \in unmoved :
       /\ ~Occupied(b)
       /\ disk' = [p \in Paths |-> IF Branch[p] = b THEN stage[p] ELSE disk[p]]
       /\ stage' = [p \in Paths |-> IF Branch[p] = b THEN Absent ELSE stage[p]]
       /\ unmoved' = unmoved \ {b}
  /\ UNCHANGED <<archive, staging, others, pc, i, fresh, created, known, cancel, outcome, users, before, budget>>

CommitFails ==
  /\ pc = "commit" /\ unmoved # {}
  /\ \/ cancel /\ outcome' = "Cancelled" /\ UNCHANGED faults
     \/ ~cancel /\ faults < MaxFaults /\ faults' = faults + 1 /\ outcome' = "IoError"
  /\ pc' = "reclaim"
  /\ UNCHANGED <<archive, disk, stage, staging, others, attemptVars, cancel, users, before, cuts, attempts>>

\* Mutant of Committed: the first move ends the commit.
CommittedEarly ==
  /\ pc = "commit" /\ (unmoved = {} \/ unmoved # DeepBranches)
  /\ outcome' = "Ok" /\ pc' = "sweep"
  /\ UNCHANGED <<archive, disk, stage, staging, others, attemptVars, cancel, users, before, budget>>

Committed ==
  /\ pc = "commit" /\ unmoved = {}
  /\ outcome' = "Ok" /\ pc' = "sweep"
  /\ UNCHANGED <<archive, disk, stage, staging, others, attemptVars, cancel, users, before, budget>>

\* After a failure the files this attempt created are deleted, the last one first.
Reclaim ==
  /\ pc = "reclaim"
  /\ IF created = << >>
       THEN pc' = "sweep" /\ UNCHANGED <<disk, stage, created>>
       ELSE LET last == created[Len(created)]
            IN  /\ Put(last[1], last[2], Absent)
                /\ created' = SubSeq(created, 1, Len(created) - 1)
                /\ UNCHANGED pc
  /\ UNCHANGED <<archive, staging, others, i, fresh, unmoved, known, cancel, outcome, users, before, budget>>

\* OwnedStageCleanup: the staging folder goes when extract() returns, whatever the result.
Sweep ==
  /\ pc = "sweep"
  /\ pc' = "done"
  /\ stage' = [p \in Paths |-> Absent] /\ staging' = FALSE
  /\ UNCHANGED <<archive, disk, others, attemptVars, cancel, outcome, users, before, budget>>

\* The console loses power in the middle of an attempt.
PowerCut ==
  /\ pc \notin {"idle", "done", "off"} /\ cuts < MaxCuts
  /\ cuts' = cuts + 1
  /\ pc' = "off" /\ outcome' = "none"
  /\ UNCHANGED <<archive, disk, stage, staging, others, attemptVars, cancel, users, before, faults, attempts>>

\* cleanupTransient removes the staging folders it finds at the next start.
Restart ==
  /\ pc = "off"
  /\ pc' = "idle"
  /\ stage' = [p \in Paths |-> Absent] /\ staging' = FALSE
  /\ i' = 1 /\ fresh' = FALSE /\ created' = << >> /\ unmoved' = {} /\ known' = FALSE /\ cancel' = FALSE
  /\ UNCHANGED <<archive, disk, others, outcome, users, before, budget>>

Step ==
  \/ CheckSpace \/ Preflight
  \/ OpenEntry \/ OpenFails \/ WriteBlock \/ CloseEntry \/ EntryFails
  \/ CloseArchive \/ CommitBranch \/ CommitFails \/ Committed
  \/ Reclaim \/ Sweep

Next == Extract \/ CancelJob \/ OthersWrite \/ Step \/ PowerCut \/ Restart

Spec == Init /\ [][Next]_vars

-----------------------------------------------------------------------------
(* What extract() promises. *)

Targets == {archive[k].path : k \in Entries}
LastEntry(p) == Max({k \in Entries : archive[k].path = p})
Unpacked(p) == [by |-> LastEntry(p), len |-> archive[LastEntry(p)].size]

\* A file that was there before the first attempt is never deleted, by no failure, retry or power cut; one that the
\* archive does not name, or that lies in a deep folder, is never even changed.
UsersFilesSurvive ==
  \A p \in Paths : users[p] # Absent =>
    /\ disk[p] # Absent
    /\ p \notin Targets \/ Deep(p) => disk[p] = users[p]

\* When the volume told its free space and the check let the archive through, it does not run out of room half way,
\* at no prefix of the entries, as long as others keep to the margin.
SpaceSuffices == outcome = "NoSpace" => ~known

\* A successful extraction put every entry's file in place, whole, and no entry was unreadable.
OkIsComplete ==
  outcome = "Ok" =>
    /\ \A k \in Entries : archive[k].kind = "good"
    /\ \A p \in Targets : disk[p] = Unpacked(p)

NothingNew(ps) == \A p \in ps : p \notin before => disk[p] = Absent
AllThere(b) == \A p \in InBranch(b) \cap Targets : disk[p] = Unpacked(p)

\* After a failed attempt each new file outside the deep folders is gone, the ones of the entries that succeeded too.
\* A deep folder is there with all its files or not at all: it may be, for no move is taken back.
FailureReclaims ==
  pc = "done" /\ outcome # "Ok" =>
    /\ NothingNew({p \in Paths : ~Deep(p)})
    /\ \A b \in Branches : NothingNew(InBranch(b)) \/ AllThere(b)

\* What extract() returns is what it leaves: after a success the whole archive; after a failure no new file but those
\* of deep folders that had moved whole.
OutcomeIsTrue == OkIsComplete /\ FailureReclaims

\* A comment above the commit and a document say that an error after one move leaves the files of the other deep
\* folders in the staging tree, to be recovered by hand. OwnedStageCleanup, which came later, removes them.
StagedWorkKept ==
  pc = "done" /\ outcome # "Ok" /\ unmoved # DeepBranches =>
    \A p \in Targets : Branch[p] \in unmoved => stage[p] # Absent
=============================================================================
