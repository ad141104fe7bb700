--------------------------- MODULE ZipExtractProofs ---------------------------
(* No failure, cancel, retry or power cut deletes a file that was there before the archive came, and what the      *)
(* extractor answers is what it leaves, whatever the archive and the volume: proved for every value of the         *)
(* constants.                                                                                                      *)
(* The heart of the first is what the list of created files may hold. OpenEntry lists a destination only when no   *)
(* file is there, and until the end of the attempt a file of the user is there, so Reclaim never meets one.        *)
(* The second needs the other direction as well: every new file outside the deep folders is on that list or is     *)
(* the one being written (Listing), so Reclaim finds all of them, also the ones CommitFiles moves; and the entries *)
(* before the one being read are in place (Reading), in the staging folder as long as there is one. A folder that  *)
(* was moved is whole because every entry had been read, and stays so because no file in it is listed (Foldered).  *)
(* A third result is about room: once the check has let the archive through, no entry runs out of it. The check    *)
(* adds sizes up over entries, the volume over files, so lemmas on such sums come first. What every write keeps    *)
(* (Room) is that the free room, with what others took since, covers what the entries still to be read will add    *)
(* beside the room they give back, and the margin.                                                                 *)
EXTENDS ZipExtract, FiniteSetTheorems, SequenceTheorems, WellFoundedInduction, TLAPS

File == [by : Int, len : Nat]

Shape ==
  /\ archive \in Archives
  /\ disk \in [Paths -> File] /\ stage \in [Paths -> File]
  /\ i \in Nat \ {0}
  /\ pc = "write" => i \in Entries

\* What this attempt made at a destination is not the user's: the files listed, and the one being written if fresh.
MadeHere(made) ==
  /\ made \in Seq({"disk", "stage"} \X Paths)
  /\ \A k \in 1..Len(made) : made[k][1] = "disk" => users[made[k][2]] = Absent
FreshOK == pc = "write" /\ fresh => Deep(archive[i].path) \/ users[archive[i].path] = Absent

IInv == Shape /\ MadeHere(created) /\ FreshOK /\ UsersFilesSurvive

\* An entry of an archive names a path.
LEMMA EntryPath == ASSUME Shape, NEW k \in Entries PROVE archive[k].path \in Paths
<1> DEFINE Entry == [path : Paths, size : Nat \ {0}, kind : Kinds]
<1>1. archive \in Seq(Entry)
  BY ArchivesAssumption DEF Shape
<1>2. archive[k] \in Entry
  <2> HIDE DEF Entry
  <2> QED BY <1>1 DEF Entries
<1> QED
  BY <1>2

LEMMA InitInv == Init => IInv
<1> SUFFICES ASSUME Init PROVE IInv
  OBVIOUS
<1>1. PICK old \in OldSizes : users = [p \in Paths |-> UserFile(old[p])]
  BY DEF Init
<1>2. \A p \in Paths : UserFile(old[p]) \in File /\ Absent \in File
  BY OldSizesAssumption DEF UserFile, File, Absent
<1>3. Shape
  BY <1>1, <1>2 DEF Init, Shape
<1>4. MadeHere(created) /\ FreshOK
  BY DEF Init, MadeHere, FreshOK
<1>5. UsersFilesSurvive
  BY DEF Init, UsersFilesSurvive
<1> QED
  BY <1>3, <1>4, <1>5 DEF IInv

\* Writing one file of a tree keeps the user's files, unless it deletes one, or changes one it has no business with.
LEMMA PutKeeps ==
  ASSUME Shape, UsersFilesSurvive, NEW tree \in {"disk", "stage"}, NEW q \in Paths, NEW f \in File,
         Put(tree, q, f), users' = users, archive' = archive,
         tree = "disk" => users[q] = Absent \/ (f # Absent /\ q \in Targets /\ ~Deep(q))
  PROVE  UsersFilesSurvive' /\ disk' \in [Paths -> File] /\ stage' \in [Paths -> File]
<1>1. disk' \in [Paths -> File] /\ stage' \in [Paths -> File]
  BY DEF Put, Shape
<1>2. Targets' = Targets
  BY DEF Targets, Entries
<1>3. ASSUME NEW p \in Paths, users[p] # Absent
      PROVE  disk'[p] # Absent /\ (p \notin Targets \/ Deep(p) => disk'[p] = users[p])
  <2>1. CASE tree = "disk" /\ p = q
    BY <2>1, <1>3 DEF Put, Shape
  <2>2. CASE ~(tree = "disk" /\ p = q)
    <3>1. disk'[p] = disk[p]
      BY <2>2 DEF Put, Shape
    <3> QED
      BY <3>1, <1>3 DEF UsersFilesSurvive
  <2> QED
    BY <2>1, <2>2
<1>4. UsersFilesSurvive'
  BY <1>2, <1>3 DEF UsersFilesSurvive, Absent, Deep
<1> QED
  BY <1>1, <1>4

\* A step that leaves the files, the list and the archive alone.
LEMMA Untouched ==
  ASSUME IInv, UNCHANGED <<archive, disk, users, created>>, stage' \in [Paths -> File], i' \in Nat \ {0},
         pc' # "write"
  PROVE  IInv'
<1>1. Shape'
  BY DEF IInv, Shape
<1>2. MadeHere(created)' /\ FreshOK'
  BY DEF IInv, MadeHere, FreshOK, Absent
<1>3. UsersFilesSurvive'
  BY DEF IInv, UsersFilesSurvive, Targets, Entries, Deep, Absent
<1> QED
  BY <1>1, <1>2, <1>3 DEF IInv

LEMMA OpenEntryInv == IInv /\ OpenEntry => IInv'
<1> SUFFICES ASSUME IInv, OpenEntry PROVE IInv'
  OBVIOUS
<1> DEFINE p == archive[i].path
           isNew == FileIn(Tree(p), p) = Absent
           f == [by |-> i, len |-> 0]
<1>1. i \in Entries /\ p \in Paths
  BY EntryPath DEF IInv, Shape, OpenEntry, Entries
<1>2. Tree(p) \in {"disk", "stage"} /\ (Tree(p) = "disk" <=> ~Deep(p))
  BY DEF Tree
<1>3. f \in File /\ f # Absent
  BY <1>1 DEF File, Absent, IInv, Shape
<1>4. p \in Targets
  BY <1>1 DEF Targets
<1>5. UsersFilesSurvive' /\ disk' \in [Paths -> File] /\ stage' \in [Paths -> File]
  BY <1>1, <1>2, <1>3, <1>4, PutKeeps DEF OpenEntry, IInv
<1>6. Shape'
  BY <1>1, <1>5 DEF IInv, Shape, OpenEntry, Entries
<1>7. isNew /\ ~Deep(p) => users[p] = Absent
  BY <1>1, <1>2 DEF IInv, UsersFilesSurvive, FileIn
<1>8. MadeHere(created)'
  <2>1. CASE ~isNew
    BY <2>1 DEF OpenEntry, IInv, MadeHere, Absent
  <2>2. CASE isNew
    <3>1. created' = Append(created, <<Tree(p), p>>) /\ users' = users
      BY <2>2 DEF OpenEntry
    <3>2. created \in Seq({"disk", "stage"} \X Paths) /\ <<Tree(p), p>> \in {"disk", "stage"} \X Paths
      BY <1>1, <1>2 DEF IInv, MadeHere
    <3>3. /\ created' \in Seq({"disk", "stage"} \X Paths) /\ Len(created') = Len(created) + 1
          /\ \A k \in 1..Len(created) : created'[k] = created[k]
          /\ created'[Len(created) + 1] = <<Tree(p), p>>
      BY <3>1, <3>2
    <3>4. ASSUME NEW k \in 1..Len(created'), created'[k][1] = "disk" PROVE users'[created'[k][2]] = Absent
      <4>1. CASE k \in 1..Len(created)
        BY <4>1, <3>1, <3>3, <3>4 DEF IInv, MadeHere
      <4>2. CASE k = Len(created) + 1
        BY <4>2, <3>1, <3>3, <3>4, <1>2, <1>7, <2>2
      <4> QED
        BY <4>1, <4>2, <3>2, <3>3
    <3> QED
      BY <3>3, <3>4 DEF MadeHere, Absent
  <2> QED
    BY <2>1, <2>2
<1>9. FreshOK'
  BY <1>7 DEF OpenEntry, FreshOK, Deep, Absent
<1> QED
  BY <1>5, <1>6, <1>8, <1>9 DEF IInv

LEMMA WriteBlockInv == IInv /\ WriteBlock => IInv'
<1> SUFFICES ASSUME IInv, WriteBlock PROVE IInv'
  OBVIOUS
<1> DEFINE p == archive[i].path
           f == FileIn(Tree(p), p)
           g == [f EXCEPT !.len = @ + 1]
<1>1. i \in Entries /\ p \in Paths
  BY EntryPath DEF IInv, Shape, WriteBlock
<1>2. Tree(p) \in {"disk", "stage"} /\ (Tree(p) = "disk" <=> ~Deep(p))
  BY DEF Tree
<1>3. f \in File
  BY <1>1 DEF FileIn, IInv, Shape
<1>4. g \in File /\ g.len # 0
  BY <1>3 DEF File
<1>5. g # Absent /\ p \in Targets
  BY <1>1, <1>4 DEF Absent, Targets
<1>6. UsersFilesSurvive' /\ disk' \in [Paths -> File] /\ stage' \in [Paths -> File]
  BY <1>1, <1>2, <1>4, <1>5, PutKeeps DEF WriteBlock, IInv
<1>7. Shape'
  BY <1>6 DEF IInv, Shape, WriteBlock, Entries, attemptVars
<1>8. MadeHere(created)' /\ FreshOK'
  BY DEF IInv, WriteBlock, MadeHere, FreshOK, attemptVars, Deep, Absent
<1> QED
  BY <1>6, <1>7, <1>8 DEF IInv

LEMMA EntryFailsInv == IInv /\ EntryFails => IInv'
<1> SUFFICES ASSUME IInv, EntryFails PROVE IInv'
  OBVIOUS
<1> DEFINE p == archive[i].path
           f == FileIn(Tree(p), p)
           g == IF fresh THEN Absent ELSE f
<1>1. i \in Entries /\ p \in Paths
  BY EntryPath DEF IInv, Shape, EntryFails
<1>2. Tree(p) \in {"disk", "stage"} /\ (Tree(p) = "disk" <=> ~Deep(p))
  BY DEF Tree
<1>3. f \in File /\ Absent \in File
  BY <1>1 DEF FileIn, IInv, Shape, File, Absent
<1>4. g \in File
  BY <1>3
<1>5. Tree(p) = "disk" => users[p] = Absent \/ (g # Absent /\ p \in Targets /\ ~Deep(p))
  <2>1. CASE fresh
    BY <2>1, <1>2 DEF IInv, FreshOK, EntryFails
  <2>2. CASE ~fresh
    BY <2>2, <1>1, <1>2 DEF IInv, UsersFilesSurvive, FileIn, Targets
  <2> QED
    BY <2>1, <2>2
<1>6. Put(Tree(p), p, g) /\ UNCHANGED <<users, archive, created, i>> /\ pc' = "reclaim"
  BY DEF EntryFails, attemptVars
<1>7. UsersFilesSurvive' /\ disk' \in [Paths -> File] /\ stage' \in [Paths -> File]
  <2> HIDE DEF p, g
  <2> QED BY <1>1, <1>2, <1>4, <1>5, <1>6, PutKeeps DEF IInv
<1>8. Shape'
  BY <1>6, <1>7 DEF IInv, Shape
<1>9. MadeHere(created)' /\ FreshOK'
  BY <1>6 DEF IInv, MadeHere, FreshOK, Absent
<1> QED
  BY <1>7, <1>8, <1>9 DEF IInv

\* A sequence without its last element.
LEMMA DropLast ==
  ASSUME NEW S, NEW s \in Seq(S), s # << >>
  PROVE  LET t == SubSeq(s, 1, Len(s) - 1)
         IN  t \in Seq(S) /\ Len(t) = Len(s) - 1 /\ \A k \in 1..Len(s) - 1 : t[k] = s[k]
<1> DEFINE n == Len(s) - 1
<1>1. n \in Nat /\ n <= Len(s)
  OBVIOUS
<1>2. SubSeq(s, 1, n) \in Seq(S)
  <2> HIDE DEF n
  <2> QED BY <1>1
<1>3. Len(SubSeq(s, 1, n)) = n /\ \A k \in 1..n : SubSeq(s, 1, n)[k] = s[k]
  <2>1. \A k \in 1..n : s[k] \in S
    <3> HIDE DEF n
    <3> QED BY <1>1
  <2>2. /\ Len(SubSeq(s, 1, n)) = IF 1 <= n THEN n - 1 + 1 ELSE 0
        /\ \A k \in 1..(n - 1 + 1) : SubSeq(s, 1, n)[k] = s[1 + k - 1]
    <3> HIDE DEF n
    <3>1. 1 \in Int /\ n \in Int
      BY <1>1
    <3> QED BY <2>1, <3>1, SubSeqProperties
  <2>3. n - 1 + 1 = n /\ (IF 1 <= n THEN n - 1 + 1 ELSE 0) = n /\ \A k \in 1..n : 1 + k - 1 = k
    <3> HIDE DEF n
    <3> QED BY <1>1
  <2> HIDE DEF n
  <2> QED
    BY <2>2, <2>3, Zenon
<1> QED
  BY <1>2, <1>3

LEMMA ReclaimInv == IInv /\ Reclaim => IInv'
<1> SUFFICES ASSUME IInv, Reclaim PROVE IInv'
  OBVIOUS
<1>1. CASE created = << >>
  BY <1>1, Untouched DEF Reclaim, IInv, Shape
<1>2. CASE created # << >>
  <2> DEFINE last == created[Len(created)]
  <2>1. created \in Seq({"disk", "stage"} \X Paths) /\ Len(created) \in 1..Len(created)
    BY <1>2 DEF IInv, MadeHere
  <2>2. last \in {"disk", "stage"} \X Paths
    BY <2>1
  <2>3. last[1] \in {"disk", "stage"} /\ last[2] \in Paths
    BY <2>2
  <2>4. last[1] = "disk" => users[last[2]] = Absent
    BY <2>1 DEF IInv, MadeHere
  <2>5. /\ Put(last[1], last[2], Absent) /\ UNCHANGED <<users, archive, i, pc>> /\ pc = "reclaim"
        /\ created' = SubSeq(created, 1, Len(created) - 1)
    BY <1>2 DEF Reclaim
  <2>6. Absent \in File
    BY DEF Absent, File
  <2>7. UsersFilesSurvive' /\ disk' \in [Paths -> File] /\ stage' \in [Paths -> File]
    <3> HIDE DEF last
    <3> QED BY <2>3, <2>4, <2>5, <2>6, PutKeeps DEF IInv
  <2>8. Shape'
    BY <2>5, <2>7 DEF IInv, Shape
  <2>9. /\ created' \in Seq({"disk", "stage"} \X Paths) /\ Len(created') = Len(created) - 1
        /\ \A k \in 1..Len(created') : created'[k] = created[k] /\ k \in 1..Len(created)
    BY <1>2, <2>1, <2>5, DropLast
  <2>10. MadeHere(created)' /\ FreshOK'
    BY <2>5, <2>9 DEF IInv, MadeHere, FreshOK, Absent
  <2> QED
    BY <2>7, <2>8, <2>10 DEF IInv
<1> QED
  BY <1>1, <1>2

\* A branch is moved only where nothing is, so nothing of the user is replaced.
LEMMA CommitBranchInv == IInv /\ CommitBranch => IInv'
<1> SUFFICES ASSUME IInv, CommitBranch PROVE IInv'
  OBVIOUS
<1>1. PICK b \in unmoved : /\ ~Occupied(b)
                           /\ disk' = [p \in Paths |-> IF Branch[p] = b THEN stage[p] ELSE disk[p]]
                           /\ stage' = [p \in Paths |-> IF Branch[p] = b THEN Absent ELSE stage[p]]
  BY DEF CommitBranch
<1>2. UNCHANGED <<archive, users, created, i, pc>> /\ pc = "commit"
  BY DEF CommitBranch
<1>3. Absent \in File
  BY DEF Absent, File
<1>4. Shape'
  BY <1>1, <1>2, <1>3 DEF IInv, Shape
<1>5. ASSUME NEW p \in Paths, users[p] # Absent PROVE disk'[p] = disk[p]
  BY <1>1, <1>5 DEF Occupied, InBranch, IInv, UsersFilesSurvive
<1>6. UsersFilesSurvive'
  BY <1>2, <1>5 DEF IInv, UsersFilesSurvive, Targets, Entries, Deep, Absent
<1>7. MadeHere(created)' /\ FreshOK'
  BY <1>2 DEF IInv, MadeHere, FreshOK, Absent
<1> QED
  BY <1>4, <1>6, <1>7 DEF IInv

LEMMA StepInv == IInv /\ [Next]_vars => IInv'
<1> SUFFICES ASSUME IInv, [Next]_vars PROVE IInv'
  OBVIOUS
<1> DEFINE none == [p \in Paths |-> Absent]
<1>0. none \in [Paths -> File] /\ stage \in [Paths -> File] /\ i \in Nat \ {0} /\ 1 \in Nat \ {0}
  BY DEF Absent, File, IInv, Shape
<1>1. CASE Extract
  <2>1. Shape'
    BY <1>1 DEF Extract, IInv, Shape
  <2>2. MadeHere(created)' /\ FreshOK'
    BY <1>1 DEF Extract, MadeHere, FreshOK
  <2>3. UsersFilesSurvive'
    BY <1>1 DEF Extract, IInv, UsersFilesSurvive, Targets, Entries, Deep, Absent
  <2> QED
    BY <2>1, <2>2, <2>3 DEF IInv
<1>2. CASE CancelJob \/ OthersWrite \/ UNCHANGED vars
  <2>1. UNCHANGED <<archive, disk, stage, users, created, i, fresh, pc>>
    BY <1>2 DEF CancelJob, OthersWrite, vars, attemptVars
  <2>2. Shape' /\ UsersFilesSurvive'
    BY <2>1 DEF IInv, Shape, UsersFilesSurvive, Targets, Entries, Deep, Absent
  <2>3. MadeHere(created)' /\ FreshOK'
    BY <2>1 DEF IInv, MadeHere, FreshOK, Deep, Absent
  <2> QED
    BY <2>2, <2>3 DEF IInv
<1>3. CASE CheckSpace
  BY <1>0, <1>3, Untouched DEF CheckSpace, attemptVars
<1>4. CASE Preflight
  BY <1>0, <1>4, Untouched DEF Preflight
<1>5. CASE OpenEntry
  BY <1>5, OpenEntryInv
<1>6. CASE OpenFails \/ CloseArchive \/ CommitFails \/ Committed \/ PowerCut
  BY <1>0, <1>6, Untouched DEF OpenFails, CloseArchive, CommitFails, Committed, PowerCut, attemptVars
<1>7. CASE WriteBlock
  BY <1>7, WriteBlockInv
<1>8. CASE CloseEntry
  <2>1. UNCHANGED <<archive, disk, stage, users, created>> /\ pc' = "open" /\ i' = i + 1
    BY <1>8 DEF CloseEntry
  <2> QED
    BY <1>0, <2>1, Untouched
<1>9. CASE EntryFails
  BY <1>9, EntryFailsInv
<1>10. CASE CommitBranch
  BY <1>10, CommitBranchInv
<1>11. CASE Reclaim
  BY <1>11, ReclaimInv
<1>12. CASE Sweep
  BY <1>0, <1>12, Untouched DEF Sweep, attemptVars
<1>13. CASE Restart
  <2>1. Shape'
    BY <1>0, <1>13 DEF Restart, IInv, Shape
  <2>2. MadeHere(created)' /\ FreshOK'
    BY <1>13 DEF Restart, MadeHere, FreshOK
  <2>3. UsersFilesSurvive'
    BY <1>13 DEF Restart, IInv, UsersFilesSurvive, Targets, Entries, Deep, Absent
  <2> QED
    BY <2>1, <2>2, <2>3 DEF IInv
<1> QED
  BY <1>1, <1>2, <1>3, <1>4, <1>5, <1>6, <1>7, <1>8, <1>9, <1>10, <1>11, <1>12, <1>13 DEF Next, Step

\* A file that was there before the archive came is never deleted; one the archive does not name, or in a deep
\* folder, is never changed: extract() with its failures, retries and power cuts.
THEOREM FilesSurvive == Spec => []UsersFilesSurvive
<1>1. IInv => UsersFilesSurvive
  BY DEF IInv
<1> QED
  BY InitInv, StepInv, <1>1, PTL DEF Spec

-----------------------------------------------------------------------------
(* What extract() returns is what it leaves.                                                                       *)
(* Success: the entries read so far are in their places, each the last one of its path, where the place of a deep *)
(* file is the staging tree until its branch moves. Failure: whatever is new on the disk is in the list.          *)

Place(p) == IF Branch[p] \in unmoved THEN stage[p] ELSE disk[p]
WholeEntry(k) == [by |-> k, len |-> archive[k].size]

\* The first n entries were good, and each one that none of those up to m overwrites is in its place.
ReadWell(n, m) ==
  \A k \in 1..n :
    /\ archive[k].kind = "good"
    /\ (\A l \in k+1..m : archive[l].path # archive[k].path) => Place(archive[k].path) = WholeEntry(k)

Reading ==
  /\ pc \in {"space", "preflight"} => i = 1
  /\ pc \in {"open", "write"} => unmoved = DeepBranches
  /\ pc = "open" => i <= Len(archive) + 1 /\ ReadWell(i - 1, i - 1)
  /\ pc = "write" => ReadWell(i - 1, i) /\ Place(archive[i].path).by = i
  /\ pc = "commit" => unmoved \subseteq DeepBranches /\ ReadWell(Len(archive), Len(archive))
  /\ outcome = "Ok" => pc \in {"sweep", "done"} /\ OkIsComplete

Listed(p) == \E k \in 1..Len(created) : created[k] = <<"disk", p>>
Listing ==
  /\ pc \notin {"idle", "off"} => \A p \in Paths : ~Deep(p) /\ p \notin before /\ disk[p] # Absent => Listed(p)
  /\ pc \in {"space", "preflight"} \/ (pc \in {"sweep", "done"} /\ outcome # "Ok") => created = << >>

\* What is listed at a destination is not deep, so no reclaim takes a file out of a folder that has moved.
Foldered ==
  /\ \A k \in 1..Len(created) : created[k][1] = "disk" => ~Deep(created[k][2])
  /\ pc \notin {"idle", "off"} => \A b \in Branches : NothingNew(InBranch(b)) \/ AllThere(b)

Sound == Reading /\ Listing /\ Foldered

LEMMA ArchiveLength == ASSUME Shape PROVE Len(archive) \in Nat
  BY ArchivesAssumption DEF Shape

\* A file of the archive lies in a tree of its own, and that is its place until the commit.
LEMMA PlaceIsFile ==
  ASSUME Shape, unmoved = DeepBranches, NEW k \in Entries
  PROVE  FileIn(Tree(archive[k].path), archive[k].path) = Place(archive[k].path)
<1>1. archive[k].path \in Paths
  BY EntryPath
<1>2. Branch[archive[k].path] \in DeepBranches <=> Deep(archive[k].path)
  BY DEF DeepBranches, Deep
<1> QED
  BY <1>2 DEF FileIn, Tree, Place

\* Writing one file of a tree changes the place of that file alone.
LEMMA PutPlace ==
  ASSUME Shape, unmoved = DeepBranches, NEW k \in Entries, NEW f \in File,
         Put(Tree(archive[k].path), archive[k].path, f), UNCHANGED <<archive, unmoved>>
  PROVE  /\ Place(archive[k].path)' = f
         /\ \A q \in Paths : q # archive[k].path => Place(q)' = Place(q)
<1>1. archive[k].path \in Paths
  BY EntryPath
<1>2. Branch[archive[k].path] \in unmoved <=> Deep(archive[k].path)
  BY DEF DeepBranches, Deep
<1>3. CASE Deep(archive[k].path)
  BY <1>1, <1>2, <1>3 DEF Put, Tree, Place, Shape
<1>4. CASE ~Deep(archive[k].path)
  BY <1>1, <1>2, <1>4 DEF Put, Tree, Place, Shape
<1> QED
  BY <1>3, <1>4

\* The last entry of a path exists.
LEMMA LastOfPath ==
  ASSUME Shape, NEW p \in Targets
  PROVE  LastEntry(p) \in Entries /\ archive[LastEntry(p)].path = p
         /\ \A l \in Entries : archive[l].path = p => l <= LastEntry(p)
<1> DEFINE S == {k \in Entries : archive[k].path = p}
           back == {Len(archive) - k : k \in S}
<1>0. Len(archive) \in Nat
  BY ArchiveLength
<1>1. S # {} /\ S \subseteq Nat
  BY <1>0 DEF Targets, Entries
<1>2. back # {} /\ back \subseteq Nat
  BY <1>0, <1>1 DEF Entries
<1>3. PICK m \in back : \A n \in back : ~(<<n, m>> \in OpToRel(<, Nat))
  <2> HIDE DEF back
  <2> QED BY <1>2, WFMin, NatLessThanWellFounded, Zenon
<1>4. \A n \in back : ~(n < m)
  BY <1>2, <1>3 DEF OpToRel
<1>5. PICK k \in S : m = Len(archive) - k
  BY <1>3
<1>6. ASSUME NEW l \in S PROVE k >= l
  <2>1. Len(archive) - l \in back /\ l \in Nat /\ k \in Nat
    BY <1>1
  <2>2. ~(Len(archive) - l < m)
    <3> HIDE DEF S, back
    <3> QED BY <1>4, <2>1
  <2> QED
    BY <1>0, <1>5, <2>1, <2>2
<1>7. LastEntry(p) = Max(S)
  BY DEF LastEntry
<1>8. Max(S) \in S /\ \A l \in S : Max(S) >= l
  <2> HIDE DEF S
  <2> QED BY <1>5, <1>6 DEF Max
<1> QED
  BY <1>0, <1>1, <1>7, <1>8 DEF Entries

\* When every entry was read, the last one of each path is in its place.
LEMMA LastIsPlaced ==
  ASSUME Shape, ReadWell(Len(archive), Len(archive)), NEW p \in Targets
  PROVE  Place(p) = Unpacked(p)
<1> DEFINE k == LastEntry(p)
<1>1. k \in Entries /\ archive[k].path = p /\ \A l \in Entries : archive[l].path = p => l <= k
  BY LastOfPath
<1>2. Len(archive) \in Nat
  BY ArchiveLength
<1> HIDE DEF k
<1>3. \A l \in k+1..Len(archive) : archive[l].path # archive[k].path
  BY <1>1, <1>2 DEF Entries
<1>4. Place(p) = WholeEntry(k)
  BY <1>1, <1>3 DEF ReadWell, Entries
<1> QED
  BY <1>4 DEF WholeEntry, Unpacked, k

\* When every entry was read and no branch waits, the archive is in place.
LEMMA ReadIsComplete ==
  ASSUME Shape, unmoved = {}, ReadWell(Len(archive), Len(archive))
  PROVE  (\A k \in Entries : archive[k].kind = "good") /\ \A p \in Targets : disk[p] = Unpacked(p)
  BY LastIsPlaced DEF ReadWell, Entries, Place

LEMMA SameReads ==
  ASSUME UNCHANGED <<archive, disk, stage, unmoved>>, NEW n, NEW m
  PROVE  ReadWell(n, m)' <=> ReadWell(n, m)
  BY DEF ReadWell, Place, WholeEntry

\* What an archive asks for depends on the archive alone.
LEMMA SameArchive ==
  ASSUME archive' = archive
  PROVE  Entries' = Entries /\ Targets' = Targets /\ \A p : Unpacked(p)' = Unpacked(p)
<1>1. Entries' = Entries /\ Targets' = Targets
  BY DEF Entries, Targets
<1>2. \A p : {k \in Entries : archive[k].path = p}' = {k \in Entries : archive[k].path = p}
  BY <1>1
<1>3. \A p : LastEntry(p)' = LastEntry(p)
  BY <1>2 DEF LastEntry
<1> QED
  BY <1>1, <1>3 DEF Unpacked

LEMMA SameComplete ==
  ASSUME UNCHANGED <<archive, disk>>, OkIsComplete, outcome' = outcome
  PROVE  OkIsComplete'
  BY SameArchive DEF OkIsComplete

\* A file of a branch is deep.
LEMMA BranchIsDeep == \A b \in Branches : \A p \in InBranch(b) : p \in Paths /\ Deep(p)
  BY PathsAssumption DEF InBranch, Deep

\* A step that changes no deep file at its destination keeps each folder as it is.
LEMMA SameFolders ==
  ASSUME Foldered, UNCHANGED <<archive, before>>, pc \notin {"idle", "off"},
         \A p \in Paths : Deep(p) => disk'[p] = disk[p]
  PROVE  \A b \in Branches : (NothingNew(InBranch(b)) \/ AllThere(b))'
<1> SUFFICES ASSUME NEW b \in Branches PROVE (NothingNew(InBranch(b)) \/ AllThere(b))'
  OBVIOUS
<1>1. InBranch(b)' = InBranch(b) /\ \A p \in InBranch(b) : disk'[p] = disk[p]
  BY BranchIsDeep DEF InBranch
<1>2. CASE NothingNew(InBranch(b))
  BY <1>1, <1>2 DEF NothingNew, Absent
<1>3. CASE AllThere(b)
  BY <1>1, <1>3, SameArchive DEF AllThere
<1> QED
  BY <1>2, <1>3 DEF Foldered

LEMMA SameFoldered ==
  ASSUME Foldered, UNCHANGED <<archive, disk, before, created>>, pc \notin {"idle", "off"}
  PROVE  Foldered'
<1>1. \A b \in Branches : (NothingNew(InBranch(b)) \/ AllThere(b))'
  BY SameFolders
<1> QED
  BY <1>1 DEF Foldered, Deep

\* Writing a file of the archive while entries are read touches no deep file at its destination.
LEMMA WriteFolders ==
  ASSUME IInv, Foldered, NEW p \in Paths, NEW f, Put(Tree(p), p, f), UNCHANGED <<archive, before>>,
         pc \notin {"idle", "off"}
  PROVE  \A b \in Branches : (NothingNew(InBranch(b)) \/ AllThere(b))'
<1>1. ASSUME NEW q \in Paths, Deep(q) PROVE disk'[q] = disk[q]
  BY <1>1 DEF Put, Tree, IInv, Shape
<1> QED
  BY <1>1, SameFolders

LEMMA SameListing ==
  ASSUME Listing, UNCHANGED <<disk, before, created>>, pc \notin {"idle", "off"}
  PROVE  \A p \in Paths : ~Deep(p) /\ p \notin before' /\ disk'[p] # Absent => Listed(p)'
  BY DEF Listing, Listed

LEMMA InitSound == Init => Sound
  BY DEF Init, Sound, Reading, Listing, Foldered, Absent

LEMMA ExtractSound == IInv /\ Sound /\ Extract => Sound'
<1> SUFFICES ASSUME Sound, Extract PROVE Sound'
  OBVIOUS
<1>1. pc' = "space" /\ outcome' = "none" /\ created' = << >> /\ i' = 1
  BY DEF Extract
<1>2. \A p \in Paths : disk'[p] # Absent => p \in before'
  BY DEF Extract
<1>3. \A b \in Branches : NothingNew(InBranch(b))'
  BY <1>2, BranchIsDeep DEF NothingNew, InBranch, Absent
<1> QED
  BY <1>1, <1>2, <1>3 DEF Sound, Reading, Listing, Foldered, Absent

\* Before a file is opened nothing is new and nothing is listed.
LEMMA CheckSpaceSound == IInv /\ Sound /\ CheckSpace => Sound'
<1> SUFFICES ASSUME Sound, CheckSpace PROVE Sound'
  OBVIOUS
<1>1. /\ UNCHANGED <<archive, disk, before, created, i>> /\ pc = "space" /\ pc' \in {"done", "preflight"}
      /\ outcome' = outcome \/ outcome' # "Ok"
  BY DEF CheckSpace, attemptVars
<1>2. Reading'
  BY <1>1 DEF Sound, Reading
<1>3. Listing'
  BY <1>1, SameListing DEF Sound, Listing
<1> QED
  BY <1>1, <1>2, <1>3, SameFoldered DEF Sound

LEMMA PreflightSound == IInv /\ Sound /\ Preflight => Sound'
<1> SUFFICES ASSUME IInv, Sound, Preflight PROVE Sound'
  OBVIOUS
<1>1. /\ UNCHANGED <<archive, disk, before, created, i>> /\ pc = "preflight" /\ pc' \in {"done", "open", "sweep"}
      /\ outcome' = outcome \/ outcome' # "Ok"
      /\ pc' = "open" => unmoved' = DeepBranches
  BY DEF Preflight
<1>2. DeepBranches' = DeepBranches
  BY <1>1 DEF DeepBranches, Entries
<1>3. pc' = "open" => i' <= Len(archive') + 1 /\ ReadWell(i - 1, i - 1)'
  <2>1. i = 1 /\ Len(archive) \in Nat
    BY <1>1, ArchiveLength DEF Sound, Reading, IInv
  <2> QED
    BY <1>1, <2>1 DEF ReadWell
<1>4. Reading'
  BY <1>1, <1>2, <1>3 DEF Sound, Reading
<1>5. Listing'
  BY <1>1, SameListing DEF Sound, Listing
<1>6. Foldered'
  BY <1>1, SameFoldered DEF Sound
<1> QED
  BY <1>4, <1>5, <1>6 DEF Sound

LEMMA OpenEntrySound == IInv /\ IInv' /\ Sound /\ OpenEntry => Sound'
<1> SUFFICES ASSUME IInv, IInv', Sound, OpenEntry PROVE Sound'
  OBVIOUS
<1> DEFINE p == archive[i].path
           isNew == FileIn(Tree(p), p) = Absent
           f == [by |-> i, len |-> 0]
<1>0. Len(archive) \in Nat
  BY ArchiveLength DEF IInv
<1>1. i \in Entries /\ p \in Paths /\ f \in File
  BY <1>0, EntryPath DEF IInv, Shape, OpenEntry, Entries, File
<1>2. /\ UNCHANGED <<archive, unmoved, before, i, outcome>> /\ pc = "open" /\ pc' = "write"
      /\ Put(Tree(p), p, f) /\ created' = IF isNew THEN Append(created, <<Tree(p), p>>) ELSE created
  BY DEF OpenEntry
<1>3. unmoved = DeepBranches /\ DeepBranches' = DeepBranches /\ ReadWell(i - 1, i - 1)
  BY <1>2 DEF Sound, Reading, DeepBranches, Entries
<1>4. Place(p)' = f /\ \A q \in Paths : q # p => Place(q)' = Place(q)
  <2> HIDE DEF f
  <2> QED BY <1>1, <1>2, <1>3, PutPlace DEF IInv
<1>5. ReadWell(i - 1, i)'
  <2> SUFFICES ASSUME NEW k \in 1..i-1
               PROVE  /\ archive[k].kind = "good"
                      /\ (\A l \in k+1..i : archive[l].path # archive[k].path)
                            => Place(archive[k].path)' = WholeEntry(k)
    BY <1>2 DEF ReadWell, WholeEntry
  <2>1. k \in Entries /\ archive[k].path \in Paths /\ i \in k+1..i
    BY <1>0, <1>1, EntryPath DEF IInv, Entries
  <2>2. archive[k].kind = "good"
    BY <1>3 DEF ReadWell
  <2>3. ASSUME \A l \in k+1..i : archive[l].path # archive[k].path
        PROVE  Place(archive[k].path)' = WholeEntry(k)
    <3>1. Place(archive[k].path)' = Place(archive[k].path)
      BY <1>2, <1>4, <2>1, <2>3
    <3>2. \A l \in k+1..i-1 : archive[l].path # archive[k].path
      BY <1>1, <2>3 DEF Entries
    <3> QED
      BY <1>3, <3>1, <3>2 DEF ReadWell
  <2> QED
    BY <2>2, <2>3
<1>6. Reading'
  <2>1. Place(archive[i].path)'.by = i
    BY <1>4
  <2> QED
    BY <1>2, <1>3, <1>5, <2>1 DEF Sound, Reading
<1>7. ASSUME NEW q \in Paths, ~Deep(q), q \notin before, disk'[q] # Absent
      PROVE  Listed(q)'
  <2>0. created \in Seq({"disk", "stage"} \X Paths) /\ Len(created) \in Nat
    BY DEF IInv, MadeHere
  <2>1. CASE q = p /\ isNew
    <3>1. <<Tree(p), p>> = <<"disk", q>>
      BY <1>7, <2>1 DEF Tree
    <3>2. <<"disk", q>> \in {"disk", "stage"} \X Paths
      BY <1>7
    <3>3. created' = Append(created, <<"disk", q>>)
      BY <1>2, <2>1, <3>1
    <3>4. Len(created') = Len(created) + 1 /\ created'[Len(created) + 1] = <<"disk", q>>
      BY <2>0, <3>2, <3>3
    <3> QED
      BY <2>0, <3>4 DEF Listed
  <2>2. CASE ~(q = p /\ isNew)
    <3>1. disk[q] # Absent
      BY <1>1, <1>2, <1>7, <2>2 DEF Put, FileIn, Tree, IInv, Shape
    <3>2. PICK k \in 1..Len(created) : created[k] = <<"disk", q>>
      BY <1>2, <1>7, <3>1 DEF Sound, Listing, Listed
    <3>3. <<Tree(p), p>> \in {"disk", "stage"} \X Paths
      BY <1>1 DEF Tree
    <3>4. k \in 1..Len(created') /\ created'[k] = created[k]
      BY <1>2, <2>0, <3>3
    <3> QED
      BY <3>2, <3>4 DEF Listed
  <2> QED
    BY <2>1, <2>2
<1>8. Listing'
  BY <1>2, <1>7 DEF Listing, Absent, Deep
<1>9. ASSUME NEW k \in 1..Len(created'), created'[k][1] = "disk" PROVE ~Deep(created'[k][2])
  <2>0. created \in Seq({"disk", "stage"} \X Paths) /\ <<Tree(p), p>> \in {"disk", "stage"} \X Paths
    BY <1>1 DEF IInv, MadeHere, Tree
  <2>1. CASE ~isNew
    BY <1>2, <1>9, <2>1 DEF Sound, Foldered
  <2>2. CASE isNew
    <3>1. /\ Len(created') = Len(created) + 1 /\ created'[Len(created) + 1] = <<Tree(p), p>>
          /\ \A l \in 1..Len(created) : created'[l] = created[l]
      BY <1>2, <2>0, <2>2
    <3>2. CASE k \in 1..Len(created)
      BY <1>9, <3>1, <3>2 DEF Sound, Foldered
    <3>3. CASE k = Len(created) + 1
      BY <1>9, <3>1, <3>3 DEF Tree
    <3> QED
      BY <2>0, <3>1, <3>2, <3>3
  <2> QED
    BY <2>1, <2>2
<1>10. Foldered'
  <2>1. \A b \in Branches : (NothingNew(InBranch(b)) \/ AllThere(b))'
    <3> HIDE DEF f
    <3> QED BY <1>1, <1>2, WriteFolders DEF Sound
  <2> QED
    BY <1>9, <2>1 DEF Foldered, Deep
<1> QED
  BY <1>6, <1>8, <1>10 DEF Sound

LEMMA WriteBlockSound == IInv /\ Sound /\ WriteBlock => Sound'
<1> SUFFICES ASSUME IInv, Sound, WriteBlock PROVE Sound'
  OBVIOUS
<1> DEFINE p == archive[i].path
           f == FileIn(Tree(p), p)
           g == [f EXCEPT !.len = @ + 1]
<1>1. i \in Entries /\ p \in Paths
  BY EntryPath DEF IInv, Shape, WriteBlock
<1>2. /\ UNCHANGED <<archive, unmoved, before, created, i, outcome, pc>> /\ pc = "write"
      /\ Put(Tree(p), p, g)
  BY DEF WriteBlock, attemptVars
<1>3. unmoved = DeepBranches /\ DeepBranches' = DeepBranches /\ ReadWell(i - 1, i)
  BY <1>2 DEF Sound, Reading, DeepBranches, Entries
<1>4. f = Place(p)
  BY <1>1, <1>3, PlaceIsFile DEF IInv
<1>5. f \in File /\ f.by = i
  <2>1. f \in File
    BY <1>1 DEF FileIn, IInv, Shape
  <2> QED
    BY <1>2, <1>4, <2>1 DEF Sound, Reading
<1>6. g \in File /\ g.by = i
  BY <1>5 DEF File
<1>7. Place(p)' = g /\ \A q \in Paths : q # p => Place(q)' = Place(q)
  <2> HIDE DEF g
  <2> QED BY <1>1, <1>2, <1>3, <1>6, PutPlace DEF IInv
<1>8. ReadWell(i - 1, i)'
  <2> SUFFICES ASSUME NEW k \in 1..i-1
               PROVE  /\ archive[k].kind = "good"
                      /\ (\A l \in k+1..i : archive[l].path # archive[k].path)
                            => Place(archive[k].path)' = WholeEntry(k)
    BY <1>2 DEF ReadWell, WholeEntry
  <2>0. Len(archive) \in Nat
    BY ArchiveLength DEF IInv
  <2>1. k \in Entries /\ archive[k].path \in Paths /\ i \in k+1..i
    BY <2>0, <1>1, EntryPath DEF IInv, Entries
  <2> QED
    BY <1>2, <1>3, <1>7, <2>1 DEF ReadWell
<1>9. Reading'
  <2>1. Place(archive[i].path)'.by = i
    BY <1>6, <1>7
  <2> QED
    BY <1>2, <1>3, <1>8, <2>1 DEF Sound, Reading
<1>10. ASSUME NEW q \in Paths, ~Deep(q), q \notin before, disk'[q] # Absent
       PROVE  Listed(q)'
  <2>1. CASE q = p
    <3>1. f = disk[q]
      BY <1>10, <2>1 DEF Tree, FileIn
    <3>2. q \notin before /\ Listed(q) => Listed(q)'
      BY <1>2 DEF Listed
    <3>3. f.by = i /\ i # 0 /\ Absent.by = 0
      BY <1>5 DEF IInv, Shape, Absent
    <3>4. disk[q] # Absent
      BY <3>1, <3>3
    <3> QED
      BY <1>2, <1>10, <3>2, <3>4 DEF Sound, Listing
  <2>2. CASE q # p
    <3>1. disk'[q] = disk[q]
      BY <1>2, <2>2 DEF Put, IInv, Shape
    <3> QED
      BY <1>2, <1>10, <3>1 DEF Sound, Listing, Listed
  <2> QED
    BY <2>1, <2>2
<1>11. Listing'
  BY <1>2, <1>10 DEF Listing, Absent, Deep
<1>12. Foldered'
  <2>1. \A b \in Branches : (NothingNew(InBranch(b)) \/ AllThere(b))'
    <3> HIDE DEF g
    <3> QED BY <1>1, <1>2, WriteFolders DEF Sound
  <2> QED
    BY <1>2, <2>1 DEF Sound, Foldered, Deep
<1> QED
  BY <1>9, <1>11, <1>12 DEF Sound

LEMMA CloseEntrySound == IInv /\ Sound /\ CloseEntry => Sound'
<1> SUFFICES ASSUME IInv, Sound, CloseEntry PROVE Sound'
  OBVIOUS
<1> DEFINE p == archive[i].path
<1>0. Len(archive) \in Nat
  BY ArchiveLength DEF IInv
<1>1. i \in Entries /\ p \in Paths /\ i \in 1..Len(archive)
  BY EntryPath DEF IInv, Shape, CloseEntry, Entries
<1>2. /\ UNCHANGED <<archive, disk, stage, unmoved, before, created, outcome>> /\ pc = "write" /\ pc' = "open"
      /\ archive[i].kind = "good" /\ FileIn(Tree(p), p).len = archive[i].size /\ i' = i + 1
  BY DEF CloseEntry
<1>3. unmoved = DeepBranches /\ DeepBranches' = DeepBranches /\ ReadWell(i - 1, i) /\ Place(p).by = i
  BY <1>2 DEF Sound, Reading, DeepBranches, Entries
<1>4. Place(p) = WholeEntry(i)
  <2>1. Place(p) \in File
    BY <1>1 DEF Place, IInv, Shape
  <2>2. Place(p).len = archive[i].size
    BY <1>1, <1>2, <1>3, PlaceIsFile DEF IInv
  <2> QED
    BY <1>3, <2>1, <2>2 DEF File, WholeEntry
<1>5. ReadWell(i, i)
  <2> SUFFICES ASSUME NEW k \in 1..i
               PROVE  /\ archive[k].kind = "good"
                      /\ (\A l \in k+1..i : archive[l].path # archive[k].path)
                            => Place(archive[k].path) = WholeEntry(k)
    BY DEF ReadWell
  <2>1. CASE k = i
    BY <1>2, <1>4, <2>1
  <2>2. CASE k # i
    <3>1. k \in 1..i-1
      BY <1>1, <2>2
    <3> QED
      BY <1>3, <3>1 DEF ReadWell
  <2> QED
    BY <2>1, <2>2
<1>6. i' - 1 = i /\ i' <= Len(archive') + 1
  BY <1>0, <1>1, <1>2
<1>7. ReadWell(i - 1, i - 1)'
  BY <1>2, <1>5, <1>6 DEF ReadWell, Place, WholeEntry
<1>8. Reading'
  BY <1>2, <1>3, <1>6, <1>7 DEF Sound, Reading
<1>9. Listing'
  BY <1>2, SameListing DEF Sound, Listing
<1> QED
  BY <1>2, <1>8, <1>9, SameFoldered DEF Sound

LEMMA EntryFailsSound == IInv /\ Sound /\ EntryFails => Sound'
<1> SUFFICES ASSUME IInv, Sound, EntryFails PROVE Sound'
  OBVIOUS
<1> DEFINE p == archive[i].path
           f == FileIn(Tree(p), p)
           g == IF fresh THEN Absent ELSE f
<1>1. i \in Entries /\ p \in Paths
  BY EntryPath DEF IInv, Shape, EntryFails
<1>2. /\ UNCHANGED <<archive, before, created>> /\ pc = "write" /\ pc' = "reclaim" /\ outcome' # "Ok" /\ Put(Tree(p), p, g)
  BY DEF EntryFails, attemptVars
<1>3. Reading'
  BY <1>2 DEF Reading
<1>4. ASSUME NEW q \in Paths, ~Deep(q), q \notin before, disk'[q] # Absent
      PROVE  Listed(q)'
  <2>1. disk[q] # Absent
    BY <1>1, <1>2, <1>4 DEF Put, FileIn, Tree, IInv, Shape
  <2> QED
    BY <1>2, <1>4, <2>1 DEF Sound, Listing, Listed
<1>5. Listing'
  BY <1>2, <1>4 DEF Listing, Absent, Deep
<1>6. Foldered'
  <2>1. \A b \in Branches : (NothingNew(InBranch(b)) \/ AllThere(b))'
    <3> HIDE DEF g
    <3> QED BY <1>1, <1>2, WriteFolders DEF Sound
  <2> QED
    BY <1>2, <2>1 DEF Sound, Foldered, Deep
<1> QED
  BY <1>3, <1>5, <1>6 DEF Sound

LEMMA CommittedSound == IInv /\ Sound /\ Committed => Sound'
<1> SUFFICES ASSUME IInv, Sound, Committed PROVE Sound'
  OBVIOUS
<1>1. /\ UNCHANGED <<archive, disk, stage, before, created, unmoved>>
      /\ pc = "commit" /\ unmoved = {} /\ outcome' = "Ok" /\ pc' = "sweep"
  BY DEF Committed, attemptVars
<1>2. (\A k \in Entries : archive[k].kind = "good") /\ \A p \in Targets : disk[p] = Unpacked(p)
  BY <1>1, ReadIsComplete DEF IInv, Sound, Reading
<1>3. OkIsComplete'
  BY <1>1, <1>2, SameArchive DEF OkIsComplete
<1>4. Reading'
  BY <1>1, <1>3 DEF Reading
<1>5. Listing'
  BY <1>1, SameListing DEF Sound, Listing
<1> QED
  BY <1>1, <1>4, <1>5, SameFoldered DEF Sound

LEMMA CloseArchiveSound == IInv /\ Sound /\ CloseArchive => Sound'
<1> SUFFICES ASSUME IInv, Sound, CloseArchive PROVE Sound'
  OBVIOUS
<1>1. /\ UNCHANGED <<archive, disk, stage, before, created, unmoved, i>> /\ pc = "open" /\ i > Len(archive)
      /\ pc' \in {"commit", "reclaim"} /\ (outcome' = outcome \/ outcome' # "Ok")
  BY DEF CloseArchive, attemptVars
<1>2. i - 1 = Len(archive)
  BY <1>1, ArchiveLength DEF Sound, Reading, IInv, Shape
<1>3. unmoved' \subseteq DeepBranches' /\ ReadWell(Len(archive), Len(archive))'
  BY <1>1, <1>2 DEF Sound, Reading, DeepBranches, Entries, ReadWell, Place, WholeEntry
<1>4. Reading'
  BY <1>1, <1>3 DEF Sound, Reading
<1>5. Listing'
  BY <1>1, SameListing DEF Sound, Listing
<1> QED
  BY <1>1, <1>4, <1>5, SameFoldered DEF Sound

\* A branch that moves into place takes the place of its files with it.
LEMMA CommitBranchSound == IInv /\ Sound /\ CommitBranch => Sound'
<1> SUFFICES ASSUME IInv, Sound, CommitBranch PROVE Sound'
  OBVIOUS
<1>1. PICK b \in unmoved : /\ disk' = [p \in Paths |-> IF Branch[p] = b THEN stage[p] ELSE disk[p]]
                           /\ stage' = [p \in Paths |-> IF Branch[p] = b THEN Absent ELSE stage[p]]
                           /\ unmoved' = unmoved \ {b}
  BY DEF CommitBranch
<1>2. UNCHANGED <<archive, before, created, outcome, pc>> /\ pc = "commit"
  BY DEF CommitBranch
<1>3. unmoved \subseteq DeepBranches /\ DeepBranches' = DeepBranches /\ ReadWell(Len(archive), Len(archive))
  BY <1>2 DEF Sound, Reading, DeepBranches, Entries
<1>4. \A p \in Paths : Place(p)' = Place(p)
  BY <1>1 DEF Place
<1>5. ReadWell(Len(archive), Len(archive))'
  <2>1. \A k \in 1..Len(archive) : archive[k].path \in Paths
    BY EntryPath DEF IInv, Entries
  <2> QED
    BY <1>2, <1>3, <1>4, <2>1 DEF ReadWell, WholeEntry
<1>6. Reading'
  BY <1>1, <1>2, <1>3, <1>5 DEF Sound, Reading
<1>7. ASSUME NEW p \in Paths, ~Deep(p) PROVE disk'[p] = disk[p]
  BY <1>1, <1>3, <1>7 DEF DeepBranches, Deep
<1>8. Listing'
  BY <1>2, <1>7 DEF Sound, Listing, Listed, Deep, Absent
<1>9. AllThere(b)'
  <2> SUFFICES ASSUME NEW p \in InBranch(b) \cap Targets PROVE disk'[p] = Unpacked(p)
    BY <1>2, SameArchive DEF AllThere, InBranch
  <2>1. Branch[p] = b /\ p \in Paths /\ Place(p) = stage[p]
    BY <1>1 DEF InBranch, Place
  <2>2. Place(p) = Unpacked(p)
    BY <1>3, LastIsPlaced DEF IInv
  <2> QED
    BY <1>1, <2>1, <2>2
<1>10. ASSUME NEW c \in Branches PROVE (NothingNew(InBranch(c)) \/ AllThere(c))'
  <2>1. CASE c = b
    BY <1>9, <2>1
  <2>2. CASE c # b
    <3>1. InBranch(c)' = InBranch(c) /\ \A p \in InBranch(c) : disk'[p] = disk[p]
      BY <1>1, <2>2 DEF InBranch
    <3>2. CASE NothingNew(InBranch(c))
      BY <1>2, <3>1, <3>2 DEF NothingNew, Absent
    <3>3. CASE AllThere(c)
      BY <1>2, <3>1, <3>3, SameArchive DEF AllThere
    <3> QED
      BY <1>2, <3>2, <3>3 DEF Sound, Foldered
  <2> QED
    BY <2>1, <2>2
<1>11. Foldered'
  BY <1>2, <1>10 DEF Sound, Foldered, Deep
<1> QED
  BY <1>6, <1>8, <1>11 DEF Sound

\* The entry deleted is the one taken off the list.
LEMMA ReclaimSound == IInv /\ IInv' /\ Sound /\ Reclaim => Sound'
<1> SUFFICES ASSUME IInv, IInv', Sound, Reclaim PROVE Sound'
  OBVIOUS
<1>1. /\ UNCHANGED <<archive, before, outcome>> /\ pc = "reclaim" /\ pc' \in {"reclaim", "sweep"}
      /\ outcome # "Ok"
  BY DEF Reclaim, Sound, Reading
<1>2. Reading'
  BY <1>1 DEF Reading
<1>3. CASE created = << >>
  <2>1. UNCHANGED <<disk, before, created>>
    BY <1>3 DEF Reclaim
  <2> QED
    BY <1>1, <1>2, <1>3, <2>1, SameListing, SameFoldered DEF Sound, Listing
<1>4. CASE created # << >>
  <2> DEFINE last == created[Len(created)]
  <2>1. created \in Seq({"disk", "stage"} \X Paths) /\ Len(created) \in 1..Len(created)
    BY <1>4 DEF IInv, MadeHere
  <2>2. last \in {"disk", "stage"} \X Paths
    BY <2>1
  <2>3. Put(last[1], last[2], Absent) /\ created' = SubSeq(created, 1, Len(created) - 1) /\ pc' = "reclaim"
    BY <1>4 DEF Reclaim
  <2>4. Len(created') = Len(created) - 1 /\ \A k \in 1..Len(created) - 1 : created'[k] = created[k]
    BY <2>1, <2>3, <1>4, DropLast
  <2>5. ASSUME NEW q \in Paths, ~Deep(q), q \notin before, disk'[q] # Absent
        PROVE  Listed(q)'
    <3>1. disk[q] # Absent /\ last # <<"disk", q>>
      <4>1. CASE last[1] = "disk"
        BY <2>2, <2>3, <2>5, <4>1 DEF Put, IInv, Shape
      <4>2. CASE last[1] # "disk"
        BY <2>3, <2>5, <4>2 DEF Put
      <4> QED
        BY <4>1, <4>2
    <3>2. PICK k \in 1..Len(created) : created[k] = <<"disk", q>>
      BY <1>1, <2>5, <3>1 DEF Sound, Listing, Listed
    <3>3. k \in 1..Len(created')
      BY <2>1, <2>4, <3>1, <3>2
    <3> QED
      BY <2>4, <3>2, <3>3 DEF Listed
  <2>6. Listing'
    BY <1>1, <2>3, <2>5 DEF Listing, Absent, Deep
  <2>7. last[1] = "disk" => ~Deep(last[2])
    BY <2>1 DEF Sound, Foldered
  <2>8. ASSUME NEW q \in Paths, Deep(q) PROVE disk'[q] = disk[q]
    BY <2>2, <2>3, <2>7, <2>8 DEF Put, IInv, Shape
  <2>9. \A b \in Branches : (NothingNew(InBranch(b)) \/ AllThere(b))'
    BY <1>1, <2>8, SameFolders DEF Sound
  <2>10. \A k \in 1..Len(created') : created'[k] = created[k] /\ k \in 1..Len(created)
    BY <2>1, <2>4
  <2>11. Foldered'
    BY <2>9, <2>10 DEF Sound, Foldered, Deep
  <2> QED
    BY <1>2, <2>6, <2>11 DEF Sound
<1> QED
  BY <1>3, <1>4

LEMMA SoundStep == IInv /\ IInv' /\ Sound /\ [Next]_vars => Sound'
<1> SUFFICES ASSUME IInv, IInv', Sound, [Next]_vars PROVE Sound'
  OBVIOUS
<1>1. CASE CancelJob \/ OthersWrite \/ UNCHANGED vars
  <2>1. UNCHANGED <<archive, disk, stage, staging, created, unmoved, i, before, outcome, pc>>
    BY <1>1 DEF CancelJob, OthersWrite, vars, attemptVars
  <2>2. outcome = "Ok" => OkIsComplete'
    BY <2>1, SameComplete DEF Sound, Reading
  <2>3. DeepBranches' = DeepBranches
    BY <2>1 DEF DeepBranches, Entries
  <2>4. Reading'
    BY <2>1, <2>2, <2>3 DEF Sound, Reading, ReadWell, Place, WholeEntry
  <2>5. Listing'
    BY <2>1 DEF Sound, Listing, Listed, Deep, Absent
  <2>6. Foldered'
    <3>1. CASE pc \notin {"idle", "off"}
      BY <2>1, <3>1, SameFoldered DEF Sound
    <3>2. CASE pc \in {"idle", "off"}
      BY <2>1, <3>2 DEF Sound, Foldered, Deep
    <3> QED
      BY <3>1, <3>2
  <2> QED
    BY <2>4, <2>5, <2>6 DEF Sound
<1>2. CASE OpenFails \/ CommitFails \/ PowerCut
  <2>1. /\ UNCHANGED <<archive, disk, before, created>> /\ pc \notin {"idle", "off"} /\ pc' \in {"reclaim", "off"}
        /\ outcome' # "Ok"
    BY <1>2 DEF OpenFails, CommitFails, PowerCut, attemptVars
  <2>2. Reading'
    BY <2>1 DEF Reading
  <2>3. Listing'
    BY <2>1, SameListing DEF Sound, Listing
  <2> QED
    BY <2>1, <2>2, <2>3, SameFoldered DEF Sound
<1>3. CASE Sweep
  <2>1. /\ UNCHANGED <<archive, disk, before, created, outcome>> /\ pc = "sweep" /\ pc' = "done"
    BY <1>3 DEF Sweep, attemptVars
  <2>2. outcome = "Ok" => OkIsComplete'
    BY <2>1, SameComplete DEF Sound, Reading
  <2>3. Reading'
    BY <2>1, <2>2 DEF Reading
  <2>4. Listing'
    BY <2>1, SameListing DEF Sound, Listing
  <2> QED
    BY <2>1, <2>3, <2>4, SameFoldered DEF Sound
<1>4. CASE Restart
  <2>1. pc = "off" /\ pc' = "idle" /\ created' = << >> /\ outcome' = outcome /\ outcome # "Ok"
    BY <1>4 DEF Restart, Sound, Reading
  <2> QED
    BY <2>1 DEF Sound, Reading, Listing, Foldered
<1> QED
  BY <1>1, <1>2, <1>3, <1>4, ExtractSound, CheckSpaceSound, PreflightSound, OpenEntrySound, WriteBlockSound,
     CloseEntrySound, EntryFailsSound, CloseArchiveSound, CommitBranchSound, CommittedSound, ReclaimSound
     DEF Next, Step

\* A success left every entry in place, whole and good; a failure left nothing new outside the deep folders, and of
\* each deep folder all its files or none: what extract() returns is what it leaves, after any failures, retries and
\* power cuts before it.
THEOREM OutcomeTells == Spec => []OutcomeIsTrue
<1>1. IInv /\ Sound => OutcomeIsTrue
  <2>1. Sound => OkIsComplete
    BY DEF Sound, Reading, OkIsComplete
  <2>2. ASSUME Sound, pc = "done", outcome # "Ok", NEW p \in Paths, ~Deep(p), p \notin before
        PROVE  disk[p] = Absent
    <3>1. created = << >> /\ (disk[p] # Absent => Listed(p))
      BY <2>2 DEF Sound, Listing
    <3> QED
      BY <3>1 DEF Listed
  <2> QED
    BY <2>1, <2>2 DEF OutcomeIsTrue, FailureReclaims, NothingNew, Sound, Foldered
<1> QED
  BY InitInv, StepInv, InitSound, SoundStep, <1>1, PTL DEF Spec

-----------------------------------------------------------------------------
(* Sums over finite sets *)

\* A set of natural numbers has a least one.
LEMMA LeastNatural ==
  ASSUME NEW T \in SUBSET Nat, T # {}
  PROVE  \E x \in T : \A y \in T : x <= y
<1>1. PICK x \in T : \A y \in T : ~(<<y, x>> \in OpToRel(<, Nat))
  BY WFMin, NatLessThanWellFounded, Zenon
<1>2. \A y \in T : ~(y < x)
  BY <1>1 DEF OpToRel
<1> QED
  BY <1>2

\* What holds of a subset once it holds of the subset less any one element holds of every subset of a finite set.
LEMMA AlongSubsets ==
  ASSUME NEW S, IsFiniteSet(S), NEW Good,
         \A T \in SUBSET S : (\A x \in T : T \ {x} \in Good) => T \in Good
  PROVE  \A T \in SUBSET S : T \in Good
<1> DEFINE Sizes == {n \in Nat : \E T \in SUBSET S : T \notin Good /\ Cardinality(T) = n}
<1>0. \A T \in SUBSET S : IsFiniteSet(T) /\ Cardinality(T) \in Nat
  BY FS_Subset, FS_CardinalityType
<1> SUFFICES ASSUME Sizes # {} PROVE FALSE
  BY <1>0
<1>1. PICK n \in Sizes : \A m \in Sizes : n <= m
  <2>1. Sizes \in SUBSET Nat
    OBVIOUS
  <2> HIDE DEF Sizes
  <2> QED
    BY <2>1, LeastNatural
<1>2. PICK T \in SUBSET S : T \notin Good /\ Cardinality(T) = n
  BY <1>1
<1>3. PICK x \in T : T \ {x} \notin Good
  BY <1>2
<1>4. n \in Nat /\ T \ {x} \in SUBSET S /\ Cardinality(T \ {x}) = n - 1 /\ n - 1 \in Nat
  <2>1. IsFiniteSet(T) /\ T \ {x} \in SUBSET S
    BY <1>0, <1>2
  <2>2. Cardinality(T \ {x}) = Cardinality(T) - 1
    BY <2>1, FS_RemoveElement
  <2> QED
    BY <1>0, <1>2, <2>1, <2>2
<1>5. n - 1 \in Sizes
  BY <1>3, <1>4
<1> HIDE DEF Sizes
<1> QED
  BY <1>1, <1>4, <1>5

\* Two functions agree on S; a function is an integer on S.
Alike(a, b, S) == \A x \in S : a[x] = b[x]
IntOn(f, S) == \A x \in S : f[x] \in Int

\* g adds up f over the subsets of S, element by element.
Summed(g, f, s) == IF s = {} THEN 0 ELSE f[CHOOSE x \in s : TRUE] + g[s \ {CHOOSE x \in s : TRUE}]
Summing(g, f, D) == g = [s \in D |-> Summed(g, f, s)]
UpTo(S, n) == {s \in SUBSET S : Cardinality(s) <= n}

\* There is such a function: the one up to size n extends the one up to n - 1.
LEMMA SumExists ==
  ASSUME NEW S, IsFiniteSet(S), NEW f
  PROVE  \E g : Summing(g, f, SUBSET S)
<1>0. \A T \in SUBSET S : IsFiniteSet(T) /\ Cardinality(T) \in Nat /\ Cardinality(T) <= Cardinality(S)
  BY FS_Subset, FS_CardinalityType
<1> DEFINE Bad == {n \in Nat : ~\E g : Summing(g, f, UpTo(S, n))}
<1>1. Bad = {}
  <2> SUFFICES ASSUME Bad # {} PROVE FALSE
    OBVIOUS
  <2>1. PICK n \in Bad : \A m \in Bad : n <= m
    <3>1. Bad \in SUBSET Nat
      OBVIOUS
    <3> HIDE DEF Bad
    <3> QED
      BY <3>1, LeastNatural
  <2>2. n \in Nat /\ ~\E g : Summing(g, f, UpTo(S, n))
    BY <2>1
  <2>3. CASE n = 0
    <3> DEFINE h == [s \in UpTo(S, 0) |-> 0]
    <3>1. \A s \in UpTo(S, 0) : s = {}
      BY <1>0, FS_EmptySet DEF UpTo
    <3>2. Summing(h, f, UpTo(S, 0))
      BY <3>1 DEF Summing, Summed
    <3> QED
      BY <2>2, <2>3, <3>2
  <2>4. CASE n # 0
    <3>1. n - 1 \in Nat /\ n - 1 \notin Bad
      BY <2>1, <2>2, <2>4
    <3>2. PICK g : Summing(g, f, UpTo(S, n - 1))
      BY <3>1
    <3> DEFINE h == [s \in UpTo(S, n) |-> Summed(g, f, s)]
    <3>3. ASSUME NEW s \in UpTo(S, n - 1) PROVE s \in UpTo(S, n) /\ h[s] = g[s]
      <4>1. s \in UpTo(S, n)
        BY <1>0, <2>2 DEF UpTo
      <4>2. g[s] = Summed(g, f, s)
        BY <3>2, Zenon DEF Summing
      <4> QED
        BY <4>1, <4>2
    <3>4. ASSUME NEW s \in UpTo(S, n) PROVE h[s] = Summed(h, f, s)
      <4>1. CASE s = {}
        BY <4>1 DEF Summed
      <4>2. CASE s # {}
        <5> DEFINE x == CHOOSE x \in s : TRUE
        <5>1. x \in s
          BY <4>2
        <5>2. s \ {x} \in UpTo(S, n - 1)
          <6> HIDE DEF x
          <6> QED
            BY <1>0, <2>2, <5>1, FS_RemoveElement DEF UpTo
        <5>3. h[s \ {x}] = g[s \ {x}]
          BY <3>3, <5>2, Zenon
        <5> QED
          BY <4>2, <5>3 DEF Summed
      <4> QED
        BY <4>1, <4>2
    <3>5. h = [s \in UpTo(S, n) |-> h[s]]
      OBVIOUS
    <3>6. Summing(h, f, UpTo(S, n))
      <4> HIDE DEF h
      <4> QED
        BY <3>4, <3>5 DEF Summing
    <3> QED
      BY <2>2, <3>6
  <2> QED
    BY <2>3, <2>4
<1>2. Cardinality(S) \in Nat /\ UpTo(S, Cardinality(S)) = SUBSET S
  BY <1>0 DEF UpTo
<1>3. Cardinality(S) \notin Bad
  BY <1>1
<1> QED
  BY <1>2, <1>3

\* The sum does not depend on the element taken out first.
LEMMA SumSplits ==
  ASSUME NEW S, IsFiniteSet(S), NEW f, IntOn(f, S), NEW g, Summing(g, f, SUBSET S)
  PROVE  /\ g[{}] = 0
         /\ \A T \in SUBSET S : g[T] \in Int /\ \A x \in T : g[T] = f[x] + g[T \ {x}]
<1>1. \A T \in SUBSET S : g[T] = Summed(g, f, T)
  BY Zenon DEF Summing
<1>2. g[{}] = 0
  BY <1>1 DEF Summed
<1> DEFINE c(T) == CHOOSE x \in T : TRUE
<1>3. \A T \in SUBSET S : T # {} => c(T) \in T /\ g[T] = f[c(T)] + g[T \ {c(T)}]
  BY <1>1 DEF Summed
<1> HIDE DEF c
<1> DEFINE Ints == {T \in SUBSET S : g[T] \in Int}
<1>a. \A T \in SUBSET S : T \in Ints
  <2>1. ASSUME NEW T \in SUBSET S, \A x \in T : T \ {x} \in Ints PROVE T \in Ints
    <3>1. CASE T = {}
      BY <1>2, <3>1
    <3>2. CASE T # {}
      <4>1. c(T) \in T /\ g[T] = f[c(T)] + g[T \ {c(T)}]
        BY <1>3, <3>2
      <4>2. g[T \ {c(T)}] \in Int /\ f[c(T)] \in Int
        BY <2>1, <4>1 DEF IntOn
      <4>3. g[T] \in Int
        BY <4>1, <4>2
      <4> QED
        BY <4>3
    <3> QED
      BY <3>1, <3>2
  <2> HIDE DEF Ints
  <2> QED
    BY <2>1, AlongSubsets
<1>b. \A T \in SUBSET S : g[T] \in Int
  BY <1>a
<1> HIDE DEF Ints
<1> DEFINE Good == {T \in SUBSET S : \A x \in T : g[T] = f[x] + g[T \ {x}]}
<1>4. ASSUME NEW T \in SUBSET S, \A x \in T : T \ {x} \in Good PROVE T \in Good
  <2>1. CASE T = {}
    BY <1>2, <2>1
  <2>2. CASE T # {}
    <3>1. c(T) \in T /\ g[T] = f[c(T)] + g[T \ {c(T)}]
      BY <1>3, <2>2
    <3>2. ASSUME NEW x \in T PROVE g[T] = f[x] + g[T \ {x}]
      <4>1. CASE x = c(T)
        BY <3>1, <4>1
      <4>2. CASE x # c(T)
        <5>1. g[T \ {c(T)}] = f[x] + g[(T \ {c(T)}) \ {x}]
          BY <1>4, <3>1, <4>2
        <5>2. g[T \ {x}] = f[c(T)] + g[(T \ {x}) \ {c(T)}]
          BY <1>4, <3>1, <4>2
        <5>3. (T \ {x}) \ {c(T)} = (T \ {c(T)}) \ {x}
          OBVIOUS
        <5>4. g[(T \ {x}) \ {c(T)}] \in Int /\ f[x] \in Int /\ f[c(T)] \in Int
          BY <1>b, <3>1 DEF IntOn
        <5>5. g[T] = f[c(T)] + (f[x] + g[(T \ {x}) \ {c(T)}])
          BY <3>1, <5>1, <5>3
        <5> QED
          BY <5>2, <5>4, <5>5
      <4> QED
        BY <4>1, <4>2
    <3> QED
      BY <3>1, <3>2
  <2> QED
    BY <2>1, <2>2
<1>5. \A T \in SUBSET S : T \in Good
  <2> HIDE DEF Good
  <2> QED
    BY <1>4, AlongSubsets
<1> QED
  BY <1>2, <1>5, <1>b

LEMMA SumAt ==
  ASSUME NEW S, IsFiniteSet(S), NEW f, IntOn(f, S), NEW g, Summing(g, f, SUBSET S),
         NEW T \in SUBSET S, NEW x \in T
  PROVE  g[T] = f[x] + g[T \ {x}]
  BY SumSplits

\* Sums of the same over the same.
LEMMA SumsAgree ==
  ASSUME NEW S, NEW R, IsFiniteSet(S), IsFiniteSet(R), NEW a, IntOn(a, S), NEW b, IntOn(b, R),
         NEW g, Summing(g, a, SUBSET S), NEW h, Summing(h, b, SUBSET R), S \subseteq R,
         Alike(a, b, S)
  PROVE  g[S] = h[S]
<1>0. ASSUME NEW T \in SUBSET R, NEW x \in T PROVE h[T] = b[x] + h[T \ {x}]
  BY SumAt
<1> DEFINE Good == {T \in SUBSET S : g[T] = h[T]}
<1>1. ASSUME NEW T \in SUBSET S, \A x \in T : T \ {x} \in Good PROVE T \in Good
  <2>1. CASE T = {}
    BY <2>1, SumSplits
  <2>2. CASE T # {}
    <3>1. PICK x \in T : TRUE
      BY <2>2
    <3>2. g[T] = a[x] + g[T \ {x}]
      BY SumSplits
    <3>3. h[T] = b[x] + h[T \ {x}]
      BY <1>0
    <3> QED
      BY <1>1, <3>2, <3>3 DEF Alike
  <2> QED
    BY <2>1, <2>2
<1>2. \A T \in SUBSET S : T \in Good
  <2> HIDE DEF Good
  <2> QED
    BY <1>1, AlongSubsets
<1> QED
  BY <1>2

\* The sum of f over S, as the model's operators take it.
Total(f, S) == MapThenSumSet(LAMBDA x : f[x], S)

LEMMA TotalIsSum ==
  ASSUME NEW S, IsFiniteSet(S), NEW f, IntOn(f, S)
  PROVE  \E g : Summing(g, f, SUBSET S) /\ Total(f, S) = g[S]
<1> DEFINE g == CHOOSE g : g = [s \in SUBSET S |-> IF s = {} THEN 0
                                ELSE LET x == CHOOSE x \in s : TRUE IN f[x] + g[s \ {x}]]
<1>1. Total(f, S) = g[S]
  BY DEF Total, MapThenSumSet, MapThenFoldSet
<1>2. Summing(g, f, SUBSET S)
  <2>1. g = CHOOSE h : Summing(h, f, SUBSET S)
    BY DEF Summing, Summed
  <2> HIDE DEF g
  <2> QED
    BY <2>1, SumExists
<1> QED
  BY <1>1, <1>2

LEMMA SubTotal ==
  ASSUME NEW S, IsFiniteSet(S), NEW f, IntOn(f, S), NEW g, Summing(g, f, SUBSET S), NEW R, R \subseteq S
  PROVE  Total(f, R) = g[R]
<1>1. IsFiniteSet(R) /\ IntOn(f, R) /\ Alike(f, f, R)
  BY FS_Subset DEF IntOn, Alike
<1>2. PICK h : Summing(h, f, SUBSET R) /\ Total(f, R) = h[R]
  BY <1>1, TotalIsSum
<1>3. h[R] = g[R]
  BY <1>1, <1>2, SumsAgree
<1> QED
  BY <1>2, <1>3

LEMMA TotalSplits ==
  ASSUME NEW S, IsFiniteSet(S), NEW f, IntOn(f, S)
  PROVE  /\ Total(f, {}) = 0 /\ Total(f, S) \in Int
         /\ \A x \in S : Total(f, S) = f[x] + Total(f, S \ {x})
<1>1. PICK g : Summing(g, f, SUBSET S) /\ Total(f, S) = g[S]
  BY TotalIsSum
<1>2. g[S] \in Int /\ \A x \in S : g[S] = f[x] + g[S \ {x}]
  BY <1>1, SumSplits
<1>3. Total(f, {}) = 0
  <2>1. IsFiniteSet({}) /\ IntOn(f, {})
    BY FS_EmptySet DEF IntOn
  <2>2. PICK h : Summing(h, f, SUBSET {}) /\ Total(f, {}) = h[{}]
    BY <2>1, TotalIsSum
  <2> QED
    BY <2>1, <2>2, SumSplits
<1>4. ASSUME NEW x \in S PROVE Total(f, S \ {x}) = g[S \ {x}]
  BY <1>1, SubTotal
<1> QED
  BY <1>1, <1>2, <1>3, <1>4

\* Functions that agree have the same total.
LEMMA TotalsAgree ==
  ASSUME NEW S, IsFiniteSet(S), NEW a, NEW b, IntOn(a, S), Alike(a, b, S)
  PROVE  Total(a, S) = Total(b, S)
<1>1. PICK g : Summing(g, a, SUBSET S) /\ Total(a, S) = g[S]
  BY TotalIsSum
<1>0. IntOn(b, S)
  BY DEF IntOn, Alike
<1>2. PICK h : Summing(h, b, SUBSET S) /\ Total(b, S) = h[S]
  BY <1>0, TotalIsSum
<1> QED
  BY <1>0, <1>1, <1>2, SumsAgree

\* What is not negative is parted in two, and so is its total.
Parted(a, b, c, S) == \A x \in S : a[x] \in Nat /\ b[x] \in Nat /\ c[x] \in Nat /\ a[x] = b[x] + c[x]

LEMMA TotalOfParted ==
  ASSUME NEW S, IsFiniteSet(S), NEW a, NEW b, NEW c, Parted(a, b, c, S)
  PROVE  /\ Total(a, S) = Total(b, S) + Total(c, S)
         /\ Total(a, S) \in Nat /\ Total(b, S) \in Nat /\ Total(c, S) \in Nat
<1> DEFINE Good == {T \in SUBSET S : /\ Total(a, T) = Total(b, T) + Total(c, T)
                                   /\ Total(b, T) \in Nat /\ Total(c, T) \in Nat}
<1>1. ASSUME NEW T \in SUBSET S, \A x \in T : T \ {x} \in Good PROVE T \in Good
  <2>0. IsFiniteSet(T) /\ IntOn(a, T) /\ IntOn(b, T) /\ IntOn(c, T)
    BY FS_Subset DEF IntOn, Parted
  <2>1. CASE T = {}
    BY <2>0, <2>1, TotalSplits
  <2>2. CASE T # {}
    <3>1. PICK x \in T : TRUE
      BY <2>2
    <3>2. Total(a, T) = a[x] + Total(a, T \ {x})
      BY <2>0, TotalSplits
    <3>3. Total(b, T) = b[x] + Total(b, T \ {x})
      BY <2>0, TotalSplits
    <3>4. Total(c, T) = c[x] + Total(c, T \ {x})
      BY <2>0, TotalSplits
    <3>5. T \ {x} \in Good
      BY <1>1
    <3> QED
      BY <3>2, <3>3, <3>4, <3>5 DEF Parted
  <2> QED
    BY <2>1, <2>2
<1>2. \A T \in SUBSET S : T \in Good
  <2> HIDE DEF Good
  <2> QED
    BY <1>1, AlongSubsets
<1>3. S \in Good
  BY <1>2
<1> QED
  BY <1>3

-----------------------------------------------------------------------------
(* The room that the space check found *)

\* The lengths of the files of a tree, the sizes of the entries, the room that each gives back and what it needs
\* beside that; and what the entries from n on need.
Lengths(tree) == [p \in Paths |-> tree[p].len]
Sizes == [k \in Entries |-> archive[k].size]
Credits == [k \in Entries |-> Credit(k)]
Need == [k \in Entries |-> archive[k].size - Credit(k)]
Rest(n) == Total(Need, n..Len(archive))

\* The room left covers what is still to be written, as long as others keep to the margin.
Room ==
  /\ others \in 0..MaxOthers
  /\ known /\ pc = "preflight" => Free + others >= Rest(1) + Margin
  /\ known /\ pc = "open" => Free + others >= Rest(i) + Margin
  /\ known /\ pc = "write" =>
       LET p == archive[i].path
       IN  Free + others >= archive[i].size - FileIn(Tree(p), p).len + Rest(i + 1) + Margin
  /\ SpaceSuffices

LEMMA EntriesFacts == ASSUME Shape
  PROVE  /\ Len(archive) \in Nat /\ Entries = 1..Len(archive) /\ IsFiniteSet(Entries)
         /\ \A k \in Entries : archive[k].path \in Paths /\ archive[k].size \in Nat \ {0}
<1> DEFINE Entry == [path : Paths, size : Nat \ {0}, kind : Kinds]
<1>1. archive \in Seq(Entry)
  BY ArchivesAssumption DEF Shape
<1>2. \A k \in Entries : archive[k] \in Entry
  <2> HIDE DEF Entry
  <2> QED BY <1>1 DEF Entries
<1>3. Len(archive) \in Nat
  BY <1>1
<1>4. IsFiniteSet(1..Len(archive))
  BY <1>3, FS_Interval
<1>5. \A k \in Entries : archive[k].path \in Paths /\ archive[k].size \in Nat \ {0}
  BY <1>2
<1> QED
  BY <1>3, <1>4, <1>5 DEF Entries

\* What the model adds up are totals.
LEMMA OccupancyIsTotal ==
  ASSUME NEW tree \in [Paths -> File]
  PROVE  /\ IsFiniteSet(Paths) /\ IntOn(Lengths(tree), Paths)
         /\ Occupancy(tree) = Total(Lengths(tree), Paths)
<1> DEFINE f == Lengths(tree)
           g == CHOOSE g : g = [s \in SUBSET Paths |-> IF s = {} THEN 0
                                ELSE LET x == CHOOSE x \in s : TRUE IN tree[x].len + g[s \ {x}]]
<1>1. IsFiniteSet(Paths) /\ IntOn(f, Paths)
  BY RoomAssumption DEF Lengths, IntOn, File
<1>2. Occupancy(tree) = g[Paths]
  BY DEF Occupancy, MapThenSumSet, MapThenFoldSet
<1>3. Summing(g, f, SUBSET Paths)
  <2>1. PICK h : Summing(h, f, SUBSET Paths)
    BY <1>1, SumExists
  <2>2. ASSUME NEW s \in SUBSET Paths, s # {} PROVE f[CHOOSE x \in s : TRUE] = tree[CHOOSE x \in s : TRUE].len
    BY <2>2 DEF Lengths
  <2>3. ASSUME NEW e
        PROVE  [s \in SUBSET Paths |-> Summed(e, f, s)]
                 = [s \in SUBSET Paths |-> IF s = {} THEN 0
                     ELSE LET x == CHOOSE x \in s : TRUE IN tree[x].len + e[s \ {x}]]
    <3> HIDE DEF f
    <3> QED
      BY <2>2 DEF Summed
  <2>4. h = [s \in SUBSET Paths |-> IF s = {} THEN 0
              ELSE LET x == CHOOSE x \in s : TRUE IN tree[x].len + h[s \ {x}]]
    BY <2>1, <2>3, Zenon DEF Summing
  <2>5. g = [s \in SUBSET Paths |-> IF s = {} THEN 0
              ELSE LET x == CHOOSE x \in s : TRUE IN tree[x].len + g[s \ {x}]]
    BY <2>4, Zenon
  <2> HIDE DEF f, g
  <2> QED
    BY <2>3, <2>5, Zenon DEF Summing
<1> HIDE DEF g
<1> QED
  BY <1>1, <1>2, <1>3, SubTotal

LEMMA SizesTotal == ASSUME Shape PROVE UncompressedTotal = Total(Sizes, Entries)
<1> DEFINE g == CHOOSE g : g = [s \in SUBSET Entries |-> IF s = {} THEN 0
                                ELSE LET x == CHOOSE x \in s : TRUE IN archive[x].size + g[s \ {x}]]
<1>1. IsFiniteSet(Entries) /\ IntOn(Sizes, Entries)
  BY EntriesFacts DEF Sizes, IntOn
<1>2. UncompressedTotal = g[Entries]
  BY DEF UncompressedTotal, MapThenSumSet, MapThenFoldSet
<1>3. Summing(g, Sizes, SUBSET Entries)
  <2>1. PICK h : Summing(h, Sizes, SUBSET Entries)
    BY <1>1, SumExists
  <2>2. ASSUME NEW s \in SUBSET Entries, s # {}
        PROVE  Sizes[CHOOSE x \in s : TRUE] = archive[CHOOSE x \in s : TRUE].size
    BY <2>2 DEF Sizes
  <2>3. ASSUME NEW e
        PROVE  [s \in SUBSET Entries |-> Summed(e, Sizes, s)]
                 = [s \in SUBSET Entries |-> IF s = {} THEN 0
                     ELSE LET x == CHOOSE x \in s : TRUE IN archive[x].size + e[s \ {x}]]
    BY <2>2 DEF Summed
  <2>4. h = [s \in SUBSET Entries |-> IF s = {} THEN 0
              ELSE LET x == CHOOSE x \in s : TRUE IN archive[x].size + h[s \ {x}]]
    BY <2>1, <2>3, Zenon DEF Summing
  <2>5. g = [s \in SUBSET Entries |-> IF s = {} THEN 0
              ELSE LET x == CHOOSE x \in s : TRUE IN archive[x].size + g[s \ {x}]]
    BY <2>4, Zenon
  <2> HIDE DEF g
  <2> QED
    BY <2>3, <2>5, Zenon DEF Summing
<1> HIDE DEF g
<1> QED
  BY <1>1, <1>2, <1>3, SubTotal

LEMMA CreditsTotal ==
  ASSUME Shape, IntOn(Credits, Entries)
  PROVE  MapThenSumSet(Credit, Entries) = Total(Credits, Entries)
<1> DEFINE g == CHOOSE g : g = [s \in SUBSET Entries |-> IF s = {} THEN 0
                                ELSE LET x == CHOOSE x \in s : TRUE IN Credit(x) + g[s \ {x}]]
<1>1. IsFiniteSet(Entries)
  BY EntriesFacts
<1>2. MapThenSumSet(Credit, Entries) = g[Entries]
  BY DEF MapThenSumSet, MapThenFoldSet
<1>3. Summing(g, Credits, SUBSET Entries)
  <2>1. PICK h : Summing(h, Credits, SUBSET Entries)
    BY <1>1, SumExists
  <2>2. ASSUME NEW s \in SUBSET Entries, s # {}
        PROVE  Credits[CHOOSE x \in s : TRUE] = Credit(CHOOSE x \in s : TRUE)
    BY <2>2 DEF Credits
  <2>3. ASSUME NEW e
        PROVE  [s \in SUBSET Entries |-> Summed(e, Credits, s)]
                 = [s \in SUBSET Entries |-> IF s = {} THEN 0
                     ELSE LET x == CHOOSE x \in s : TRUE IN Credit(x) + e[s \ {x}]]
    BY <2>2 DEF Summed
  <2>4. h = [s \in SUBSET Entries |-> IF s = {} THEN 0
              ELSE LET x == CHOOSE x \in s : TRUE IN Credit(x) + h[s \ {x}]]
    BY <2>1, <2>3, Zenon DEF Summing
  <2>5. g = [s \in SUBSET Entries |-> IF s = {} THEN 0
              ELSE LET x == CHOOSE x \in s : TRUE IN Credit(x) + g[s \ {x}]]
    BY <2>4, Zenon
  <2> HIDE DEF g
  <2> QED
    BY <2>3, <2>5, Zenon DEF Summing
<1> HIDE DEF g
<1> QED
  BY <1>1, <1>2, <1>3, SubTotal

LEMMA OccupancyOfPut ==
  ASSUME NEW tree \in [Paths -> File], NEW p \in Paths, NEW f \in File
  PROVE  /\ Occupancy([tree EXCEPT ![p] = f]) = Occupancy(tree) - tree[p].len + f.len
         /\ Occupancy(tree) \in Int
<1> DEFINE new == [tree EXCEPT ![p] = f]
           R == Paths \ {p}
<1>1. new \in [Paths -> File] /\ new[p] = f /\ \A q \in R : new[q] = tree[q]
  OBVIOUS
<1>2. Lengths(new)[p] = f.len /\ Lengths(tree)[p] = tree[p].len /\ f.len \in Nat /\ tree[p].len \in Nat
  BY <1>1 DEF Lengths, File
<1>3. Alike(Lengths(tree), Lengths(new), R)
  BY <1>1 DEF Lengths, Alike
<1> HIDE DEF new
<1>4. /\ IsFiniteSet(Paths) /\ IntOn(Lengths(tree), Paths) /\ IntOn(Lengths(new), Paths)
      /\ Occupancy(tree) = Total(Lengths(tree), Paths) /\ Occupancy(new) = Total(Lengths(new), Paths)
  BY <1>1, OccupancyIsTotal
<1>5. Total(Lengths(tree), Paths) = Lengths(tree)[p] + Total(Lengths(tree), R)
  BY <1>4, TotalSplits
<1>6. Total(Lengths(new), Paths) = Lengths(new)[p] + Total(Lengths(new), R)
  BY <1>4, TotalSplits
<1>7. IsFiniteSet(R) /\ IntOn(Lengths(tree), R)
  BY <1>4, FS_RemoveElement DEF IntOn
<1> HIDE DEF R
<1>8. Total(Lengths(new), R) = Total(Lengths(tree), R) /\ Total(Lengths(tree), R) \in Int
  BY <1>3, <1>7, TotalsAgree, TotalSplits
<1>9. Occupancy(new) = Occupancy(tree) - tree[p].len + f.len /\ Occupancy(tree) \in Int
  BY <1>2, <1>4, <1>5, <1>6, <1>8
<1> QED
  BY <1>9 DEF new

\* What an entry needs beside the room it gives back is not negative.
LEMMA CreditFacts ==
  ASSUME Shape, NEW k \in Entries
  PROVE  /\ Credit(k) \in Nat /\ Credit(k) <= archive[k].size
         /\ Need[k] = archive[k].size - Credit(k) /\ Need[k] \in Nat
         /\ ~Deep(archive[k].path) => Credit(k) <= disk[archive[k].path].len
         /\ Deep(archive[k].path) => Credit(k) = 0
<1> DEFINE p == archive[k].path
           a == archive[k].size
           b == disk[p].len
<1>1. p \in Paths /\ a \in Nat /\ b \in Nat
  BY EntriesFacts DEF Shape, File
<1>2. Min({a, b}) = IF a <= b THEN a ELSE b
  BY <1>1 DEF Min
<1>3. Credit(k) = 0 \/ (~Deep(p) /\ Credit(k) = Min({a, b}))
  BY DEF Credit
<1>4. Need[k] = a - Credit(k)
  BY DEF Need
<1> QED
  BY <1>1, <1>2, <1>3, <1>4

\* The first entry's need and the rest of the others'.
LEMMA RestFacts ==
  ASSUME Shape, NEW n \in Nat \ {0}
  PROVE  /\ Rest(n) \in Nat
         /\ n \in Entries => Rest(n) = Need[n] + Rest(n + 1)
<1> DEFINE S == n..Len(archive)
<1>1. Len(archive) \in Nat /\ S \subseteq Entries /\ IsFiniteSet(S)
  <2>1. Len(archive) \in Nat /\ Entries = 1..Len(archive)
    BY EntriesFacts
  <2> QED
    BY <2>1, FS_Interval
<1>2. \A k \in S : Need[k] \in Nat
  BY <1>1, CreditFacts
<1>3. Rest(n) \in Nat
  <2> DEFINE zero == [k \in S |-> 0]
  <2>1. \A k \in S : zero[k] = 0
    OBVIOUS
  <2> HIDE DEF S, zero
  <2>2. \A k \in S : Need[k] \in Nat /\ zero[k] \in Nat /\ Need[k] \in Nat /\ Need[k] = zero[k] + Need[k]
    BY <1>2, <2>1
  <2>3. Parted(Need, zero, Need, S)
    BY <2>2 DEF Parted
  <2>4. Total(Need, S) \in Nat
    BY <1>1, <2>3, TotalOfParted
  <2> QED
    BY <2>4 DEF Rest, S
<1>4. ASSUME n \in Entries PROVE Rest(n) = Need[n] + Rest(n + 1)
  <2>1. n \in S /\ S \ {n} = (n + 1)..Len(archive)
    BY <1>1, <1>4 DEF Entries
  <2>2. IntOn(Need, S)
    BY <1>2 DEF IntOn
  <2> HIDE DEF S
  <2>3. Total(Need, S) = Need[n] + Total(Need, S \ {n})
    BY <1>1, <2>1, <2>2, TotalSplits
  <2> QED
    BY <2>1, <2>3 DEF Rest, S
<1> QED
  BY <1>3, <1>4

\* The space check found the room of all entries, and the margin.
LEMMA GrowthIsRest == ASSUME Shape, ~(Free < Required(EstimatedGrowth)), Free \in Int PROVE Free >= Rest(1) + Margin
<1>1. IsFiniteSet(Entries) /\ \A k \in Entries : archive[k].size \in Nat
  BY EntriesFacts
<1>2. \A k \in Entries : /\ Sizes[k] = archive[k].size /\ Credits[k] = Credit(k)
                         /\ Credit(k) \in Nat /\ Need[k] \in Nat /\ Need[k] = archive[k].size - Credit(k)
  BY CreditFacts DEF Sizes, Credits
<1>3. Parted(Sizes, Need, Credits, Entries)
  BY <1>1, <1>2 DEF Parted
<1>4. /\ Total(Sizes, Entries) = Total(Need, Entries) + Total(Credits, Entries)
      /\ Total(Sizes, Entries) \in Nat /\ Total(Need, Entries) \in Nat /\ Total(Credits, Entries) \in Nat
  BY <1>1, <1>3, TotalOfParted
<1>5. UncompressedTotal = Total(Sizes, Entries)
  BY SizesTotal
<1>6. MapThenSumSet(Credit, Entries) = Total(Credits, Entries)
  <2>1. IntOn(Credits, Entries)
    BY <1>3 DEF IntOn, Parted
  <2> QED
    BY <2>1, CreditsTotal
<1>7. Rest(1) = Total(Need, Entries)
  BY EntriesFacts DEF Rest
<1>8. EstimatedGrowth \in Nat /\ EstimatedGrowth >= Rest(1)
  BY <1>4, <1>5, <1>6, <1>7 DEF EstimatedGrowth
<1>9. EstimatedGrowth \div 20 >= 0 /\ EstimatedGrowth \div 20 \in Int
  BY <1>8
<1>10. Margin \in Nat /\ Rest(1) \in Int /\ ~(Free < EstimatedGrowth + Margin + EstimatedGrowth \div 20)
  BY <1>4, <1>7, RoomAssumption DEF Required
<1> QED
  BY <1>8, <1>9, <1>10

\* The rest needs the same room while only entries before it are written.
LEMMA RestSame ==
  ASSUME Shape, archive' = archive, NEW n \in Nat \ {0},
         \A k \in n..Len(archive) : Credit(k)' = Credit(k)
  PROVE  Rest(n)' = Rest(n)
<1>1. Len(archive) \in Nat /\ n..Len(archive) \subseteq Entries /\ IsFiniteSet(n..Len(archive))
  <2>1. Len(archive) \in Nat /\ Entries = 1..Len(archive)
    BY EntriesFacts
  <2> QED
    BY <2>1, FS_Interval
<1>2. IntOn(Need, n..Len(archive)) /\ Alike(Need, Need', n..Len(archive))
  <2>1. \A k \in n..Len(archive) : Need[k] \in Nat
    BY <1>1, CreditFacts
  <2>2. \A k \in n..Len(archive) : Need'[k] = Need[k]
    BY <1>1 DEF Need, Entries
  <2> QED
    BY <2>1, <2>2 DEF IntOn, Alike
<1>3. Total(Need, n..Len(archive)) = Total(Need', n..Len(archive))
  <2> HIDE DEF Need
  <2> QED
    BY <1>1, <1>2, TotalsAgree
<1>4. Rest(n)' = Total(Need', n..Len(archive'))
  BY DEF Rest
<1> HIDE DEF Need
<1> QED
  BY <1>3, <1>4 DEF Rest

LEMMA FreeType == ASSUME Shape, others \in Nat PROVE Free \in Int
<1>1. Occupancy(disk) \in Int /\ Occupancy(stage) \in Int
  BY OccupancyIsTotal, TotalSplits DEF Shape
<1> QED
  BY <1>1, RoomAssumption DEF Free

\* Writing one file takes the room of its growth.
LEMMA FreeOfPut ==
  ASSUME Shape, others \in Nat, others' = others,
         NEW tree \in {"disk", "stage"}, NEW p \in Paths, NEW f \in File, Put(tree, p, f)
  PROVE  Free \in Int /\ FileIn(tree, p).len \in Nat /\ Free' = Free + FileIn(tree, p).len - f.len
<1>1. disk \in [Paths -> File] /\ stage \in [Paths -> File] /\ Free \in Int
  BY FreeType DEF Shape
<1>2. Free = Capacity - others - Occupancy(disk) - Occupancy(stage)
  BY DEF Free
<1>3. Free' = Capacity - others - Occupancy(disk') - Occupancy(stage')
  <2>1. Occupancy(disk)' = Occupancy(disk') /\ Occupancy(stage)' = Occupancy(stage')
    BY DEF Occupancy, MapThenSumSet, MapThenFoldSet
  <2> QED
    BY <2>1 DEF Free
<1>4. Occupancy(disk) \in Int /\ Occupancy(stage) \in Int
  BY <1>1, OccupancyIsTotal, TotalSplits
<1>5. CASE tree = "disk"
  <2>1. disk' = [disk EXCEPT ![p] = f] /\ stage' = stage /\ FileIn(tree, p) = disk[p]
    BY <1>5 DEF Put, FileIn
  <2>2. Occupancy(disk') = Occupancy(disk) - disk[p].len + f.len
    BY <1>1, <2>1, OccupancyOfPut
  <2>3. disk[p].len \in Nat /\ f.len \in Nat
    BY <1>1 DEF File
  <2> QED
    BY <1>1, <1>2, <1>3, <1>4, <2>1, <2>2, <2>3, RoomAssumption
<1>6. CASE tree = "stage"
  <2>1. stage' = [stage EXCEPT ![p] = f] /\ disk' = disk /\ FileIn(tree, p) = stage[p]
    BY <1>6 DEF Put, FileIn
  <2>2. Occupancy(stage') = Occupancy(stage) - stage[p].len + f.len
    BY <1>1, <2>1, OccupancyOfPut
  <2>3. stage[p].len \in Nat /\ f.len \in Nat
    BY <1>1 DEF File
  <2> QED
    BY <1>1, <1>2, <1>3, <1>4, <2>1, <2>2, <2>3, RoomAssumption
<1> QED
  BY <1>5, <1>6

\* What is written at an entry does not change what later ones give back: one of another path finds its old file, one
\* of the same path gives nothing.
LEMMA LaterCredit ==
  ASSUME Shape, archive' = archive, i \in Entries, NEW f, Put(Tree(archive[i].path), archive[i].path, f),
         NEW k \in Nat, k > i
  PROVE  Credit(k)' = Credit(k)
<1> DEFINE p == archive[i].path
           q == archive[k].path
<1>0. Deep(q)' = Deep(q) /\ p \in Paths /\ disk \in [Paths -> File]
  BY EntriesFacts DEF Deep, Shape
<1>1. CASE q = p
  <2>1. i \in 1..k - 1
    BY EntriesFacts
  <2>2. ~(\A l \in 1..k - 1 : archive[l].path # q) /\ ~(\A l \in 1..k - 1 : archive'[l].path # q)
    BY <1>1, <2>1
  <2> QED
    BY <2>2 DEF Credit
<1>2. CASE q # p
  <2>1. disk'[q] = disk[q]
    BY <1>0, <1>2 DEF Put
  <2> QED
    BY <1>0, <2>1 DEF Credit
<1> QED
  BY <1>1, <1>2

\* No attempt has begun.
LEMMA InitRoom == Init => Room
  BY RoomAssumption DEF Init, Room, SpaceSuffices

\* A step that writes nothing finds the same room, and the rest of the entries needs the same.
LEMMA RoomIdle ==
  ASSUME Shape, UNCHANGED <<archive, disk, stage>>
  PROVE  /\ others' = others => Free' = Free
         /\ \A n \in Nat \ {0} : Rest(n)' = Rest(n)
<1>1. others' = others => Free' = Free
  <2>1. Occupancy(disk)' = Occupancy(disk) /\ Occupancy(stage)' = Occupancy(stage)
    BY DEF Occupancy, MapThenSumSet, MapThenFoldSet
  <2> QED
    BY <2>1 DEF Free
<1>2. ASSUME NEW n \in Nat \ {0} PROVE Rest(n)' = Rest(n)
  <2>1. \A k \in n..Len(archive) : Credit(k)' = Credit(k)
    BY DEF Credit, Deep
  <2> QED
    BY <2>1, RestSame
<1> QED
  BY <1>1, <1>2

LEMMA CheckSpaceRoom == IInv /\ Room /\ CheckSpace => Room'
<1> SUFFICES ASSUME IInv, Room, CheckSpace PROVE Room'
  OBVIOUS
<1>1. Shape /\ UNCHANGED <<archive, disk, stage, others, known, i>> /\ pc = "space" /\ pc' \in {"preflight", "done"}
  BY DEF CheckSpace, IInv, attemptVars
<1>2. SpaceSuffices'
  BY DEF CheckSpace, Room, SpaceSuffices, attemptVars
<1>3. ASSUME known', pc' = "preflight" PROVE (Free + others >= Rest(1) + Margin)'
  <2>1. ~(Free < Required(EstimatedGrowth)) /\ others \in Nat
    BY <1>1, <1>3, RoomAssumption DEF CheckSpace, Room
  <2>2. Free \in Int /\ Free' = Free /\ Rest(1)' = Rest(1) /\ Rest(1) \in Nat
    BY <1>1, <2>1, FreeType, RoomIdle, RestFacts
  <2>3. Free >= Rest(1) + Margin
    BY <1>1, <2>1, <2>2, GrowthIsRest
  <2> QED
    BY <1>1, <2>1, <2>2, <2>3, RoomAssumption
<1>4. others' \in 0..MaxOthers
  BY <1>1 DEF Room
<1> QED
  BY <1>1, <1>2, <1>3, <1>4 DEF Room

\* Opening an entry truncates the file that is there: its room is free again, and its credit is used up.
LEMMA OpenEntryRoom == IInv /\ Room /\ OpenEntry => Room'
<1> SUFFICES ASSUME IInv, Room, OpenEntry PROVE Room'
  OBVIOUS
<1> DEFINE p == archive[i].path
           f == [by |-> i, len |-> 0]
<1>0. Shape /\ pc = "open" /\ pc' = "write" /\ i \in Entries /\ i \in Nat \ {0}
  <2>1. Shape /\ Len(archive) \in Nat
    BY EntriesFacts DEF IInv
  <2> QED
    BY <2>1 DEF OpenEntry, Shape, Entries
<1>1. UNCHANGED <<archive, others, i, known, outcome>> /\ Put(Tree(p), p, f)
  BY DEF OpenEntry
<1>2. p \in Paths /\ archive[i].size \in Nat /\ f \in File /\ Tree(p) \in {"disk", "stage"}
  BY <1>0, EntriesFacts DEF File, Tree
<1>3. others \in Nat /\ Free \in Int /\ FileIn(Tree(p), p).len \in Nat /\ Free' = Free + FileIn(Tree(p), p).len
  <2>1. others \in Nat
    BY RoomAssumption DEF Room
  <2>2. f.len = 0
    OBVIOUS
  <2> HIDE DEF f
  <2> QED
    BY <1>0, <1>1, <1>2, <2>1, <2>2, FreeOfPut
<1>4. FileIn(Tree(p), p)'.len = 0
  BY <1>0, <1>1, <1>2 DEF Put, FileIn, Tree, Deep, Shape
<1>5. PICK n \in Nat \ {0} : n = i
  BY <1>0
<1>6. Rest(n) = Need[n] + Rest(n + 1) /\ Rest(n + 1)' = Rest(n + 1) /\ Rest(n + 1) \in Nat
  <2>1. \A k \in n + 1..Len(archive) : Credit(k)' = Credit(k)
    BY <1>0, <1>1, <1>5, LaterCredit
  <2> QED
    BY <1>0, <1>1, <1>5, <2>1, RestFacts, RestSame
<1>7. Need[n] = archive[i].size - Credit(n) /\ Credit(n) \in Nat /\ Credit(n) <= FileIn(Tree(p), p).len
  BY <1>0, <1>3, <1>5, CreditFacts DEF FileIn, Tree
<1>8. ASSUME known' PROVE Free' + others >= archive[i].size - 0 + Rest(n + 1)' + Margin
  <2>1. Free + others >= Rest(n) + Margin
    BY <1>0, <1>1, <1>5, <1>8 DEF Room
  <2> QED
    BY <1>2, <1>3, <1>6, <1>7, <2>1, RoomAssumption
<1>9. known' => (Free + others >= archive[i].size - FileIn(Tree(p), p).len + Rest(i + 1) + Margin)'
  BY <1>1, <1>4, <1>5, <1>8 DEF Tree, Deep
<1> QED
  BY <1>0, <1>1, <1>9 DEF Room, SpaceSuffices

LEMMA WriteBlockRoom == IInv /\ Room /\ WriteBlock => Room'
<1> SUFFICES ASSUME IInv, Room, WriteBlock PROVE Room'
  OBVIOUS
<1> DEFINE p == archive[i].path
           old == FileIn(Tree(p), p)
           f == [old EXCEPT !.len = old.len + 1]
<1>0. Shape /\ pc = "write" /\ pc' = "write" /\ i \in Entries /\ i \in Nat \ {0}
  BY DEF WriteBlock, IInv, Shape, Entries
<1>1. UNCHANGED <<archive, others, i, known, outcome>> /\ Put(Tree(p), p, f)
  BY DEF WriteBlock, attemptVars
<1>2. p \in Paths /\ archive[i].size \in Nat /\ Tree(p) \in {"disk", "stage"} /\ old \in File
  BY <1>0, EntriesFacts DEF Tree, FileIn, Shape
<1>3. f \in File /\ f.len = old.len + 1
  BY <1>2 DEF File
<1>4. FileIn(Tree(p), p)' = f
  BY <1>0, <1>1, <1>2 DEF Put, FileIn, Tree, Deep, Shape
<1>5. others \in Nat /\ Free \in Int /\ old.len \in Nat /\ Free' = Free - 1
  <2>1. others \in Nat
    BY RoomAssumption DEF Room
  <2>2. old.len \in Nat
    BY <1>2 DEF File
  <2> HIDE DEF f
  <2>3. Free \in Int /\ Free' = Free + FileIn(Tree(p), p).len - f.len
    BY <1>0, <1>1, <1>2, <1>3, <2>1, FreeOfPut
  <2> QED
    BY <1>3, <2>1, <2>2, <2>3
<1>6. PICK n \in Nat \ {0} : n = i
  BY <1>0
<1>7. Rest(n + 1)' = Rest(n + 1) /\ Rest(n + 1) \in Nat
  <2>1. \A k \in n + 1..Len(archive) : Credit(k)' = Credit(k)
    <3> HIDE DEF f
    <3> QED
      BY <1>0, <1>1, <1>6, LaterCredit
  <2> QED
    BY <1>0, <1>1, <1>6, <2>1, RestFacts, RestSame
<1>8. ASSUME known' PROVE Free' + others >= archive[i].size - (old.len + 1) + Rest(n + 1)' + Margin
  <2>1. Free + others >= archive[i].size - old.len + Rest(n + 1) + Margin
    BY <1>0, <1>1, <1>6, <1>8 DEF Room
  <2> QED
    BY <1>2, <1>5, <1>7, <2>1, RoomAssumption
<1>9. known' => (Free + others >= archive[i].size - FileIn(Tree(p), p).len + Rest(i + 1) + Margin)'
  BY <1>1, <1>3, <1>4, <1>6, <1>8 DEF Tree, Deep
<1> QED
  BY <1>0, <1>1, <1>9 DEF Room, SpaceSuffices

LEMMA CloseEntryRoom == IInv /\ Room /\ CloseEntry => Room'
<1> SUFFICES ASSUME IInv, Room, CloseEntry PROVE Room'
  OBVIOUS
<1> DEFINE p == archive[i].path
<1>0. Shape /\ pc = "write" /\ pc' = "open" /\ i \in Entries /\ i \in Nat \ {0} /\ i' = i + 1
  BY DEF CloseEntry, IInv, Shape, Entries
<1>1. UNCHANGED <<archive, disk, stage, others, known, outcome>> /\ FileIn(Tree(p), p).len = archive[i].size
  BY DEF CloseEntry
<1>2. PICK n \in Nat \ {0} : n = i
  BY <1>0
<1>3. Free' = Free /\ Rest(n + 1)' = Rest(n + 1) /\ Rest(n + 1) \in Nat /\ archive[i].size \in Nat
  BY <1>0, <1>1, <1>2, RoomIdle, RestFacts, EntriesFacts
<1>4. Rest(i)' = Rest(n + 1)'
  BY <1>0, <1>2 DEF Rest
<1>5. known' => (Free + others >= Rest(i) + Margin)'
  <2>1. known => Free + others >= archive[i].size - FileIn(Tree(p), p).len + Rest(n + 1) + Margin
    BY <1>0, <1>2 DEF Room
  <2> QED
    BY <1>1, <1>3, <1>4, <2>1
<1> QED
  BY <1>0, <1>1, <1>5 DEF Room, SpaceSuffices

\* An entry that finds no room found it before the check told how much there is.
LEMMA EntryFailsRoom == IInv /\ Room /\ MaxOthers <= Margin /\ EntryFails => Room'
<1> SUFFICES ASSUME IInv, Room, MaxOthers <= Margin, EntryFails PROVE Room'
  OBVIOUS
<1> DEFINE p == archive[i].path
           f == FileIn(Tree(p), p)
<1>0. Shape /\ pc = "write" /\ pc' = "reclaim" /\ i \in Entries /\ i \in Nat \ {0}
  BY DEF EntryFails, IInv, Shape, Entries
<1>1. UNCHANGED <<others, known>>
  BY DEF EntryFails, attemptVars
<1>2. outcome' = "NoSpace" => f.len < archive[i].size /\ Free <= 0
  BY DEF EntryFails
<1>3. ASSUME known, f.len < archive[i].size, Free <= 0 PROVE FALSE
  <2>1. Free + others >= archive[i].size - f.len + Rest(i + 1) + Margin
    BY <1>0, <1>3 DEF Room
  <2>2. Rest(i + 1) \in Nat /\ archive[i].size \in Nat /\ f.len \in Nat
    BY <1>0, RestFacts, EntriesFacts DEF Tree, FileIn, Shape, File
  <2>3. others \in 0..MaxOthers /\ Free \in Int
    BY <1>0, RoomAssumption, FreeType DEF Room
  <2> QED
    BY <1>3, <2>1, <2>2, <2>3, RoomAssumption
<1> QED
  BY <1>0, <1>1, <1>2, <1>3 DEF Room, SpaceSuffices

LEMMA OthersWriteRoom == IInv /\ Room /\ OthersWrite => Room'
<1> SUFFICES ASSUME IInv, Room, OthersWrite PROVE Room'
  OBVIOUS
<1>0. Shape /\ UNCHANGED <<archive, disk, stage, known, outcome, pc, i>> /\ others' = others + 1
  BY DEF IInv, OthersWrite, attemptVars
<1>1. others \in Nat /\ others' \in 0..MaxOthers
  BY RoomAssumption DEF OthersWrite, Room
<1>2. Free' + others' = Free + others
  <2>1. Occupancy(disk)' = Occupancy(disk) /\ Occupancy(stage)' = Occupancy(stage)
    BY <1>0 DEF Occupancy, MapThenSumSet, MapThenFoldSet
  <2>2. Occupancy(disk) \in Int /\ Occupancy(stage) \in Int
    BY <1>0, OccupancyIsTotal, TotalSplits DEF Shape
  <2> QED
    BY <1>0, <1>1, <2>1, <2>2, RoomAssumption DEF Free
<1>3. PICK n \in Nat \ {0} : n = i
  BY <1>0 DEF Shape
<1>4. Rest(1)' = Rest(1) /\ Rest(n)' = Rest(n) /\ Rest(n + 1)' = Rest(n + 1)
  BY <1>0, RoomIdle
<1>5. Rest(i)' = Rest(i) /\ Rest(i + 1)' = Rest(i + 1)
  BY <1>0, <1>3, <1>4 DEF Rest
<1>6. \A q : FileIn(Tree(q), q)' = FileIn(Tree(q), q)
  BY <1>0 DEF FileIn, Tree, Deep
<1> QED
  BY <1>0, <1>1, <1>2, <1>4, <1>5, <1>6 DEF Room, SpaceSuffices

\* The other steps find nothing to write, or leave the entries for good.
LEMMA RoomKept ==
  ASSUME IInv, Room, UNCHANGED <<archive, disk, stage, others, known, outcome, i, pc>>
  PROVE  Room'
<1>1. Shape
  BY DEF IInv
<1>2. others \in Nat /\ Free' = Free
  BY <1>1, RoomIdle, RoomAssumption DEF Room
<1>3. PICK n \in Nat \ {0} : n = i
  BY <1>1 DEF Shape
<1>4. Rest(1)' = Rest(1) /\ Rest(n)' = Rest(n) /\ Rest(n + 1)' = Rest(n + 1)
  BY <1>1, RoomIdle
<1>5. Rest(i)' = Rest(i) /\ Rest(i + 1)' = Rest(i + 1)
  BY <1>3, <1>4 DEF Rest
<1>6. \A q : FileIn(Tree(q), q)' = FileIn(Tree(q), q)
  BY DEF FileIn, Tree, Deep
<1> QED
  BY <1>2, <1>4, <1>5, <1>6 DEF Room, SpaceSuffices

LEMMA PreflightRoom == IInv /\ Room /\ Sound /\ Preflight => Room'
<1> SUFFICES ASSUME IInv, Room, Sound, Preflight PROVE Room'
  OBVIOUS
<1>1. Shape /\ UNCHANGED <<archive, disk, stage, others, known, i>> /\ pc = "preflight" /\ i = 1
  BY DEF Preflight, IInv, Sound, Reading
<1>2. Free' = Free /\ Rest(1)' = Rest(1)
  BY <1>1, RoomIdle
<1>3. pc' \in {"open", "done", "sweep"} /\ outcome' \in {outcome, "Cancelled", "UnsafePath", "IoError"}
  BY DEF Preflight
<1>4. Rest(i)' = Rest(1)'
  BY <1>1 DEF Rest
<1> QED
  BY <1>1, <1>2, <1>3, <1>4 DEF Room, SpaceSuffices

LEMMA RoomStep == IInv /\ Sound /\ Room /\ MaxOthers <= Margin /\ [Next]_vars => Room'
<1> SUFFICES ASSUME IInv, Sound, Room, MaxOthers <= Margin, [Next]_vars PROVE Room'
  OBVIOUS
<1>1. CASE Extract
  BY <1>1 DEF Extract, Room, SpaceSuffices
<1>2. CASE CancelJob \/ UNCHANGED vars
  BY <1>2, RoomKept DEF CancelJob, vars, attemptVars
<1>3. CASE OpenFails \/ CloseArchive \/ CommitFails
  BY <1>3 DEF OpenFails, CloseArchive, CommitFails, attemptVars, Room, SpaceSuffices
<1>4. CASE CommitBranch \/ Committed \/ Reclaim \/ Sweep
  BY <1>4 DEF CommitBranch, Committed, Reclaim, Sweep, attemptVars, Room, SpaceSuffices
<1>5. CASE PowerCut \/ Restart
  BY <1>5 DEF PowerCut, Restart, attemptVars, Room, SpaceSuffices
<1> QED
  BY <1>1, <1>2, <1>3, <1>4, <1>5, CheckSpaceRoom, PreflightRoom, OpenEntryRoom, WriteBlockRoom, CloseEntryRoom,
     EntryFailsRoom, OthersWriteRoom DEF Next, Step

\* When the volume told its free space and the check let the archive through, no entry runs out of room, whatever is
\* replaced, truncated or written twice, as long as the margin covers what others write meanwhile.
THEOREM RoomSuffices == ASSUME MaxOthers <= Margin PROVE Spec => []SpaceSuffices
<1>1. IInv /\ Sound /\ Room /\ [Next]_vars => (IInv /\ Sound /\ Room)'
  BY StepInv, SoundStep, RoomStep
<1>2. Room => SpaceSuffices
  BY DEF Room
<1> QED
  BY InitInv, InitSound, InitRoom, <1>1, <1>2, PTL DEF Spec
=============================================================================
