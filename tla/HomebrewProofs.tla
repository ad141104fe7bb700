---------------------------- MODULE HomebrewProofs ----------------------------
(***************************************************************************)
(* Theorems of the two components that change what is installed: of        *)
(* VpkInstall, which writes ux0:app/<TITLE_ID>, for any number of          *)
(* installations, faults and power cuts; and of InstalledData, which lists *)
(* the installed titles and erases their game files, for any titles, any   *)
(* roots the catalog names and any number of faults.                       *)
(*                                                                         *)
(* VpkInstall.  The invariant follows installVpk() from one decision to    *)
(* the next: what it knows of the folders at each place is what the copy   *)
(* needs, that is never started over a version the user has.               *)
(*                                                                         *)
(* InstalledData.  SharedKept, IndexKept and OldSizeGone each say what     *)
(* holds at one place of the worker.  What carries them there is what the  *)
(* worker has in hand between two steps: the roots it has checked (Clear), *)
(* the file a save has written (Held, Backed), whose sizes may be old      *)
(* until the scan is over (Dating), and in whose name a directory has been *)
(* emptied (Attributed).                                                   *)
(***************************************************************************)
EXTENDS VpkInstall, InstalledData, TLAPS

(* VpkInstall: the application's folder *)

Partial == [Whole("new") EXCEPT !["eboot"] = "none"]

\* What is staged is of the package being installed; where the promoter or the copy may use it, it is whole.
StagedOK ==
  /\ stage \in {NoTree, Whole("new"), Partial}
  /\ pc \in {"poll", "check", "copy"} => stage \in {NoTree, Whole("new")}
  /\ pc = "promote" \/ promoter = "busy" \/ pc = "copy" => stage = Whole("new")
  /\ promoter = "busy" => pc = "poll"

\* The copy meets no file of an old version; the refresh begins with what it has copied and moves that away.
PlaceOK ==
  /\ pc = "copy" => app["eboot"] # "old"
  /\ pc = "refresh" => IsWhole(app)
  /\ pc \in {"register", "restore"} => app = NoTree /\ IsWhole(temp)

\* What has been decided when the application may have changed.
DecidedOK ==
  /\ pc \in {"extract", "inner", "layout", "promote"} => app = before
  /\ pc = "poll" /\ promoter # "idle" => app = before
  /\ pc \in {"check", "copy", "clean"} => result \in {"Ok", "PromoteFailed"}
  /\ pc \in {"refresh", "register", "restore"} => result = "Ok"
  /\ pc = "check" /\ result = "PromoteFailed" => app = before
  /\ pc = "copy" /\ result = "PromoteFailed" => ~HasTree(before)
  /\ pc = "clean" /\ result = "PromoteFailed" => app = before \/ ~HasTree(before)

TreesOK == app \in Trees /\ temp \in Trees /\ before \in Trees

IInv == TreesOK /\ StagedOK /\ PlaceOK /\ DecidedOK /\ FailureKeepsApp

\* The trees that are named differ, and a tree is NoTree when each of its files is missing.
LEMMA TreeFacts ==
  /\ NoTree \in Trees /\ Whole("new") \in Trees /\ Whole("old") \in Trees /\ Partial \in Trees
  /\ Whole("new")["eboot"] = "new" /\ Whole("old")["eboot"] = "old" /\ Partial["eboot"] = "none"
  /\ ~HasTree(NoTree) /\ HasTree(Whole("new")) /\ IsWhole(Whole("new")) /\ ~IsWhole(NoTree)
  /\ NoTree # Whole("new")
BY DEF NoTree, Whole, Partial, Trees, Parts, Versions, HasTree, IsWhole

LEMMA InitInv == Init => IInv
BY TreeFacts DEF Init, IInv, TreesOK, StagedOK, PlaceOK, DecidedOK, FailureKeepsApp, Trees, NoTree, Whole, Parts,
                 Versions, HasTree, Partial

LEMMA BeginInv == IInv /\ (InstallVpk \/ CancelJob \/ PowerCut \/ Restart) => IInv'
<1> SUFFICES ASSUME IInv, InstallVpk \/ CancelJob \/ PowerCut \/ Restart PROVE IInv'
  OBVIOUS
<1>1. CASE InstallVpk
  BY <1>1, TreeFacts DEF InstallVpk, Fault, IInv, TreesOK, StagedOK, PlaceOK, DecidedOK, FailureKeepsApp
<1>2. CASE CancelJob
  BY <1>2 DEF CancelJob, folders, budget, IInv, TreesOK, StagedOK, PlaceOK, DecidedOK, FailureKeepsApp
<1>3. CASE PowerCut
  BY <1>3 DEF PowerCut, folders, IInv, TreesOK, StagedOK, PlaceOK, DecidedOK, FailureKeepsApp
<1>4. CASE Restart
  BY <1>4, TreeFacts DEF Restart, budget, IInv, TreesOK, StagedOK, PlaceOK, DecidedOK, FailureKeepsApp
<1> QED
  BY <1>1, <1>2, <1>3, <1>4

\* Until the promoter is called nothing but the staging folder changes.
LEMMA StageInv == IInv /\ (Extract \/ Unwrap \/ ExtractInner \/ Prepare) => IInv'
<1> SUFFICES ASSUME IInv, Extract \/ Unwrap \/ ExtractInner \/ Prepare PROVE IInv'
  OBVIOUS
<1>1. UNCHANGED <<app, temp, before, promoter>> /\ pc \in {"extract", "inner", "layout"} /\ app = before
  BY DEF Extract, Unwrap, ExtractInner, Prepare, IInv, DecidedOK
<1>2. CASE Extract
  <2>1. pc' \in {"extract", "layout", "done"} /\ stage' \in {stage, NoTree, Whole("new"), Partial}
    BY <1>2 DEF Extract, GiveUp, Partial
  <2> QED
    BY <1>1, <2>1 DEF IInv, TreesOK, StagedOK, PlaceOK, DecidedOK, FailureKeepsApp
<1>3. CASE Unwrap \/ ExtractInner
  <2>1. pc' \in {"inner", "layout", "done"} /\ stage' \in {NoTree, Whole("new")}
    BY <1>3 DEF Unwrap, ExtractInner, GiveUp
  <2> QED
    BY <1>1, <2>1 DEF IInv, TreesOK, StagedOK, PlaceOK, DecidedOK, FailureKeepsApp
<1>4. CASE Prepare
  <2>1. \/ pc' = "promote" /\ stage' = stage /\ stage["eboot"] # "none"
        \/ pc' = "done" /\ stage' = NoTree
    BY <1>4 DEF Prepare, GiveUp
  <2>2. stage["eboot"] # "none" => stage = Whole("new")
    BY TreeFacts DEF IInv, StagedOK, NoTree, Parts
  <2> QED
    BY <1>1, <2>1, <2>2 DEF IInv, TreesOK, StagedOK, PlaceOK, DecidedOK, FailureKeepsApp
<1> QED
  BY <1>2, <1>3, <1>4

LEMMA PromoteInv == IInv /\ (Promote \/ SystemPromotes \/ PollEnds \/ Check) => IInv'
<1> SUFFICES ASSUME IInv, Promote \/ SystemPromotes \/ PollEnds \/ Check PROVE IInv'
  OBVIOUS
<1>1. CASE Promote
  BY <1>1 DEF Promote, Fault, folders, IInv, TreesOK, StagedOK, PlaceOK, DecidedOK, FailureKeepsApp
<1>2. CASE SystemPromotes
  BY <1>2, TreeFacts DEF SystemPromotes, Fault, IInv, TreesOK, StagedOK, PlaceOK, DecidedOK, FailureKeepsApp
<1>3. CASE PollEnds
  BY <1>3 DEF PollEnds, Fault, folders, IInv, TreesOK, StagedOK, PlaceOK, DecidedOK, FailureKeepsApp
<1>4. CASE Check
  <2>1. UNCHANGED <<app, temp, stage, before, promoter>> /\ pc = "check"
    BY <1>4 DEF Check, folders
  <2>2. \/ pc' = "clean" /\ result' \in {result, "Ok"}
        \/ pc' = "copy" /\ result' = result /\ ~HasTree(app) /\ stage # NoTree
    BY <1>4 DEF Check
  <2>3. ~HasTree(app) => app["eboot"] # "old"
    BY DEF HasTree
  <2> QED
    BY <2>1, <2>2, <2>3 DEF IInv, TreesOK, StagedOK, PlaceOK, DecidedOK, FailureKeepsApp
<1> QED
  BY <1>1, <1>2, <1>3, <1>4

LEMMA CopyInv == IInv /\ (CopyFile \/ CopyEnds) => IInv'
<1> SUFFICES ASSUME IInv, CopyFile \/ CopyEnds PROVE IInv'
  OBVIOUS
<1>1. UNCHANGED <<stage, temp, before, promoter>> /\ pc = "copy" /\ stage = Whole("new")
  BY DEF CopyFile, CopyEnds, folders, IInv, StagedOK
<1>2. CASE CopyFile
  <2>1. CASE app' = app /\ pc' = "clean" /\ result' = result
    BY <1>1, <2>1 DEF IInv, TreesOK, StagedOK, PlaceOK, DecidedOK, FailureKeepsApp
  <2>2. CASE pc' = "copy" /\ result' = result /\
             \E p \in Parts : app' = [app EXCEPT ![p] = IF @ = "torn" THEN stage[p] ELSE "torn"]
    <3>1. PICK p \in Parts : app' = [app EXCEPT ![p] = IF @ = "torn" THEN stage[p] ELSE "torn"]
      BY <2>2
    <3>2. stage[p] = "new"
      BY <1>1 DEF Whole
    <3>3. app' \in Trees /\ app'["eboot"] # "old"
      BY <1>1, <3>1, <3>2 DEF IInv, TreesOK, PlaceOK, Trees, Versions, Parts
    <3> QED
      BY <1>1, <2>2, <3>3 DEF IInv, TreesOK, StagedOK, PlaceOK, DecidedOK, FailureKeepsApp
  <2> QED
    BY <1>2, <2>1, <2>2 DEF CopyFile
<1>3. CASE CopyEnds
  <2>1. \A p \in Parts : stage[p] = "new"
    BY <1>1 DEF Whole
  <2>2. app = Whole("new")
    BY <1>3, <2>1 DEF CopyEnds, IInv, TreesOK, Trees, Whole
  <2>3. app' = app /\ IsWhole(app)
    BY <1>3, <2>2, TreeFacts DEF CopyEnds, folders
  <2> QED
    BY <1>1, <1>3, <2>3 DEF CopyEnds, folders, IInv, TreesOK, StagedOK, PlaceOK, DecidedOK, FailureKeepsApp
<1> QED
  BY <1>2, <1>3

LEMMA RefreshInv == IInv /\ (MoveToTemp \/ Register \/ Restore \/ CleanUp) => IInv'
<1> SUFFICES ASSUME IInv, MoveToTemp \/ Register \/ Restore \/ CleanUp PROVE IInv'
  OBVIOUS
<1>1. CASE MoveToTemp
  BY <1>1, TreeFacts DEF MoveToTemp, Fault, IInv, TreesOK, StagedOK, PlaceOK, DecidedOK, FailureKeepsApp
<1>2. CASE Register
  BY <1>2, TreeFacts DEF Register, Fault, IInv, TreesOK, StagedOK, PlaceOK, DecidedOK, FailureKeepsApp
<1>3. CASE Restore
  BY <1>3, TreeFacts DEF Restore, Fault, IInv, TreesOK, StagedOK, PlaceOK, DecidedOK, FailureKeepsApp
<1>4. CASE CleanUp
  BY <1>4 DEF CleanUp, budget, IInv, TreesOK, StagedOK, PlaceOK, DecidedOK, FailureKeepsApp
<1> QED
  BY <1>1, <1>2, <1>3, <1>4

LEMMA StepInv == IInv /\ [Next]_vars => IInv'
<1> SUFFICES ASSUME IInv, [Next]_vars PROVE IInv'
  OBVIOUS
<1>1. CASE UNCHANGED vars
  BY <1>1 DEF vars, folders, budget, IInv, TreesOK, StagedOK, PlaceOK, DecidedOK, FailureKeepsApp
<1> QED
  BY <1>1, BeginInv, StageInv, PromoteInv, CopyInv, RefreshInv DEF Next, Step

\* One step on a whole application that the refresh has moved: it stays there, or one is in ux0:app.
LEMMA StepKeepsMoved == IInv /\ [Next]_vars => (IsWhole(temp) => IsWhole(temp') \/ IsWhole(app'))
<1> SUFFICES ASSUME IInv, [Next]_vars, IsWhole(temp) PROVE temp' = temp \/ IsWhole(temp') \/ IsWhole(app')
  OBVIOUS
<1>1. CASE MoveToTemp
  BY <1>1 DEF MoveToTemp, IInv, PlaceOK
<1>2. CASE Register \/ Restore
  BY <1>2 DEF Register, Restore
<1>3. CASE InstallVpk \/ CancelJob \/ PowerCut \/ Restart \/ UNCHANGED vars
  BY <1>3 DEF InstallVpk, CancelJob, PowerCut, Restart, vars, folders
<1>4. CASE Extract \/ Unwrap \/ ExtractInner \/ Prepare \/ Promote \/ SystemPromotes \/ PollEnds
  BY <1>4 DEF Extract, Unwrap, ExtractInner, Prepare, Promote, SystemPromotes, PollEnds, folders
<1>5. CASE Check \/ CopyFile \/ CopyEnds \/ CleanUp
  BY <1>5 DEF Check, CopyFile, CopyEnds, CleanUp, folders
<1> QED
  BY <1>1, <1>2, <1>3, <1>4, <1>5 DEF Next, Step

\* One step on a whole application: it stays whole, or is moved whole to ux0:temp/app.
LEMMA StepKeepsWhole == IInv /\ [Next]_vars => (IsWhole(app) => IsWhole(app') \/ temp' = app)
<1> SUFFICES ASSUME IInv, [Next]_vars, IsWhole(app) PROVE app' = app \/ IsWhole(app') \/ temp' = app
  BY DEF IsWhole
<1>1. CASE SystemPromotes
  BY <1>1, TreeFacts DEF SystemPromotes, IInv, StagedOK
<1>2. CASE CopyFile
  <2>1. app["eboot"] # "old" /\ stage = Whole("new")
    BY <1>2 DEF CopyFile, IInv, PlaceOK, StagedOK
  <2>2. app = Whole("new")
    BY <2>1, TreeFacts DEF IsWhole
  <2> QED
    BY <1>2, <2>1, <2>2 DEF CopyFile
<1>3. CASE MoveToTemp
  BY <1>3 DEF MoveToTemp
<1>4. CASE Register \/ Restore
  BY <1>4, TreeFacts DEF Register, Restore, IInv, PlaceOK
<1>5. CASE InstallVpk \/ CancelJob \/ PowerCut \/ Restart \/ UNCHANGED vars
  BY <1>5 DEF InstallVpk, CancelJob, PowerCut, Restart, vars, folders
<1>6. CASE Extract \/ Unwrap \/ ExtractInner \/ Prepare \/ Promote \/ PollEnds \/ Check \/ CopyEnds \/ CleanUp
  BY <1>6 DEF Extract, Unwrap, ExtractInner, Prepare, Promote, PollEnds, Check, CopyEnds, CleanUp, folders
<1> QED
  BY <1>1, <1>2, <1>3, <1>4, <1>5, <1>6 DEF Next, Step

\* A whole application stays whole through failures of the promoter, cancels and power cuts; only the refresh moves
\* it, whole, to ux0:temp/app, and there it stays until a whole one is in ux0:app.
THEOREM WholeStays == Spec => WholeAppStays
<1> QED
  BY InitInv, StepInv, StepKeepsWhole, StepKeepsMoved, PTL DEF Spec, WholeAppStays

\* A failed or cancelled installation leaves the application as it was, or only a part where there was none.
THEOREM FailureKeeps == Spec => []FailureKeepsApp
<1>1. IInv => FailureKeepsApp
  BY DEF IInv
<1> QED
  BY InitInv, StepInv, <1>1, PTL DEF Spec

-----------------------------------------------------------------------------
(* InstalledData: steps and types *)

Saving == {"save", "dropBak", "moveOld", "moveNew", "cleanBak"}

\* The fields the invariants speak of; an update leaves the others alone.
JobShape(j) == {"action", "title", "left", "rows", "next", "found"} \subseteq DOMAIN j
MenuShape(m) == "visible" \in DOMAIN m
AppsShape(s) == DOMAIN s = Titles /\ \A t \in Titles : {"pkg", "at"} \subseteq DOMAIN s[t]

Directories == [Dirs -> [there : BOOLEAN, files : Nat, stamp : Nat]]
TypeInv ==
    /\ installed \subseteq Titles
    /\ tree \in Directories
    /\ JobShape(job) /\ job.next \in {"none", "erase", "done", "merging"}
    /\ doing \in Saving => job.next # "none"
    /\ AppsShape(snap) /\ AppsShape(job.found)
    /\ MenuShape(menu) /\ (menu.visible \/ doing = "none")
    /\ era \in Nat /\ hit \in [Titles -> Nat] /\ taken \in [Dirs -> Nat] /\ trouble \in Nat
    /\ slipped \in BOOLEAN /\ saved \in BOOLEAN

-----------------------------------------------------------------------------
(* Records updated field by field *)

Fresh(j) == JobShape(j) /\ j.left = {} /\ j.rows = {} /\ j.next = "none" /\ j.found = NoApps

LEMMA NoAppsShape == AppsShape(NoApps)
BY DEF AppsShape, NoApps

LEMMA NoJobFresh == Fresh(NoJob) /\ \A a, t : Fresh([NoJob EXCEPT !.action = a, !.title = t])
BY DEF Fresh, JobShape, NoJob

LEMMA OutcomeFresh == Fresh(Outcome)
BY NoJobFresh DEF Fresh, JobShape, Outcome

LEMMA ShutShape == MenuShape(Shut) /\ ~Shut.visible
BY DEF MenuShape, Shut

\* What the user and the UI thread can do to the worker: nothing, ask it to stop,
\* take what it has found, or start it on something else.
Merged == [snap EXCEPT ![job.title] = job.found[job.title]]
MenuStep ==
    /\ UNCHANGED <<disk, index, bak, history>>
    /\ MenuShape(menu') /\ (menu'.visible \/ doing' = "none")
    /\ trouble' \in {trouble, trouble + 1}
    /\ \/ /\ doing' = doing /\ snap' = snap /\ tmp' = tmp
          /\ job' = job \/ job' = [job EXCEPT !.cancel = TRUE]
       \/ /\ doing' \in {"none", "prepare", "uninstall", "scan"} /\ Fresh(job')
          /\ \/ snap' = NoApps /\ (doing \in {"none", "done"} \/ trouble' = trouble + 1)
             \/ doing = "none" /\ snap' = snap
             \/ doing = "done" /\ job.action # "auto" /\ snap' = snap
             \/ doing = "done" /\ job.action = "auto" /\ snap' = Merged

LEMMA Started ==
    ASSUME NEW a, NEW t, StartOperation(a, t)
    PROVE  /\ doing' \in {"none", "prepare", "uninstall", "scan"} /\ Fresh(job')
           /\ trouble' \in {trouble, trouble + 1}
<1>1. Entrance(a) \in {"prepare", "uninstall", "scan"}
    <2>1. CASE a \in WithData
        BY <2>1 DEF Entrance, WithData
    <2>2. CASE a \notin WithData /\ a = "app"
        BY <2>2 DEF Entrance, WithData
    <2>3. CASE a \notin WithData /\ a # "app"
        BY <2>3 DEF Entrance
    <2> QED BY <2>1, <2>2, <2>3
<1>2. Fresh(NoJob) /\ Fresh([NoJob EXCEPT !.action = a, !.title = t])
    BY NoJobFresh
<1> QED BY <1>1, <1>2 DEF StartOperation, Smooth, Trouble

LEMMA StartedNext ==
    ASSUME NEW m, NEW s, NEW r, StartNext(m, s, r), MenuShape(m), m.visible
    PROVE  /\ doing' \in {"none", "prepare", "uninstall", "scan"} /\ Fresh(job')
           /\ trouble' \in {trouble, trouble + 1}
           /\ MenuShape(menu') /\ menu'.visible
<1>1. CASE menu' = m /\ doing' = "none" /\ job' = NoJob /\ Smooth
    BY <1>1, NoJobFresh DEF Smooth
<1>2. CASE \E t \in Unmeasured(m, s, r) :
              menu' = [m EXCEPT !.tried = @ \union {t}] /\ StartOperation("auto", t)
    BY <1>2, Started DEF MenuShape
<1> QED BY <1>1, <1>2 DEF StartNext

LEMMA Closed ==
    ASSUME CloseMenu, MenuShape(menu), menu.visible
    PROVE  /\ MenuShape(menu') /\ (menu'.visible \/ doing = "none")
           /\ \/ doing = "none" /\ Fresh(job') /\ snap' = NoApps
              \/ job' = [job EXCEPT !.cancel = TRUE] /\ snap' = snap
<1>1. CASE doing = "none"
    BY <1>1, ShutShape, NoJobFresh DEF CloseMenu
<1>2. CASE doing # "none"
    BY <1>2 DEF CloseMenu, MenuShape
<1> QED BY <1>1, <1>2

LEMMA MenuSteps ==
    ASSUME TypeInv, Poll \/ User \/ DataPowerCut
    PROVE  MenuStep
<1> USE DEF Smooth, Trouble
<1>0. MenuShape(menu) /\ (menu.visible \/ doing = "none")
    BY DEF TypeInv
<1>1. CASE OpenMenu
    <2> PICK t \in Titles \union {NoTitle} :
            /\ menu' = [Shut EXCEPT !.visible = TRUE, !.auto = (t = NoTitle), !.detail = (t # NoTitle),
                                    !.target = t, !.preferred = t]
            /\ StartOperation("open", t)
        BY <1>1 DEF OpenMenu
    <2>1. MenuShape(menu') /\ menu'.visible
        BY DEF Shut, MenuShape
    <2> QED BY <1>0, <1>1, <2>1, Started DEF OpenMenu, MenuStep, cache
<1>2. CASE Back
    <2>1. CASE menu.detail /\ menu.preferred = NoTitle /\ doing = "none"
        <3>1. LET m == [menu EXCEPT !.detail = FALSE] IN
              StartNext(m, snap, rows) /\ MenuShape(m) /\ m.visible
            BY <1>0, <1>2, <2>1 DEF Back, Navigable, MenuShape
        <3> QED BY <1>2, <2>1, <3>1, StartedNext DEF Back, MenuStep, cache
    <2>2. CASE menu.detail /\ menu.preferred = NoTitle /\ doing # "none"
        <3>1. MenuShape(menu') /\ menu'.visible
            BY <1>0, <1>2, <2>2 DEF Back, Navigable, MenuShape
        <3> QED BY <1>2, <2>2, <3>1 DEF Back, MenuStep, cache
    <2>3. CASE ~(menu.detail /\ menu.preferred = NoTitle)
        <3>1. CloseMenu /\ menu.visible
            BY <1>2, <2>3 DEF Back, Navigable
        <3> QED BY <1>0, <1>2, <2>3, <3>1, Closed DEF Back, MenuStep, cache
    <2> QED BY <2>1, <2>2, <2>3
<1>3. CASE CancelScan
    BY <1>0, <1>3 DEF CancelScan, MenuStep, cache, ui
<1>4. CASE Select \/ Ask \/ Decline
    <2>1. MenuShape(menu') /\ menu'.visible
        BY <1>0, <1>4 DEF Select, Ask, Decline, Navigable, MenuShape
    <2> QED BY <1>4, <2>1 DEF Select, Ask, Decline, MenuStep, cache
<1>5. CASE Confirm
    <2>1. MenuShape(menu') /\ menu'.visible
        BY <1>0, <1>5 DEF Confirm, Navigable, MenuShape
    <2> QED BY <1>5, <2>1, Started DEF Confirm, MenuStep, cache
<1>6. CASE MeasureAgain
    BY <1>0, <1>6, Started DEF MeasureAgain, Navigable, MenuStep, cache, ui
<1>7. CASE FinishResult
    <2>1. CASE menu.preferred # NoTitle
        BY <1>0, <1>7, <2>1, Closed DEF FinishResult, Navigable, MenuStep, cache
    <2>2. CASE menu.preferred = NoTitle
        <3> DEFINE m == [menu EXCEPT !.result = FALSE, !.confirm = FALSE, !.detail = FALSE, !.target = NoTitle]
        <3>1. MenuShape(m) /\ m.visible
            BY <1>0, <1>7 DEF FinishResult, Navigable, MenuShape
        <3>2. StartNext(m, snap, Visible(snap, m)) /\ UNCHANGED snap
            BY <1>7, <2>2 DEF FinishResult
        <3> HIDE DEF m
        <3> QED BY <1>7, <3>1, <3>2, StartedNext DEF FinishResult, MenuStep, cache
    <2> QED BY <2>1, <2>2
<1>8. CASE Poll
    <2>1. CASE PollAuto /\ menu.closing
        BY <1>8, <2>1, ShutShape, NoJobFresh DEF Poll, PollAuto, MenuStep, cache
    <2>2. CASE PollAuto /\ ~menu.closing
        <3>1. StartNext(menu, Merged, rows) /\ snap' = Merged /\ job.action = "auto"
            BY <2>2 DEF PollAuto, Merged
        <3> QED BY <1>0, <1>8, <3>1, StartedNext DEF Poll, MenuStep, cache
    <2>3. CASE PollOther
        <3> DEFINE m == [menu EXCEPT !.confirm = FALSE, !.result = menu.result \/ job.action \in Removal]
        <3>1. MenuShape(m) /\ m.visible
            BY <1>0, <1>8 DEF Poll, MenuShape
        <3>2. CASE job.action = "open"
            <4>1. StartNext(m, snap, Visible(snap, m)) /\ UNCHANGED snap
                BY <2>3, <3>2 DEF PollOther
            <4> HIDE DEF m
            <4> QED BY <1>8, <3>1, <3>2, <4>1, StartedNext DEF Poll, MenuStep, cache
        <3>3. CASE job.action # "open"
            <4>1. menu' = m /\ doing' = "none" /\ Smooth /\ job' \in {Outcome, NoJob} /\ UNCHANGED snap
                BY <2>3, <3>3 DEF PollOther
            <4> HIDE DEF m
            <4> QED BY <1>8, <2>3, <3>1, <4>1, NoJobFresh, OutcomeFresh DEF Poll, PollOther, MenuStep, cache
        <3> QED BY <3>2, <3>3
    <2> QED BY <1>8, <2>1, <2>2, <2>3 DEF Poll
<1>9. CASE DataPowerCut
    BY <1>9, ShutShape, NoJobFresh DEF DataPowerCut, MenuStep
<1> QED BY <1>1, <1>2, <1>3, <1>4, <1>5, <1>6, <1>7, <1>8, <1>9 DEF User

-----------------------------------------------------------------------------
(* Types *)

\* What removing an entry does to the directories: nothing but at that entry, and
\* to the stamps.
LEMMA TreeStep ==
    ASSUME tree \in Directories, NEW d \in Dirs, NEW ds
    PROVE  /\ Touched(ds) \in Directories
           /\ \A e \in Dirs : Touched(ds)[e].files = tree[e].files /\ Touched(ds)[e].there = tree[e].there
           /\ [Touched(ds) EXCEPT ![d].there = FALSE] \in Directories
           /\ [Touched(ds) EXCEPT ![d].files = @ + 1] \in Directories
           /\ tree[d].files > 0 => [Touched(ds) EXCEPT ![d].files = @ - 1] \in Directories
<1>1. /\ Touched(ds) \in Directories
      /\ \A e \in Dirs : Touched(ds)[e].files = tree[e].files /\ Touched(ds)[e].there = tree[e].there
    BY DEF Touched, Directories
<1>2. ASSUME NEW T \in Directories
      PROVE  /\ [T EXCEPT ![d].there = FALSE] \in Directories
             /\ [T EXCEPT ![d].files = @ + 1] \in Directories
             /\ T[d].files > 0 => [T EXCEPT ![d].files = @ - 1] \in Directories
    <2>1. \A n \in Nat : [T EXCEPT ![d].there = FALSE] \in Directories /\ [T EXCEPT ![d].files = n] \in Directories
        BY DEF Directories
    <2>2. T[d].files \in Nat /\ T[d].files + 1 \in Nat /\ (T[d].files > 0 => T[d].files - 1 \in Nat)
        BY DEF Directories
    <2> QED BY <2>1, <2>2
<1> QED BY <1>1, <1>2

LEMMA InitTypes == DataInit => TypeInv
<1> SUFFICES ASSUME DataInit PROVE TypeInv
    OBVIOUS
<1>1. tree \in Directories
    BY CatalogAssumption DEF DataInit, Filled, Entry, Bare, Directories
<1> QED BY <1>1, NoAppsShape, NoJobFresh, ShutShape DEF DataInit, TypeInv, Fresh, Saving

LEMMA MenuTypes == TypeInv /\ MenuStep => TypeInv'
<1> SUFFICES ASSUME TypeInv, MenuStep PROVE TypeInv'
    OBVIOUS
<1>1. /\ installed' \subseteq Titles /\ tree' \in Directories
      /\ era' \in Nat /\ hit' \in [Titles -> Nat] /\ taken' \in [Dirs -> Nat] /\ trouble' \in Nat
      /\ slipped' \in BOOLEAN /\ saved' \in BOOLEAN
    BY DEF TypeInv, MenuStep, disk, history
<1>2. /\ JobShape(job') /\ job'.next \in {"none", "erase", "done", "merging"}
      /\ doing' \in Saving => job'.next # "none"
      /\ AppsShape(job'.found)
    BY NoAppsShape DEF TypeInv, MenuStep, Fresh, Saving, JobShape
<1>3. AppsShape(snap')
    BY NoAppsShape DEF TypeInv, MenuStep, Merged, AppsShape
<1> QED BY <1>1, <1>2, <1>3 DEF TypeInv, MenuStep

LEMMA SaveTypes == TypeInv /\ Save => TypeInv'
<1> SUFFICES ASSUME TypeInv, Save PROVE TypeInv'
    OBVIOUS
<1>1. UNCHANGED <<installed, tree, menu, snap, era, hit, taken>>
    BY DEF Save, SaveStart, SaveDropBak, SaveMoveOld, SaveMoveNew, SaveCleanBak, disk, ui, history
<1>2. menu.visible
    BY DEF TypeInv, Save, SaveStart, SaveDropBak, SaveMoveOld, SaveMoveNew, SaveCleanBak
<1>3. trouble' \in Nat /\ slipped' \in BOOLEAN /\ saved' \in BOOLEAN
    <2>1. Smooth \/ Trouble => trouble' \in Nat
        BY DEF TypeInv, Smooth, Trouble
    <2> QED BY <2>1 DEF TypeInv, Save, SaveStart, SaveDropBak, SaveMoveOld, SaveMoveNew, SaveCleanBak, SaveFails, history
<1>4. /\ doing \in Saving /\ job'.next # "none" /\ JobShape(job') /\ job'.next = job.next
      /\ job'.found = job.found
    BY DEF TypeInv, JobShape, Save, SaveStart, SaveDropBak, SaveMoveOld, SaveMoveNew, SaveCleanBak, SaveFails,
           SaveEnds, Saving
<1> QED BY <1>1, <1>2, <1>3, <1>4 DEF TypeInv

LEMMA EraseTypes ==
    TypeInv /\ Erase => tree' \in Directories /\ hit' \in [Titles -> Nat] /\ taken' \in [Dirs -> Nat]
<1> SUFFICES ASSUME TypeInv, Erase
             PROVE  tree' \in Directories /\ hit' \in [Titles -> Nat] /\ taken' \in [Dirs -> Nat]
    OBVIOUS
<1>0. /\ tree \in Directories /\ Under(Root) \subseteq Dirs
      /\ era \in Nat /\ hit \in [Titles -> Nat] /\ taken \in [Dirs -> Nat]
    BY DEF TypeInv, Under
<1>1. ASSUME NEW d \in Under(Root), tree' = [Touched({d}) EXCEPT ![d].files = @ - 1], tree[d].files > 0
      PROVE  tree' \in Directories
    BY <1>0, <1>1, TreeStep
<1>2. ASSUME NEW d \in Under(Root), tree' = [Touched(Parents(d)) EXCEPT ![d].there = FALSE]
      PROVE  tree' \in Directories
    BY <1>0, <1>2, TreeStep
<1>3. CASE UNCHANGED <<tree, hit, taken>>
    BY <1>0, <1>3
<1>4. ASSUME NEW d, TakeFrom(d) PROVE hit' \in [Titles -> Nat] /\ taken' \in [Dirs -> Nat]
    BY <1>0, <1>4 DEF TakeFrom
<1> QED BY <1>0, <1>1, <1>2, <1>3, <1>4 DEF Erase, EraseStep

LEMMA WorkerTypes ==
    ASSUME TypeInv, UNCHANGED menu,
           PrepareRemoval \/ Uninstall \/ Forget \/ RemoveExternal \/ Erase \/ Revise \/ Scan \/ Merging
    PROVE  TypeInv'
<1>0. menu.visible
    BY DEF TypeInv, PrepareRemoval, Uninstall, Forget, RemoveExternal, Erase, Revise, Scan, Merging
<1>1. trouble' \in Nat
    <2>1. Smooth \/ Trouble => trouble' \in Nat
        BY DEF TypeInv, Smooth, Trouble
    <2> QED BY <2>1 DEF PrepareRemoval, Uninstall, Forget, RemoveExternal, Erase, EraseStep, Revise, Scan, Merging
<1>2. CASE PrepareRemoval \/ Uninstall \/ Revise
    BY <1>0, <1>1, <1>2 DEF TypeInv, PrepareRemoval, Uninstall, Revise, JobShape, Saving, disk, history
<1>3. CASE Forget
    <2>1. AppsShape(snap')
        BY <1>3 DEF TypeInv, Forget, AppsShape
    <2> QED BY <1>0, <1>1, <1>3, <2>1 DEF TypeInv, Forget, Saving, history
<1>4. CASE RemoveExternal
    <2>1. CASE Removable(job.title)
        <3>1. /\ JobShape(job') /\ job'.next = "erase" /\ job'.found = job.found
              /\ era' = era + 1
            BY <1>4, <2>1 DEF TypeInv, RemoveExternal, Invalidated, JobShape
        <3> QED BY <1>0, <1>1, <1>4, <3>1 DEF TypeInv, RemoveExternal, disk
    <2>2. CASE ~Removable(job.title)
        BY <1>0, <1>1, <1>4, <2>2 DEF TypeInv, RemoveExternal, Saving, disk
    <2> QED BY <2>1, <2>2
<1>5. CASE Erase
    <2>1. JobShape(job') /\ job'.next = job.next /\ job'.found = job.found
        BY <1>5 DEF TypeInv, Erase, EraseStep, JobShape
    <2>2. doing' \notin Saving
        BY <1>5 DEF Erase, Saving
    <2> QED BY <1>0, <1>1, <1>5, <2>1, <2>2, EraseTypes DEF TypeInv, Erase
<1>6. CASE Scan
    <2> PICK stopped, how :
            job' = [job EXCEPT !.found = Found(how), !.next = AfterScan,
                               !.rows = IF stopped THEN {} ELSE Kept(how, Found(how))]
        BY <1>6 DEF Scan
    <2>1. /\ JobShape(job') /\ job'.next \in {"done", "merging"}
          /\ job'.found = Found(how)
        BY DEF TypeInv, JobShape, AfterScan
    <2>2. AppsShape(Found(how))
        BY DEF AppsShape, Found
    <2> QED BY <1>0, <1>1, <1>6, <2>1, <2>2 DEF TypeInv, Scan, disk, history
<1>7. CASE Merging
    <2>1. AppsShape(snap')
        BY <1>7 DEF TypeInv, Merging, AppsShape
    <2>2. JobShape(job') /\ job'.next = job.next /\ job'.found = NoApps
        BY <1>7 DEF TypeInv, Merging, JobShape
    <2> QED BY <1>0, <1>1, <1>7, <2>1, <2>2, NoAppsShape DEF TypeInv, Merging, Saving, disk, history
<1> QED BY <1>2, <1>3, <1>4, <1>5, <1>6, <1>7

LEMMA TypeStep == TypeInv /\ [DataNext]_dataVars => TypeInv'
<1> SUFFICES ASSUME TypeInv, [DataNext]_dataVars PROVE TypeInv'
    OBVIOUS
<1>1. CASE Save
    BY <1>1, SaveTypes
<1>2. CASE Worker /\ ~Save
    BY <1>2, WorkerTypes DEF Worker
<1>3. CASE Poll \/ User \/ DataPowerCut
    BY <1>3, MenuSteps, MenuTypes
<1>4. CASE Play
    <2> PICK d \in Dirs : tree' = [Touched({d}) EXCEPT ![d].files = @ + 1]
        BY <1>4 DEF Play
    <2>1. tree' \in Directories
        BY TreeStep DEF TypeInv
    <2> QED BY <1>4, <2>1 DEF TypeInv, Play, ui, history
<1>5. CASE StartClient
    BY <1>5 DEF TypeInv, StartClient, disk, history
<1>6. CASE UNCHANGED dataVars
    BY <1>6 DEF TypeInv, dataVars, disk, ui, history
<1> QED BY <1>1, <1>2, <1>3, <1>4, <1>5, <1>6 DEF DataNext, World

-----------------------------------------------------------------------------
(* What one step leaves alone *)

LEMMA SaveFrame ==
    ASSUME TypeInv, Save
    PROVE  /\ UNCHANGED <<installed, tree, snap, menu, era, hit, taken>>
           /\ doing \in Saving /\ doing' \in Saving \union {job.next}
           /\ job'.title = job.title /\ job'.left = job.left /\ job'.next = job.next /\ job'.found = job.found
           /\ job'.action = job.action
           /\ doing' \in Saving => job'.rows = job.rows
<1>1. UNCHANGED <<installed, tree, snap, menu, era, hit, taken>>
    BY DEF Save, SaveStart, SaveDropBak, SaveMoveOld, SaveMoveNew, SaveCleanBak, disk, ui, history
<1>2. doing \in Saving /\ doing' \in Saving \union {job.next}
    BY DEF Save, SaveStart, SaveDropBak, SaveMoveOld, SaveMoveNew, SaveCleanBak, SaveFails, SaveEnds, Saving
<1>3. job' = job \/ (job' = [job EXCEPT !.rows = {}] /\ doing' = job.next)
    BY DEF Save, SaveStart, SaveDropBak, SaveMoveOld, SaveMoveNew, SaveCleanBak, SaveFails, SaveEnds
<1>4. job.next \notin Saving
    BY DEF TypeInv, Saving
<1> QED BY <1>1, <1>2, <1>3, <1>4 DEF TypeInv, JobShape

LEMMA WorkerFrame ==
    ASSUME PrepareRemoval \/ Uninstall \/ Forget \/ RemoveExternal \/ Erase \/ Revise \/ Scan \/ Merging
    PROVE  UNCHANGED <<index, bak, tmp, saved, slipped>> /\ doing \notin Saving /\ ~Replacing'
<1>1. AfterScan \in {"done", "merging"}
    BY DEF AfterScan
<1> QED BY <1>1 DEF PrepareRemoval, Uninstall, Forget, RemoveExternal, Invalidated, Erase, Revise, Scan, Merging,
                    cache, history, Saving, Replacing

LEMMA TroubleGrows == ASSUME TypeInv, [DataNext]_dataVars PROVE trouble' \in {trouble, trouble + 1}
<1>1. Smooth \/ Trouble => trouble' \in {trouble, trouble + 1}
    BY DEF Smooth, Trouble
<1>2. CASE Save
    BY <1>1, <1>2 DEF Save, SaveStart, SaveDropBak, SaveMoveOld, SaveMoveNew, SaveCleanBak
<1>3. CASE Worker /\ ~Save
    BY <1>1, <1>3 DEF Worker, PrepareRemoval, Uninstall, Forget, RemoveExternal, Erase, EraseStep, Revise, Scan, Merging
<1>4. CASE Poll \/ User \/ DataPowerCut
    BY <1>4, MenuSteps DEF MenuStep
<1>5. CASE Play \/ StartClient \/ UNCHANGED dataVars
    BY <1>5 DEF Play, StartClient, dataVars
<1> QED BY <1>2, <1>3, <1>4, <1>5 DEF DataNext, World

-----------------------------------------------------------------------------
(* Nobody else keeps his data where the worker erases *)

\* From removeExternal's check to the last entry, the save in between included:
\* no other installed title names a root that overlaps one that is still to go.
Clear ==
    doing = "erase" \/ (doing \in Saving /\ job.next = "erase") =>
        \A r \in job.left : \A u \in installed \ {job.title} : \A e \in Roots(u) : ~Overlap(r, e)

LEMMA ClearStep == TypeInv /\ Clear /\ [DataNext]_dataVars => Clear'
<1> SUFFICES ASSUME TypeInv, Clear, [DataNext]_dataVars PROVE Clear'
    OBVIOUS
<1> USE DEF Roots, Overlap
<1>1. CASE Save
    BY <1>1, SaveFrame DEF Clear, Saving
<1>2. CASE RemoveExternal
    <2>1. CASE Removable(job.title)
        <3>1. job'.left = Listed(job.title) /\ job'.title = job.title /\ installed' = installed
            BY <1>2, <2>1 DEF TypeInv, RemoveExternal, Invalidated, JobShape, disk
        <3>2. \A u \in installed \ {job.title} : \A r \in Listed(job.title), e \in Roots(u) : ~Overlap(r, e)
            BY <2>1 DEF Removable, InUse
        <3>3. \A r \in job'.left : \A u \in installed' \ {job'.title} : \A e \in Roots(u) : ~Overlap(r, e)
            BY <3>1, <3>2
        <3> QED BY <3>3 DEF Clear
    <2>2. CASE ~Removable(job.title)
        BY <1>2, <2>2 DEF RemoveExternal, Clear, Saving
    <2> QED BY <2>1, <2>2
<1>3. CASE Erase
    <2>1. job'.left \subseteq job.left /\ job'.title = job.title /\ installed' = installed
        BY <1>3 DEF TypeInv, Erase, EraseStep, JobShape
    <2> QED BY <1>3, <2>1 DEF Clear, Erase, Saving
<1>4. CASE Scan
    <2>1. job'.next \in {"done", "merging"} /\ doing' # "erase"
        BY <1>4 DEF TypeInv, Scan, JobShape, AfterScan
    <2> QED BY <2>1 DEF Clear
<1>5. CASE PrepareRemoval \/ Uninstall \/ Forget \/ Revise \/ Merging
    BY <1>5 DEF PrepareRemoval, Uninstall, Forget, Revise, Merging, Clear, Saving
<1>6. CASE Poll \/ User \/ DataPowerCut
    BY <1>6, MenuSteps DEF TypeInv, MenuStep, Clear, disk, Saving, JobShape
<1>7. CASE Play \/ StartClient \/ UNCHANGED dataVars
    BY <1>7 DEF Play, StartClient, dataVars, disk, ui, Clear
<1> QED BY <1>1, <1>2, <1>3, <1>4, <1>5, <1>6, <1>7 DEF DataNext, World, Worker

\* What a step of the erasing takes lies under a root that was checked.
LEMMA ErasedIsUnder ==
    ASSUME TypeInv, [DataNext]_dataVars, doing = "erase", tree' # tree
    PROVE  /\ job.left # {}
           /\ \E d \in Under(Root) : \A e \in Dirs \ {d} :
                 tree'[e].files = tree[e].files /\ tree'[e].there = tree[e].there
<1>1. Erase
    <2>1. ~Save
        BY SaveFrame DEF Saving
    <2>2. ~(PrepareRemoval \/ Uninstall \/ Forget \/ RemoveExternal \/ Revise \/ Scan \/ Merging)
        BY DEF PrepareRemoval, Uninstall, Forget, RemoveExternal, Revise, Scan, Merging
    <2>3. ~(Poll \/ User \/ DataPowerCut)
        BY MenuSteps DEF MenuStep, disk
    <2>4. ~(Play \/ StartClient \/ UNCHANGED dataVars)
        BY DEF Play, Idle, StartClient, dataVars, disk
    <2> QED BY <2>1, <2>2, <2>3, <2>4 DEF DataNext, World, Worker
<1>2. job.left # {} /\ EraseStep
    BY <1>1 DEF Erase
<1>3. tree \in Directories /\ Under(Root) \subseteq Dirs
    BY DEF TypeInv, Under
<1>4. CASE \E d \in Under(Root) : tree' = [Touched({d}) EXCEPT ![d].files = @ - 1]
    <2> PICK d \in Under(Root) : tree' = [Touched({d}) EXCEPT ![d].files = @ - 1]
        BY <1>4
    <2>1. \A e \in Dirs : /\ Touched({d})[e].files = tree[e].files
                          /\ Touched({d})[e].there = tree[e].there
        BY <1>3, TreeStep
    <2>2. \A e \in Dirs \ {d} : tree'[e] = Touched({d})[e]
        BY <1>3, TreeStep DEF Directories
    <2> QED BY <1>2, <2>1, <2>2
<1>5. CASE \E d \in Under(Root) : tree' = [Touched(Parents(d)) EXCEPT ![d].there = FALSE]
    <2> PICK d \in Under(Root) : tree' = [Touched(Parents(d)) EXCEPT ![d].there = FALSE]
        BY <1>5
    <2>1. \A e \in Dirs : /\ Touched(Parents(d))[e].files = tree[e].files
                          /\ Touched(Parents(d))[e].there = tree[e].there
        BY <1>3, TreeStep
    <2>2. \A e \in Dirs \ {d} : tree'[e] = Touched(Parents(d))[e]
        BY <1>3, TreeStep DEF Directories
    <2> QED BY <1>2, <2>1, <2>2
<1> QED BY <1>2, <1>4, <1>5 DEF EraseStep

LEMMA SharedKeptStep ==
    ASSUME TypeInv, Clear, [DataNext]_dataVars, doing = "erase", tree' # tree,
           NEW u \in installed \ {job.title}, NEW d \in Roots(u), NEW e \in Under(d)
    PROVE  tree'[e].files = tree[e].files /\ tree'[e].there = tree[e].there
<1>1. PICK g \in Under(Root) : \A f \in Dirs \ {g} :
          tree'[f].files = tree[f].files /\ tree'[f].there = tree[f].there
    BY ErasedIsUnder
<1>2. Root \in job.left
    BY ErasedIsUnder DEF Root
<1>3. ~Overlap(Root, d)
    BY <1>2 DEF Clear
<1>4. e \in Dirs /\ e # g
    <2>1. CASE g \in Under(d)
        <3>1. g \in Dirs /\ (<<g, Root>> \in Inside => Root \in Dirs) /\ (<<g, d>> \in Inside => d \in Dirs)
            BY CatalogAssumption DEF Under
        <3> QED BY <1>3, <2>1, <3>1, PathAssumption DEF Under, Overlap
    <2>2. CASE g \notin Under(d)
        BY <2>2 DEF Under
    <2> QED BY <2>1, <2>2
<1> QED BY <1>1, <1>4

-----------------------------------------------------------------------------
(* What a save has in hand *)

Sound(f) == f = NoFile \/ f = WholeFile(f.rows)

\* Nothing but a whole index is ever moved: what is written is what the save was
\* asked to write, and what it has left in place when it clears up.
Held ==
    /\ Sound(index) /\ Sound(bak)
    /\ doing \in {"dropBak", "moveOld", "moveNew"} => tmp = WholeFile(job.rows)
    /\ doing = "cleanBak" => index = WholeFile(job.rows)

\* As long as nothing has failed the index itself is there, but for the moment
\* between its two moves.
Backed ==
    /\ saved /\ trouble = 0 => Complete /\ (doing # "moveNew" => index # NoFile)
    /\ IndexKept

LEMMA FileFacts ==
    /\ \A rs : WholeFile(rs) # NoFile /\ WholeFile(rs).kind = "whole" /\ WholeFile(rs).rows = rs /\ Sound(WholeFile(rs))
    /\ Sound(NoFile) /\ NoFile.kind # "whole" /\ NoFile.rows = {}
    /\ \A f : Sound(f) /\ f # NoFile => f.kind = "whole"
    /\ \A f : Sound(f) /\ f.kind = "whole" => f # NoFile
BY DEF WholeFile, NoFile, File, Sound

LEMMA HeldStep == TypeInv /\ Held /\ [DataNext]_dataVars => Held'
<1> SUFFICES ASSUME TypeInv, Held, [DataNext]_dataVars PROVE Held'
    OBVIOUS
<1>1. CASE Save
    <2>0. job.next \notin {"dropBak", "moveOld", "moveNew", "cleanBak"}
        BY DEF TypeInv
    <2>1. CASE SaveStart
        BY <2>0, <2>1 DEF Held, SaveStart, SaveFails, SaveEnds, Sound
    <2>2. CASE SaveDropBak
        BY <2>2, FileFacts DEF Held, SaveDropBak, Sound
    <2>3. CASE SaveMoveOld
        BY <2>3, FileFacts DEF Held, SaveMoveOld, Sound
    <2>4. CASE SaveMoveNew
        BY <2>0, <2>4, FileFacts DEF Held, SaveMoveNew, SaveFails, SaveEnds, Sound
    <2>5. CASE SaveCleanBak
        BY <2>0, <2>5, FileFacts DEF Held, SaveCleanBak, SaveEnds, Sound
    <2> QED BY <1>1, <2>1, <2>2, <2>3, <2>4, <2>5 DEF Save
<1>2. CASE Worker /\ ~Save
    BY <1>2, WorkerFrame DEF Worker, Held, Replacing, Sound
<1>3. CASE Poll \/ User \/ DataPowerCut
    BY <1>3, MenuSteps DEF TypeInv, MenuStep, Held, Sound, JobShape
<1>4. CASE Play \/ StartClient \/ UNCHANGED dataVars
    BY <1>4 DEF Play, StartClient, dataVars, cache, Held, Sound
<1> QED BY <1>1, <1>2, <1>3, <1>4 DEF DataNext, World

LEMMA BackedStep == TypeInv /\ Held /\ Backed /\ [DataNext]_dataVars => Backed'
<1> SUFFICES ASSUME TypeInv, Held, Backed, [DataNext]_dataVars PROVE Backed'
    OBVIOUS
<1>0. trouble \in Nat /\ trouble' \in {trouble, trouble + 1}
    BY TroubleGrows DEF TypeInv
<1>1. CASE Save
    <2>0. job.next \notin {"dropBak", "moveOld", "moveNew", "cleanBak"}
        BY DEF TypeInv
    <2> USE DEF Held, Backed, IndexKept, Complete, Replacing, Smooth, Trouble
    <2>1. CASE SaveStart
        BY <1>0, <2>0, <2>1, FileFacts DEF SaveStart, SaveFails, SaveEnds
    <2>2. CASE SaveDropBak
        BY <1>0, <2>2, FileFacts DEF SaveDropBak, history
    <2>3. CASE SaveMoveOld
        BY <1>0, <2>3, FileFacts DEF SaveMoveOld, history
    <2>4. CASE SaveMoveNew
        BY <1>0, <2>0, <2>4, FileFacts DEF SaveMoveNew, SaveFails, SaveEnds, Previous
    <2>5. CASE SaveCleanBak
        BY <1>0, <2>0, <2>5, FileFacts DEF SaveCleanBak, SaveEnds, history
    <2> QED BY <1>1, <2>1, <2>2, <2>3, <2>4, <2>5 DEF Save
<1>2. CASE Worker /\ ~Save
    BY <1>0, <1>2, WorkerFrame DEF Worker, Backed, IndexKept, Complete, Replacing, Saving
<1>3. CASE Poll \/ User \/ DataPowerCut
    <2>1. UNCHANGED <<index, bak, saved>>
        BY <1>3, MenuSteps DEF MenuStep, history
    <2>2. \/ doing' = doing
          \/ doing' \notin Saving /\ (doing \notin Saving \/ trouble' = trouble + 1)
        BY <1>3, MenuSteps DEF MenuStep, Saving
    <2> QED BY <1>0, <2>1, <2>2 DEF Backed, IndexKept, Complete, Replacing, Saving
<1>4. CASE Play \/ StartClient \/ UNCHANGED dataVars
    BY <1>4 DEF Play, StartClient, dataVars, cache, history, ui, Backed, IndexKept, Complete, Replacing
<1> QED BY <1>1, <1>2, <1>3, <1>4 DEF DataNext, World

-----------------------------------------------------------------------------
(* Whose sizes may be old *)

Dated(c, t) == t \in Titles /\ c.size # Unknown => c.era \in Nat /\ c.era >= hit[t]
DatedRows(rs) == \A r \in rs : Dated(r, r.title)
DatedApps(s) == \A t \in Titles, d \in Dirs : Dated(s[t].at[d], t)
RowsGone(rs) == \A r \in rs : r.title # job.title

BeforeScan == doing \in {"prepare", "uninstall", "forget", "check", "erase", "revise", "scan"}
              \/ (doing \in Saving /\ job.next = "erase")
\* The one title the snapshot may be wrong about: the worker's, until its scan is merged.
Outdated(t) == t = job.title /\ (\/ doing \in {"erase", "revise", "scan", "merging"} \union Saving
                                 \/ doing = "done" /\ job.action = "auto")

\* While the index can be rewritten, neither the index, nor what is about to be
\* written to it, nor what a scan has found holds a size from before the last
\* removal of its title's files; before the first removal the index forgets it.
Dating ==
    /\ \A t \in Titles : hit[t] <= era
    /\ BeforeScan => job.found = NoApps
    /\ doing \in Saving /\ job.next = "done" => job.action = "auto"
    /\ ~slipped =>
          /\ DatedRows(Loaded)
          /\ doing = "erase" => RowsGone(Loaded)
          /\ doing \in Saving => DatedRows(job.rows)
          /\ doing \in Saving /\ job.next = "erase" => RowsGone(job.rows)
          /\ DatedApps(job.found)
          /\ \A t \in Titles, d \in Dirs : Outdated(t) \/ Dated(snap[t].at[d], t)

LEMMA NothingFound == DatedApps(NoApps)
BY DEF DatedApps, Dated, NoApps, Absent

LEMMA MenuDating == TypeInv /\ Dating /\ MenuStep => Dating'
<1> SUFFICES ASSUME TypeInv, Dating, MenuStep PROVE Dating'
    OBVIOUS
<1>0. UNCHANGED <<hit, era, slipped, Loaded>>
    BY DEF MenuStep, history, Loaded
<1>1. CASE doing' = doing /\ snap' = snap /\ (job' = job \/ job' = [job EXCEPT !.cancel = TRUE])
    <2>1. /\ job'.title = job.title /\ job'.rows = job.rows /\ job'.next = job.next /\ job'.found = job.found
          /\ job'.action = job.action
        BY <1>1 DEF TypeInv, JobShape
    <2> QED BY <1>0, <1>1, <2>1 DEF Dating, DatedRows, DatedApps, Dated, RowsGone, BeforeScan, Outdated
<1>2. CASE /\ doing' \in {"none", "prepare", "uninstall", "scan"} /\ Fresh(job')
           /\ \/ snap' = NoApps
              \/ (doing = "none" \/ (doing = "done" /\ job.action # "auto")) /\ snap' = snap
              \/ doing = "done" /\ job.action = "auto" /\ snap' = Merged
    <2>1. job'.found = NoApps /\ doing' \notin Saving
        BY <1>2 DEF Fresh, Saving
    <2>2. ~slipped => DatedApps(snap')
        <3>1. CASE snap' = NoApps
            BY <3>1, NothingFound
        <3>2. CASE (doing = "none" \/ (doing = "done" /\ job.action # "auto")) /\ snap' = snap
            BY <3>2 DEF Dating, DatedApps, Outdated, Saving
        <3>3. CASE doing = "done" /\ job.action = "auto" /\ snap' = Merged
            <4>1. \A t \in Titles : snap'[t] = IF t = job.title THEN job.found[t] ELSE snap[t]
                BY <3>3 DEF TypeInv, AppsShape, Merged
            <4> QED BY <3>3, <4>1 DEF Dating, DatedApps, Outdated, Saving
        <3> QED BY <1>2, <3>1, <3>2, <3>3
    <2>3. ~slipped => DatedApps(job'.found) /\ DatedRows(Loaded) /\ doing' # "erase"
        BY <1>2, <2>1, NothingFound DEF Dating
    <2> QED BY <1>0, <2>1, <2>2, <2>3 DEF Dating, DatedRows, DatedApps, Dated
<1> QED BY <1>1, <1>2 DEF MenuStep

LEMMA SeenDated ==
    ASSUME TypeInv, Dating, ~slipped, NEW t \in Titles, NEW d,
           NEW how \in {"counted", "cut", "kept", "missed"}
    PROVE  Dated(Seen(t, d, how), t)
<1>1. Dated(Absent, t) /\ Dated([there |-> TRUE, size |-> Unknown, era |-> 0], t)
    BY DEF Dated, Absent
<1>2. Dated(Known(t, d), t)
    <2>1. CASE Reusable(t, d) = {}
        BY <1>1, <2>1 DEF Known
    <2>2. CASE Reusable(t, d) # {}
        <3> DEFINE r == CHOOSE r \in Reusable(t, d) : TRUE
        <3>1. r \in Loaded /\ r.title = t
            BY <2>2 DEF Reusable
        <3>2. Dated(r, t)
            BY <3>1 DEF Dating, DatedRows
        <3>3. Known(t, d) = [there |-> TRUE, size |-> r.size, era |-> r.era]
            BY <2>2 DEF Known
        <3> HIDE DEF r
        <3> QED BY <3>2, <3>3 DEF Dated
    <2> QED BY <2>1, <2>2
<1>3. Dated([there |-> TRUE, size |-> Size(d), era |-> era], t)
    BY DEF Dating, Dated, TypeInv
<1> QED BY <1>1, <1>2, <1>3 DEF Seen

LEMMA ScanDating == TypeInv /\ Dating /\ Scan => Dating'
<1> SUFFICES ASSUME TypeInv, Dating, Scan PROVE Dating'
    OBVIOUS
<1>0. /\ UNCHANGED <<hit, era, slipped, Loaded, snap>>
      /\ doing = "scan" /\ AfterScan \in {"done", "merging"} /\ (AfterScan = "done" <=> job.action = "auto")
    BY DEF Scan, cache, history, Loaded, AfterScan
<1> PICK stopped, how :
        /\ how \in [Pairs(Scope) -> Outcomes(stopped)]
        /\ job' = [job EXCEPT !.found = Found(how), !.next = AfterScan,
                              !.rows = IF stopped THEN {} ELSE Kept(how, Found(how))]
        /\ doing' = IF stopped THEN AfterScan ELSE "save"
    BY DEF Scan
<1>1. /\ job'.title = job.title /\ job'.action = job.action /\ job'.next = AfterScan /\ job'.found = Found(how)
      /\ job'.rows = IF stopped THEN {} ELSE Kept(how, Found(how))
    BY DEF TypeInv, JobShape
<1>2. ~slipped => DatedApps(Found(how))
    <2> SUFFICES ASSUME ~slipped, NEW t \in Titles, NEW d \in Dirs
                 PROVE  Dated(Found(how)[t].at[d], t)
        BY DEF DatedApps
    <2>1. Found(how)[t].at[d] = IF <<t, d>> \in DOMAIN how THEN Seen(t, d, how[<<t, d>>]) ELSE Absent
        BY DEF Found
    <2>2. <<t, d>> \in DOMAIN how => how[<<t, d>>] \in {"counted", "cut", "kept", "missed"}
        BY DEF Outcomes
    <2>3. Dated(Absent, t)
        BY DEF Dated, Absent
    <2> QED BY <2>1, <2>2, <2>3, SeenDated
<1>3. ~slipped => DatedRows(Kept(how, Found(how)))
    <2> SUFFICES ASSUME ~slipped, NEW r \in Kept(how, Found(how)), r.title \in Titles, r.size # Unknown
                 PROVE  r.era \in Nat /\ r.era >= hit[r.title]
        BY DEF DatedRows, Dated
    <2>1. CASE r \in Loaded
        BY <2>1 DEF Dating, DatedRows, Dated
    <2>2. CASE \E p \in DOMAIN how : r = Row(p[1], p[2], Found(how)[p[1]].at[p[2]].size, Found(how)[p[1]].at[p[2]].era)
        <3> PICK p \in DOMAIN how :
                r = Row(p[1], p[2], Found(how)[p[1]].at[p[2]].size, Found(how)[p[1]].at[p[2]].era)
            BY <2>2
        <3>1. /\ r.title = p[1] /\ r.size = Found(how)[p[1]].at[p[2]].size /\ r.era = Found(how)[p[1]].at[p[2]].era
              /\ p[2] \in Dirs
            BY DEF Row, Pairs
        <3> QED BY <1>2, <3>1 DEF DatedApps, Dated
    <2> QED BY <2>1, <2>2 DEF Kept
<1> HIDE DEF Dated
<1>4. ~slipped => DatedRows(job'.rows) /\ DatedApps(job'.found) /\ DatedRows(Loaded)
    BY <1>1, <1>2, <1>3 DEF Dating, DatedRows
<1>5. \A t \in Titles, d \in Dirs : ~slipped => Outdated(t)' \/ Dated(snap[t].at[d], t)
    BY <1>0, <1>1 DEF Dating, Outdated, Saving
<1> QED BY <1>0, <1>1, <1>4, <1>5 DEF Dating, Dated, DatedRows, DatedApps, BeforeScan, Saving, RowsGone

LEMMA SaveDating == TypeInv /\ Held /\ Dating /\ Save => Dating'
<1> SUFFICES ASSUME TypeInv, Held, Dating, Save PROVE Dating'
    OBVIOUS
<1>0. /\ UNCHANGED <<snap, era, hit>>
      /\ doing \in Saving /\ doing' \in Saving \union {job.next} /\ job.next \in {"erase", "done", "merging"}
      /\ job'.title = job.title /\ job'.next = job.next /\ job'.found = job.found /\ job'.action = job.action
      /\ doing' \in Saving => job'.rows = job.rows
    BY SaveFrame DEF TypeInv
<1>1. BeforeScan' => job'.found = NoApps
    BY <1>0 DEF Dating, BeforeScan, Saving
<1>2. slipped => slipped'
    BY DEF TypeInv, Save, SaveStart, SaveDropBak, SaveMoveOld, SaveMoveNew, SaveCleanBak, SaveFails, history
\* What can be read of the index is what could be, or what was to be written.
<1>3. ~slipped' => DatedRows(Loaded') /\ (doing' = "erase" => RowsGone(Loaded'))
    <2> SUFFICES ASSUME ~slipped'
                 PROVE  DatedRows(Loaded') /\ (doing' = "erase" => RowsGone(Loaded'))
        OBVIOUS
    <2>0. /\ DatedRows(Loaded) /\ DatedRows(job.rows) /\ DatedRows({})
          /\ (job.next = "erase" => RowsGone(job.rows))
          /\ job.next \notin Saving
        BY <1>0, <1>2 DEF Dating, DatedRows, Saving
    <2>1. CASE SaveStart
        <3>1. Loaded' = Loaded
            BY <2>1 DEF SaveStart, Loaded
        <3>2. doing' = "erase" => index = WholeFile(job.rows) /\ job.next = "erase"
            BY <1>0, <2>1 DEF SaveStart, SaveFails, SaveEnds, Saving
        <3>3. index = WholeFile(job.rows) => Loaded = job.rows
            BY FileFacts DEF Loaded
        <3> QED BY <2>0, <3>1, <3>2, <3>3
    <2>2. CASE SaveDropBak
        <3>1. Loaded' = Loaded \/ Loaded' = {}
            BY <2>2, FileFacts DEF SaveDropBak, Loaded
        <3> QED BY <2>0, <2>2, <3>1 DEF SaveDropBak
    <2>3. CASE SaveMoveOld
        <3>1. Loaded' = Loaded
            BY <2>3, FileFacts DEF SaveMoveOld, Loaded, Held
        <3> QED BY <2>0, <2>3, <3>1 DEF SaveMoveOld
    <2>4. CASE SaveMoveNew
        <3>1. Loaded' = Loaded \/ (Loaded' = job.rows /\ doing' = "cleanBak")
            BY <2>4, FileFacts DEF SaveMoveNew, Previous, Loaded, Held
        <3>2. doing' # "erase"
            BY <1>0, <2>4 DEF SaveMoveNew, SaveFails, SaveEnds
        <3> QED BY <2>0, <3>1, <3>2
    <2>5. CASE SaveCleanBak
        <3>1. Loaded' = job.rows /\ doing' = job.next
            BY <2>5, FileFacts DEF SaveCleanBak, SaveEnds, Loaded, Held
        <3> QED BY <2>0, <3>1
    <2> QED BY <2>1, <2>2, <2>3, <2>4, <2>5 DEF Save
<1>4. \A t \in Titles, d \in Dirs : ~slipped' => Outdated(t)' \/ Dated(snap[t].at[d], t)
    BY <1>0, <1>2 DEF Dating, Outdated, Saving
<1> QED BY <1>0, <1>1, <1>2, <1>3, <1>4 DEF Dating, Dated, DatedRows, DatedApps, RowsGone, Saving

LEMMA EraseDating == TypeInv /\ Dating /\ Erase => Dating'
<1> SUFFICES ASSUME TypeInv, Dating, Erase PROVE Dating'
    OBVIOUS
<1>0. /\ UNCHANGED <<snap, era, slipped, Loaded>> /\ doing = "erase" /\ doing' \in {"erase", "scan", "revise"}
      /\ job'.title = job.title /\ job'.found = NoApps
    BY DEF Erase, EraseStep, Loaded, cache, TypeInv, JobShape, Dating, BeforeScan
<1>1. \A t \in Titles : hit'[t] <= era /\ (t # job.title => hit'[t] = hit[t])
    <2>1. hit' = hit \/ hit' = [hit EXCEPT ![job.title] = era]
        BY DEF Erase, EraseStep, TakeFrom
    <2> QED BY <2>1 DEF TypeInv, Dating
<1>2. ~slipped => /\ \A r \in Loaded : r.title # job.title
                  /\ \A r \in Loaded : Dated(r, r.title)
                  /\ \A t \in Titles, d \in Dirs : t = job.title \/ Dated(snap[t].at[d], t)
    BY <1>0 DEF Dating, DatedRows, RowsGone, Outdated
<1>3. DatedApps(NoApps)'
    BY DEF DatedApps, Dated, NoApps, Absent
<1>4. ~slipped => DatedRows(Loaded)'
    BY <1>0, <1>1, <1>2 DEF DatedRows, Dated
<1>5. \A t \in Titles, d \in Dirs : ~slipped => Outdated(t)' \/ Dated(snap[t].at[d], t)'
    BY <1>0, <1>1, <1>2 DEF Outdated, Dated
<1>6. DatedApps(job.found)'
    BY <1>0, <1>3
<1> QED BY <1>0, <1>1, <1>2, <1>4, <1>5, <1>6 DEF Dating, BeforeScan, Saving, RowsGone

LEMMA WorkerDating ==
    ASSUME TypeInv, Held, Dating, PrepareRemoval \/ Uninstall \/ Forget \/ RemoveExternal \/ Revise \/ Merging
    PROVE  Dating'
<1>0. UNCHANGED <<hit, slipped, Loaded>>
    BY DEF PrepareRemoval, Uninstall, Forget, RemoveExternal, Revise, Merging, cache, history, Loaded
<1>1. CASE PrepareRemoval \/ Uninstall \/ Forget \/ Revise
    <2>1. /\ UNCHANGED era /\ job'.title = job.title /\ job'.found = job.found /\ job'.action = job.action
          /\ doing' \in {"check", "uninstall", "scan", "forget", "done"} /\ doing \in {"prepare", "uninstall", "forget", "revise"}
          /\ (doing = "revise" => doing' = "scan")
        BY <1>1 DEF PrepareRemoval, Uninstall, Forget, Revise, history, TypeInv, JobShape
    <2>2. \A t \in Titles : snap'[t].at = snap[t].at
        BY <1>1 DEF PrepareRemoval, Uninstall, Forget, Revise, TypeInv, AppsShape
    <2>3. job.found = NoApps
        BY <2>1 DEF Dating, BeforeScan
    <2> QED BY <1>0, <2>1, <2>2, <2>3 DEF Dating, BeforeScan, Outdated, Saving, RowsGone, DatedRows, DatedApps, Dated
<1>2. CASE RemoveExternal
    <2>0. doing = "check" /\ job.found = NoApps /\ UNCHANGED snap
        BY <1>2 DEF Dating, BeforeScan, RemoveExternal
    <2>1. CASE ~Removable(job.title)
        BY <1>0, <1>2, <2>0, <2>1 DEF RemoveExternal, Dating, BeforeScan, Outdated, Saving, RowsGone, DatedRows, DatedApps, Dated
    <2>2. CASE Removable(job.title)
        <3> DEFINE rest == {r \in Loaded : r.title # job.title}
        <3>1. /\ job'.title = job.title /\ job'.found = NoApps /\ job'.rows = rest /\ job'.next = "erase"
              /\ era' = era + 1
              /\ doing' = IF Complete /\ rest # Loaded THEN "save" ELSE "erase"
            BY <1>2, <2>0, <2>2 DEF RemoveExternal, Invalidated, TypeInv, JobShape
        <3>2. doing' = "erase" => RowsGone(Loaded)
            <4>1. ~Complete => Loaded = {}
                BY FileFacts DEF Complete, Loaded, Held
            <4> QED BY <3>1, <4>1 DEF RowsGone
        <3>3. \A t \in Titles : hit[t] <= era + 1
            BY DEF Dating, TypeInv
        <3>4. ~slipped => DatedRows(Loaded) /\ DatedRows(rest) /\ RowsGone(rest) /\ DatedApps(NoApps)
            BY <2>0 DEF Dating, DatedRows, RowsGone
        <3>5. \A t \in Titles, d \in Dirs : ~slipped => Dated(snap[t].at[d], t)
            BY <2>0 DEF Dating, Outdated, Saving
        <3> HIDE DEF rest
        <3> QED BY <1>0, <2>0, <3>1, <3>2, <3>3, <3>4, <3>5 DEF Dating, BeforeScan, Saving, RowsGone, DatedRows, DatedApps, Dated
    <2> QED BY <2>1, <2>2
<1>3. CASE Merging
    <2>1. doing = "merging" /\ doing' = "done" /\ UNCHANGED era /\ job'.title = job.title /\ job'.found = NoApps
        BY <1>3 DEF Merging, history, TypeInv, JobShape
    <2>2. \A t \in Titles : \/ snap'[t] = job.found[t]
                            \/ t # job.title /\ snap'[t] = snap[t]
        BY <1>3 DEF Merging, TypeInv, AppsShape
    <2>3. ~slipped => DatedApps(snap') /\ DatedApps(NoApps)
        BY <2>1, <2>2, NothingFound DEF Dating, DatedApps, Outdated
    <2> QED BY <1>0, <2>1, <2>3 DEF Dating, BeforeScan, Saving, RowsGone, DatedRows, DatedApps, Dated
<1> QED BY <1>1, <1>2, <1>3

LEMMA DatingStep == TypeInv /\ Held /\ Dating /\ [DataNext]_dataVars => Dating'
<1> SUFFICES ASSUME TypeInv, Held, Dating, [DataNext]_dataVars PROVE Dating'
    OBVIOUS
<1>1. CASE Save
    BY <1>1, SaveDating
<1>2. CASE Worker /\ ~Save
    BY <1>2, WorkerDating, EraseDating, ScanDating DEF Worker
<1>3. CASE Poll \/ User \/ DataPowerCut
    BY <1>3, MenuSteps, MenuDating
<1>4. CASE Play \/ StartClient \/ UNCHANGED dataVars
    BY <1>4 DEF Play, StartClient, dataVars, cache, history, ui, Dating, BeforeScan, Outdated, RowsGone, DatedRows, DatedApps,
                Dated, Loaded
<1> QED BY <1>1, <1>2, <1>3, <1>4 DEF DataNext, World

-----------------------------------------------------------------------------
(* For whom a directory was taken from *)

\* The menu and its rows name titles of the catalog.
Names(m) == "target" \in DOMAIN m /\ m.target \in Titles \union {NoTitle}
Named == rows \subseteq Titles /\ Names(menu)

LEMMA NextNamed == ASSUME NEW m, NEW s, NEW r, StartNext(m, s, r), Names(m) PROVE Names(menu')
<1>1. \A t : Names([m EXCEPT !.tried = @ \union {t}])
    BY DEF Names
<1> QED BY <1>1 DEF StartNext

LEMMA CloseNamed == ASSUME CloseMenu, Named PROVE Named'
<1>1. CASE doing = "none"
    BY <1>1 DEF CloseMenu, Named, Names, Shut
<1>2. CASE doing # "none"
    BY <1>2 DEF CloseMenu, Named, Names
<1> QED BY <1>1, <1>2

LEMMA NamedStep == Named /\ [DataNext]_dataVars => Named'
<1> SUFFICES ASSUME Named, [DataNext]_dataVars PROVE Named'
    OBVIOUS
<1>0. \A s, m : Visible(s, m) \subseteq Titles
    BY DEF Visible
<1>1. CASE Worker \/ Play \/ StartClient \/ UNCHANGED dataVars
    BY <1>1 DEF Named, Worker, Save, Play, StartClient, dataVars, ui
<1>2. CASE OpenMenu \/ DataPowerCut
    <2>1. Names(Shut)
        BY DEF Names, Shut
    <2>2. \A t \in Titles \union {NoTitle} :
            Names([Shut EXCEPT !.visible = TRUE, !.auto = (t = NoTitle), !.detail = (t # NoTitle),
                               !.target = t, !.preferred = t])
        BY DEF Names, Shut
    <2>3. Names(menu') /\ rows' \subseteq Titles
        BY <1>2, <2>1, <2>2 DEF OpenMenu, DataPowerCut, Named
    <2> QED BY <2>3 DEF Named, Names
<1>3. CASE Back
    <2>1. CASE menu.detail /\ menu.preferred = NoTitle
        <3>1. Names([menu EXCEPT !.detail = FALSE])
            BY DEF Named, Names
        <3> QED BY <1>3, <2>1, <3>1, NextNamed DEF Back, Named
    <2>2. CASE ~(menu.detail /\ menu.preferred = NoTitle)
        BY <1>3, <2>2, CloseNamed DEF Back
    <2> QED BY <2>1, <2>2
<1>4. CASE Select \/ Ask \/ Decline \/ Confirm \/ CancelScan \/ MeasureAgain
    BY <1>4 DEF Named, Names, Select, Ask, Decline, Confirm, CancelScan, MeasureAgain, ui
<1>5. CASE FinishResult
    <2>1. CASE menu.preferred # NoTitle
        BY <1>5, <2>1, CloseNamed DEF FinishResult
    <2>2. CASE menu.preferred = NoTitle
        <3> DEFINE m == [menu EXCEPT !.result = FALSE, !.confirm = FALSE, !.detail = FALSE, !.target = NoTitle]
        <3>1. Names(m)
            BY DEF Named, Names
        <3>2. rows' = Visible(snap, m) /\ StartNext(m, snap, Visible(snap, m))
            BY <1>5, <2>2 DEF FinishResult
        <3> HIDE DEF m
        <3> QED BY <1>0, <3>1, <3>2, NextNamed DEF Named
    <2> QED BY <2>1, <2>2
<1>6. CASE Poll
    <2>1. CASE PollAuto /\ menu.closing
        BY <2>1 DEF PollAuto, Named, Names, Shut
    <2>2. CASE PollAuto /\ ~menu.closing
        BY <2>2, NextNamed DEF PollAuto, Named
    <2>3. CASE PollOther
        <3> DEFINE m == [menu EXCEPT !.confirm = FALSE, !.result = menu.result \/ job.action \in Removal]
        <3>1. Names(m)
            BY DEF Named, Names
        <3>2. rows' = Visible(snap, m) /\ (StartNext(m, snap, Visible(snap, m)) \/ menu' = m)
            BY <2>3 DEF PollOther
        <3> HIDE DEF m
        <3> QED BY <1>0, <3>1, <3>2, NextNamed DEF Named
    <2> QED BY <1>6, <2>1, <2>2, <2>3 DEF Poll
<1> QED BY <1>1, <1>2, <1>3, <1>4, <1>5, <1>6 DEF DataNext, User, World

\* A removal is made for a title of the catalog, and takes that title's roots only.
Removing == doing \in {"prepare", "uninstall", "forget", "check"}
Taking == doing = "erase" \/ (doing \in Saving /\ job.next = "erase")
Owned == /\ Removing \/ Taking => job.title \in Titles
         /\ Taking => job.left \subseteq Roots(job.title)

LEMMA ScanStarted ==
    ASSUME NEW a \in {"open", "measure", "auto"}, NEW t, StartOperation(a, t) PROVE doing' \in {"none", "scan"}
BY DEF StartOperation, Entrance, WithData

LEMMA RemovalStarted ==
    ASSUME TypeInv, Named, Poll \/ User \/ DataPowerCut
    PROVE  \/ doing' = doing /\ job' \in {job, [job EXCEPT !.cancel = TRUE]}
           \/ doing' \in {"none", "scan"}
           \/ doing' \in {"prepare", "uninstall"} /\ job'.title \in Titles
<1>0. ASSUME NEW m, NEW s, NEW r, StartNext(m, s, r) PROVE doing' \in {"none", "scan"}
    BY <1>0, ScanStarted DEF StartNext
<1>1. CASE Confirm
    <2>1. CASE menu.choice \in Removal
        <3>1. menu.target \in Titles
            BY <1>1, <2>1 DEF Confirm, Available, CanApp, CanData, Removal, WithData, WithPackage, Named, Names
        <3>2. [NoJob EXCEPT !.action = menu.choice, !.title = menu.target].title = menu.target
            BY DEF NoJob
        <3>3. doing' \in {"none", "prepare", "uninstall", "scan"}
            BY <1>1, Started DEF Confirm
        <3> QED BY <1>1, <3>1, <3>2, <3>3 DEF Confirm, StartOperation
    <2>2. CASE menu.choice \notin Removal
        BY <1>1, <2>2 DEF Confirm, StartOperation, Entrance, Removal, WithData, WithPackage
    <2> QED BY <2>1, <2>2
<1>2. CASE OpenMenu \/ MeasureAgain
    BY <1>2, ScanStarted DEF OpenMenu, MeasureAgain
<1>3. CASE CancelScan \/ Select \/ Ask \/ Decline
    BY <1>3 DEF CancelScan, Select, Ask, Decline
<1>4. CASE Back
    BY <1>0, <1>4 DEF Back, CloseMenu
<1>5. CASE FinishResult
    BY <1>0, <1>5 DEF FinishResult, CloseMenu
<1>6. CASE Poll
    BY <1>0, <1>6 DEF Poll, PollAuto, PollOther
<1>7. CASE DataPowerCut
    BY <1>7 DEF DataPowerCut
<1> QED BY <1>1, <1>2, <1>3, <1>4, <1>5, <1>6, <1>7 DEF User

LEMMA OwnedStep == TypeInv /\ Named /\ Owned /\ [DataNext]_dataVars => Owned'
<1> SUFFICES ASSUME TypeInv, Named, Owned, [DataNext]_dataVars PROVE Owned'
    OBVIOUS
<1>1. CASE Poll \/ User \/ DataPowerCut
    <2>1. CASE doing' = doing /\ job' \in {job, [job EXCEPT !.cancel = TRUE]}
        <3>1. job'.title = job.title /\ job'.left = job.left /\ job'.next = job.next
            BY <2>1 DEF TypeInv, JobShape
        <3> QED BY <2>1, <3>1 DEF Owned, Removing, Taking
    <2> QED BY <1>1, <2>1, RemovalStarted DEF Owned, Removing, Taking, Saving
<1>2. CASE Save
    BY <1>2, SaveFrame DEF TypeInv, Owned, Removing, Taking, Saving
<1>3. CASE PrepareRemoval \/ Uninstall \/ Forget \/ Revise \/ Merging
    <2>1. job'.title = job.title /\ doing' \notin Saving \union {"erase", "prepare"}
        BY <1>3 DEF PrepareRemoval, Uninstall, Forget, Revise, Merging, TypeInv, JobShape, Saving
    <2>2. CASE Removing
        BY <2>1, <2>2 DEF Owned, Removing, Taking
    <2>3. CASE ~Removing
        BY <1>3, <2>1, <2>3 DEF PrepareRemoval, Uninstall, Forget, Revise, Merging, Owned, Removing, Taking
    <2> QED BY <2>2, <2>3
<1>4. CASE RemoveExternal
    <2>1. CASE Removable(job.title)
        <3>1. job'.title = job.title /\ job'.left = Listed(job.title) /\ doing' \in {"save", "erase"} /\ doing = "check"
            BY <1>4, <2>1 DEF RemoveExternal, Invalidated, TypeInv, JobShape
        <3> QED BY <3>1 DEF Owned, Removing, Taking, Listed
    <2>2. CASE ~Removable(job.title)
        BY <1>4, <2>2 DEF RemoveExternal, Owned, Removing, Taking, Saving
    <2> QED BY <2>1, <2>2
<1>5. CASE Erase
    <2>1. job'.title = job.title /\ job'.left \subseteq job.left /\ doing = "erase" /\ doing' \in {"erase", "scan", "revise"}
        BY <1>5 DEF Erase, EraseStep, TypeInv, JobShape
    <2> QED BY <2>1 DEF Owned, Removing, Taking, Saving
<1>6. CASE Scan
    <2>1. AfterScan \in {"done", "merging"} /\ doing' \in {AfterScan, "save"} /\ job'.next = AfterScan
        BY <1>6 DEF Scan, AfterScan, TypeInv, JobShape
    <2> QED BY <2>1 DEF Owned, Removing, Taking, Saving
<1>7. CASE Play \/ StartClient \/ UNCHANGED dataVars
    BY <1>7 DEF Play, StartClient, dataVars, Owned, Removing, Taking
<1> QED BY <1>1, <1>2, <1>3, <1>4, <1>5, <1>6, <1>7 DEF DataNext, World, Worker

\* What was taken from a directory was taken for a title with a root that overlaps it.
Attributed ==
    \A d \in Dirs : taken[d] = 0 \/ \E u \in Titles : hit[u] >= taken[d] /\ \E e \in Roots(u) : Overlap(d, e)

LEMMA AttributedStep ==
    TypeInv /\ Owned /\ Dating /\ Attributed /\ [DataNext]_dataVars => Attributed'
<1> SUFFICES ASSUME TypeInv, Owned, Dating, Attributed, [DataNext]_dataVars PROVE Attributed'
    OBVIOUS
<1>0. hit \in [Titles -> Nat] /\ taken \in [Dirs -> Nat] /\ era \in Nat /\ \A t \in Titles : hit[t] <= era
    BY DEF TypeInv, Dating
<1>1. CASE UNCHANGED <<hit, taken>>
    BY <1>1 DEF Attributed, Roots, Overlap
<1>2. ASSUME Erase, job.left # {}, NEW d \in Under(Root), TakeFrom(d) PROVE Attributed'
    <2>1. Root \in Roots(job.title) /\ job.title \in Titles
        BY <1>2 DEF Root, Owned, Taking, Erase
    <2>2. hit' = [hit EXCEPT ![job.title] = era] /\ taken' = [x \in Dirs |-> IF d \in Under(x) THEN era ELSE taken[x]]
        BY <1>2 DEF TakeFrom
    <2>3. hit'[job.title] = era /\ \A u \in Titles : hit'[u] >= hit[u]
        BY <1>0, <2>1, <2>2
    <2>4. ASSUME NEW x \in Dirs, d \in Under(x) PROVE Overlap(x, Root)
        <3>1. Root \in Dirs
            BY <2>1, CatalogAssumption DEF Roots
        <3> QED BY <1>2, <2>4, <3>1, PathAssumption DEF Under, Overlap
    <2> SUFFICES ASSUME NEW x \in Dirs, taken'[x] # 0
                 PROVE  \E u \in Titles : hit'[u] >= taken'[x] /\ \E e \in Roots(u) : Overlap(x, e)
        BY DEF Attributed, Roots, Overlap
    <2>5. CASE d \in Under(x)
        <3>1. Overlap(x, Root) /\ taken'[x] = era
            BY <2>2, <2>4, <2>5
        <3> QED BY <1>0, <2>1, <2>3, <3>1
    <2>6. CASE d \notin Under(x)
        <3>1. taken'[x] = taken[x]
            BY <2>2, <2>6
        <3>2. PICK u \in Titles : hit[u] >= taken[x] /\ \E e \in Roots(u) : Overlap(x, e)
            BY <3>1 DEF Attributed
        <3>3. hit'[u] \in Nat /\ hit'[u] >= taken'[x]
            BY <1>0, <2>2, <2>3, <3>1, <3>2
        <3> QED BY <3>2, <3>3
    <2> QED BY <2>5, <2>6
<1>3. CASE Erase
    BY <1>1, <1>2, <1>3 DEF Erase, EraseStep
<1>4. CASE Save
    BY <1>1, <1>4, SaveFrame
<1>5. CASE Worker /\ ~Save /\ ~Erase
    BY <1>1, <1>5 DEF Worker, PrepareRemoval, Uninstall, Forget, RemoveExternal, Revise, Scan, Merging, history
<1>6. CASE Poll \/ User \/ DataPowerCut
    BY <1>1, <1>6, MenuSteps DEF MenuStep, history
<1>7. CASE Play \/ StartClient \/ UNCHANGED dataVars
    BY <1>1, <1>7 DEF Play, StartClient, dataVars, history
<1> QED BY <1>3, <1>4, <1>5, <1>6, <1>7 DEF DataNext, World

-----------------------------------------------------------------------------
(* Theorems *)

DataInv == TypeInv /\ Clear /\ Held /\ Backed /\ Dating /\ Named /\ Owned /\ Attributed

LEMMA DataInitInv == DataInit => DataInv
<1> SUFFICES ASSUME DataInit PROVE DataInv
    OBVIOUS
<1>1. Clear
    BY DEF DataInit, Clear, Saving
<1>2. Held /\ Backed
    BY FileFacts DEF DataInit, Held, Backed, IndexKept
<1>3. Dating
    <2>1. Loaded = {} /\ job.found = NoApps /\ snap = NoApps
        BY FileFacts, NoJobFresh DEF DataInit, Loaded, Fresh
    <2> QED BY <2>1, NothingFound DEF DataInit, Dating, BeforeScan, Outdated, Saving, DatedRows, DatedApps
<1>4. Named /\ Owned /\ Attributed
    BY DEF DataInit, Shut, Named, Names, Owned, Removing, Taking, Saving, Attributed
<1> QED BY <1>1, <1>2, <1>3, <1>4, InitTypes DEF DataInv

LEMMA DataNextInv == DataInv /\ [DataNext]_dataVars => DataInv'
BY TypeStep, ClearStep, HeldStep, BackedStep, DatingStep, NamedStep, OwnedStep, AttributedStep DEF DataInv

LEMMA DataInvariance == DataSpec => []DataInv
<1>1. DataInit => DataInv
    BY DataInitInv
<1>2. DataInv /\ [DataNext]_dataVars => DataInv'
    BY DataNextInv
<1> QED BY <1>1, <1>2, PTL DEF DataSpec

\* An index that has been written can be read back after one failed call or power
\* cut, wherever in a save it comes (InstalledDirectoryCache::save and load).
THEOREM IndexStays == DataSpec => []IndexKept
<1>1. DataInv => IndexKept
    BY DEF DataInv, Backed
<1> QED BY <1>1, DataInvariance, PTL

LEMMA ShownDates ==
    ASSUME DataInv, doing = "none", ~slipped, NEW t \in Titles, NEW d \in Roots(t), snap[t].at[d].size # Unknown
    PROVE  LET size == snap[t].at[d] IN
           size.era >= hit[t] /\ (Behind(size, d) => TakenByAnother(t, d, size))
<1> DEFINE size == snap[t].at[d]
<1>1. d \in Dirs
    BY CatalogAssumption DEF Roots
<1>2. size.era >= hit[t]
    BY <1>1 DEF DataInv, Dating, Outdated, Saving, Dated
<1>3. size.era \in Nat /\ hit \in [Titles -> Nat] /\ taken[d] \in Nat
    BY <1>1 DEF DataInv, TypeInv, Dating, Outdated, Saving, Dated
<1>4. ASSUME Behind(size, d) PROVE TakenByAnother(t, d, size)
    <2>1. PICK u \in Titles : hit[u] >= taken[d] /\ \E e \in Roots(u) : Overlap(d, e)
        BY <1>1, <1>3, <1>4 DEF DataInv, Attributed, Behind
    <2>2. hit[u] \in Nat /\ hit[t] \in Nat /\ size.era < taken[d]
        BY <1>3, <1>4, <2>1 DEF Behind
    <2>3. hit[u] > size.era /\ u # t
        BY <1>2, <1>3, <2>1, <2>2
    <2> QED BY <2>1, <2>3 DEF TakenByAnother
<1> QED BY <1>2, <1>4

\* Whatever failed in between, as long as the index could be rewritten before each
\* removal, a size the menu knows of a title is from after the last removal made for
\* it, and from after the last removal that took anything from that directory, unless
\* that one was made for another title with an overlapping root (removeExternal,
\* invalidateTitle, scan, and the merge of installedDataWorkerEntry).
THEOREM OldSizesGo == DataSpec => []OldSizeGone
<1>1. DataInv => OldSizeGone
    BY ShownDates DEF OldSizeGone
<1> QED BY <1>1, DataInvariance, PTL

\* Where no two titles name overlapping roots, "the old size must never be displayed
\* again" (removeExternal) holds of every row of the list.
THEOREM ApartNoneShown ==
    ASSUME \A t, u \in Titles : t = u \/ \A d \in Roots(t), e \in Roots(u) : ~Overlap(d, e)
    PROVE  DataSpec => []OldSizeNeverShown
<1>1. DataInv => OldSizeNeverShown
    <2> SUFFICES ASSUME DataInv, doing = "none", ~slipped, NEW t \in Titles, NEW d \in Roots(t),
                        snap[t].at[d].size # Unknown, Behind(snap[t].at[d], d)
                 PROVE  FALSE
        BY DEF OldSizeNeverShown, DataInv, Named
    <2>1. TakenByAnother(t, d, snap[t].at[d])
        BY ShownDates
    <2> QED BY <2>1 DEF TakenByAnother
<1> QED BY <1>1, DataInvariance, PTL

\* No step of a removal takes anything from under a root of another installed
\* title (validateExternalRemoval, eraseTree): the roots are paths, so that what
\* lies under two of them shows one inside the other.
THEOREM SharedStays == DataSpec => SharedKept
<1>1. DataInv /\ [DataNext]_dataVars =>
        [doing = "erase" /\ tree' # tree =>
           \A u \in installed \ {job.title} : \A d \in Roots(u) :
              \A e \in Under(d) : tree'[e].files = tree[e].files /\ tree'[e].there = tree[e].there]_dataVars
    BY SharedKeptStep DEF DataInv
<1> QED BY <1>1, DataInvariance, PTL DEF DataSpec, SharedKept
=============================================================================
