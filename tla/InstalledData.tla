----------------------------- MODULE InstalledData -----------------------------
(***************************************************************************)
(* The list of installed homebrew and of the game files it keeps in        *)
(* ux0:data/ (installed_data_screen.inc): one menu on the UI thread, one   *)
(* worker that scans, measures, uninstalls and erases                      *)
(* (installed_data_manager.cpp), and the index of known sizes              *)
(* (installed_directory_cache.cpp).                                        *)
(*                                                                         *)
(* A directory holds a number of files and a stamp, which changes with its *)
(* own entries only: what changes deeper leaves it alone. A size is a      *)
(* number of files, and remembers in which era it was measured: an era     *)
(* ends with every removal of game files that is attempted.                *)
(***************************************************************************)
EXTENDS Naturals, FiniteSets, FiniteSetsExt, Functions

CONSTANTS
    Titles, Dirs,
    Declared,     \* the roots the catalog names for a title
    Inside,       \* the pairs <<d, e>> where directory d lies inside e
    NoTitle, Unknown,
    MaxFiles,     \* bound on the files of one directory
    MaxTrouble,   \* bound on failed calls and power cuts
    MaxWhims,     \* bound on what the user starts, in the menu and outside of it
    MaxEvents     \* bound on both together

ASSUME CatalogAssumption ==
    /\ Declared \in [Titles -> SUBSET Dirs]
    /\ Inside \subseteq Dirs \X Dirs
    /\ NoTitle \notin Titles
    /\ Unknown \notin Nat
    /\ {MaxFiles, MaxTrouble, MaxWhims, MaxEvents} \subseteq Nat

\* Directories are paths: of two that a third lies in, one lies in the other.
ASSUME PathAssumption ==
    \A d, x, y \in Dirs : <<d, x>> \in Inside /\ <<d, y>> \in Inside =>
        x = y \/ <<x, y>> \in Inside \/ <<y, x>> \in Inside

VARIABLES
    installed,        \* titles with ux0:app/<id>/sce_sys/param.sfo
    tree,             \* the directories under ux0:data/
    receipt,
    index, bak, tmp,  \* installed_directory_index.tsv, .bak and .tmp
    on,               \* the client is running
    menu, snap, rows, \* what the UI thread knows
    doing, job,       \* the worker, and what it was started for
    era, hit,         \* history: removals begun, and the last one that removed something for a title
    taken,            \* history: the last one, for any title, that removed something from a directory
    slipped,          \* history: the index could not be rewritten before a removal
    saved,            \* history: the index has been written once
    trouble, whims

disk == <<installed, tree, receipt>>
cache == <<index, bak, tmp>>
ui == <<on, menu, snap, rows>>
history == <<era, hit, taken, slipped, saved>>
dataVars == <<disk, cache, ui, doing, job, history, trouble, whims>>

None == "none"
File(kind, rs) == [kind |-> kind, rows |-> rs]
NoFile == File("none", {})
Torn == File("torn", {})
WholeFile(rs) == File("whole", rs)
Trouble == trouble < MaxTrouble /\ trouble + whims < MaxEvents /\ trouble' = trouble + 1
Smooth == UNCHANGED trouble
Whim == whims < MaxWhims /\ trouble + whims < MaxEvents /\ whims' = whims + 1

Overlap(d, e) == d = e \/ <<d, e>> \in Inside \/ <<e, d>> \in Inside
Under(d) == {e \in Dirs : e = d \/ <<e, d>> \in Inside}

\* uniqueRoots: a root inside another one is neither counted nor deleted twice.
Roots(t) == {d \in Declared[t] : \A e \in Declared[t] : <<d, e>> \notin Inside}

Entry(n, s) == [there |-> TRUE, files |-> n, stamp |-> s]
There(d) == tree[d].there
Size(d) == FoldFunctionOnSet(+, 0, [e \in Dirs |-> tree[e].files], Under(d))
\* The directory d is an entry of.
Parents(d) == {e \in Dirs : <<d, e>> \in Inside /\ \A f \in Dirs : <<d, f>> \in Inside => f = e \/ <<e, f>> \in Inside}
Touched(ds) == [d \in Dirs |-> IF d \in ds THEN [tree[d] EXCEPT !.stamp = @ + 1] ELSE tree[d]]

-----------------------------------------------------------------------------
(* The index *)

\* InstalledDirectoryCache::load
Loaded == IF index.kind = "whole" THEN index.rows ELSE bak.rows
Complete == "whole" \in {index.kind, bak.kind}

Row(t, d, size, e) == [title |-> t, dir |-> d, stamp |-> tree[d].stamp, size |-> size, era |-> e]
Reusable(t, d) == {r \in Loaded : r.title = t /\ r.dir = d /\ r.stamp = tree[d].stamp /\ r.size # Unknown}

\* InstalledDirectoryCache::save, in five steps of the worker; what is written
\* is job.rows, and it ends at job.next. sceIoRename does not replace a file.
SaveEnds == doing' = job.next /\ job' = [job EXCEPT !.rows = {}]
SaveFails == SaveEnds /\ slipped' = (slipped \/ job.next = "erase")

SaveStart ==
    /\ doing = "save"
    /\ \/ Smooth /\ index = WholeFile(job.rows) /\ SaveEnds /\ UNCHANGED <<tmp, slipped>>
       \/ Smooth /\ index # WholeFile(job.rows) /\ tmp' = WholeFile(job.rows) /\ doing' = "dropBak" /\ UNCHANGED <<job, slipped>>
       \/ Trouble /\ index # WholeFile(job.rows) /\ tmp' = NoFile /\ SaveFails
    /\ UNCHANGED <<index, bak, saved, era, hit, taken>>

SaveDropBak ==
    /\ doing = "dropBak"
    /\ (Smooth /\ bak' = NoFile) \/ (Trouble /\ bak' = bak)
    /\ doing' = "moveOld"
    /\ UNCHANGED <<index, tmp, job, history>>

\* The old file removed instead of moved.
SaveRemoveOld ==
    /\ doing = "moveOld" /\ Smooth
    /\ index' = NoFile /\ doing' = "moveNew"
    /\ UNCHANGED <<bak, tmp, job, history>>
SaveMoveOld ==
    /\ doing = "moveOld"
    /\ \/ Smooth /\ index # NoFile /\ bak = NoFile /\ bak' = index /\ index' = NoFile
       \/ (IF index = NoFile \/ bak # NoFile THEN Smooth ELSE Trouble) /\ UNCHANGED <<index, bak>>
    /\ doing' = "moveNew"
    /\ UNCHANGED <<tmp, job, history>>

\* previous: the old file is now at .bak.
Previous == index = NoFile /\ bak # NoFile
SaveMoveNew ==
    /\ doing = "moveNew"
    /\ \/ Smooth /\ index = NoFile /\ index' = tmp /\ tmp' = NoFile /\ saved' = TRUE
          /\ doing' = "cleanBak" /\ UNCHANGED <<bak, job, slipped>>
       \/ /\ IF index # NoFile THEN Smooth ELSE Trouble
          /\ IF Previous THEN index' = bak /\ bak' = NoFile ELSE UNCHANGED <<index, bak>>
          /\ tmp' = NoFile /\ SaveFails /\ UNCHANGED saved
    /\ UNCHANGED <<era, hit, taken>>

SaveCleanBak ==
    /\ doing = "cleanBak"
    /\ (Smooth /\ bak' = NoFile) \/ (Trouble /\ bak # NoFile /\ bak' = bak)
    /\ SaveEnds
    /\ UNCHANGED <<index, tmp, history>>

Save == /\ SaveStart \/ SaveDropBak \/ SaveMoveOld \/ SaveMoveNew \/ SaveCleanBak
        /\ UNCHANGED <<disk, ui, whims>>

-----------------------------------------------------------------------------
(* The worker: installedDataWorkerEntry *)

Absent == [there |-> FALSE, size |-> Unknown, era |-> 0]
NoApps == [t \in Titles |-> [pkg |-> FALSE, at |-> [d \in Dirs |-> Absent]]]
NoJob == [action |-> "none", title |-> NoTitle, cancel |-> FALSE, refused |-> FALSE,
          vpk |-> FALSE, files |-> FALSE, harmed |-> FALSE,
          left |-> {}, rows |-> {}, next |-> "none", found |-> NoApps]
Outcome == [NoJob EXCEPT !.action = job.action, !.title = job.title, !.refused = job.refused,
                         !.vpk = job.vpk, !.files = job.files, !.harmed = job.harmed]

WithData == {"data", "both"}
WithPackage == {"app", "both"}
ReadOnly == {"open", "measure"}
Removal == WithData \union WithPackage

Listed(t) == {d \in Roots(t) : snap[t].at[d].there}
\* The snapshot asked instead of the disk.
InUseListed(t) == \E u \in Titles \ {t} : snap[u].pkg /\ \E d \in Listed(t), e \in Roots(u) : Overlap(d, e)
\* validateExternalRemoval: what counts of another title is whether it is
\* installed now, not what the snapshot says of it.
InUse(t) == \E u \in installed \ {t} : \E d \in Listed(t), e \in Roots(u) : Overlap(d, e)
Removable(t) == /\ Listed(t) # {}
                /\ \A d \in Listed(t) : There(d)
                /\ ~InUse(t)

\* prepareExternalRemoval, which also counts every entry.
PrepareRemoval ==
    /\ doing = "prepare"
    /\ \/ /\ Smooth /\ Removable(job.title)
          /\ doing' = IF job.action = "both" THEN "uninstall" ELSE "check"
          /\ UNCHANGED job
       \/ /\ IF Removable(job.title) THEN Trouble ELSE Smooth
          /\ doing' = "scan" /\ job' = [job EXCEPT !.refused = TRUE]
    /\ UNCHANGED <<disk, cache, history, snap>>

\* uninstallPackage: the promoter may remove the package and still fail to say so.
Uninstall ==
    /\ doing = "uninstall"
    /\ \/ /\ Smooth /\ job.title \in installed /\ installed' = installed \ {job.title}
          /\ job' = [job EXCEPT !.vpk = TRUE] /\ doing' = "forget"
       \/ /\ (job.title \notin installed /\ Smooth) \/ (job.title \in installed /\ Trouble)
          /\ installed' \in {installed, installed \ {job.title}}
          /\ doing' = IF job.action = "app" THEN "done" ELSE "scan"
          /\ UNCHANGED job
    /\ UNCHANGED <<tree, receipt, cache, history, snap>>

Forget ==
    /\ doing = "forget" /\ Smooth
    /\ receipt' = [receipt EXCEPT ![job.title] = None]
    /\ IF job.action = "app"
       THEN snap' = [snap EXCEPT ![job.title].pkg = FALSE] /\ doing' = "done"
       ELSE doing' = "check" /\ UNCHANGED snap
    /\ UNCHANGED <<installed, tree, cache, history, job>>

\* The size left in the index.
Uninvalidated(j, t) == job' = j /\ doing' = "erase"
\* removeExternal: validates again, and invalidates the size before it removes
\* anything; invalidateTitle writes nothing when it has no index or no such row.
Invalidated(j, t) ==
    LET rest == {r \in Loaded : r.title # t} IN
    /\ job' = [j EXCEPT !.rows = rest, !.next = "erase"]
    /\ doing' = IF Complete /\ rest # Loaded THEN "save" ELSE "erase"

RemoveExternal ==
    /\ doing = "check" /\ Smooth
    /\ IF Removable(job.title)
       THEN /\ Invalidated([job EXCEPT !.left = Listed(job.title)], job.title)
            /\ era' = era + 1
       ELSE doing' = "scan" /\ UNCHANGED <<job, era>>
    /\ UNCHANGED <<disk, cache, hit, taken, slipped, saved, snap>>

\* eraseTree takes the entries of one root in any order, a directory after what
\* is in it, and gives the root up at the first entry it cannot remove.
Root == CHOOSE d \in job.left : TRUE
TakeFrom(d) == /\ hit' = [hit EXCEPT ![job.title] = era]
               /\ taken' = [x \in Dirs |-> IF d \in Under(x) THEN era ELSE taken[x]]
Empties(d) == /\ There(d) /\ tree[d].files = 0
              /\ \A e \in Dirs : <<e, d>> \in Inside => ~There(e)
EraseStep ==
    \/ \E d \in Under(Root) :
          /\ There(d) /\ tree[d].files > 0 /\ Smooth
          /\ tree' = [Touched({d}) EXCEPT ![d].files = @ - 1]
          /\ TakeFrom(d)
          /\ UNCHANGED job
    \/ \E d \in Under(Root) :
          /\ Empties(d) /\ Smooth
          /\ tree' = [Touched(Parents(d)) EXCEPT ![d].there = FALSE]
          /\ TakeFrom(d)
          /\ job' = IF d = Root THEN [job EXCEPT !.left = @ \ {d}] ELSE job
    \/ /\ Trouble
       /\ job' = [job EXCEPT !.left = @ \ {Root}, !.harmed = TRUE]
       /\ UNCHANGED <<tree, hit, taken>>
    \/ /\ ~There(Root) /\ Smooth
       /\ job' = [job EXCEPT !.left = @ \ {Root}] /\ UNCHANGED <<tree, hit, taken>>

Erase ==
    /\ doing = "erase"
    /\ \/ job.left # {} /\ EraseStep /\ UNCHANGED doing
       \/ /\ job.left = {} /\ Smooth
          /\ job' = [job EXCEPT !.files = ~job.harmed]
          /\ doing' = IF job.harmed THEN "scan" ELSE "revise"
          /\ UNCHANGED <<tree, hit, taken>>
    /\ UNCHANGED <<installed, receipt, cache, era, slipped, saved, snap>>

\* The receipt of a title that is still installed no longer names a revision of
\* its data; writeReceipt removes the old file before it renames the new one.
Revised(t) == IF receipt[t] = None THEN None ELSE "app"
Revise ==
    /\ doing = "revise"
    /\ \/ Smooth /\ receipt' = [receipt EXCEPT ![job.title] = Revised(job.title)]
       \/ Trouble /\ \E r \in {None, receipt[job.title]} : receipt' = [receipt EXCEPT ![job.title] = r]
    /\ doing' = "scan"
    /\ UNCHANGED <<installed, tree, cache, history, job, snap>>

-----------------------------------------------------------------------------
(* InstalledDataManager::scan *)

\* Which titles a scan looks at, and whether it walks their directories.
Scope == IF job.action = "open" /\ job.title = NoTitle THEN Titles ELSE {job.title}
Deep == job.action \in {"measure", "auto"}
Pairs(ts) == {p \in ts \X Dirs : p[2] \in Roots(p[1])}

\* What becomes of a root: a stopped scan may not have come to it at all, keep
\* what the index says, or have begun to count it.
Outcomes(stopped) == (IF Deep THEN {"counted", "cut"} ELSE {"kept"})
                     \union (IF stopped THEN {"missed", "kept"} ELSE {})

Known(t, d) == IF Reusable(t, d) = {} THEN [there |-> TRUE, size |-> Unknown, era |-> 0]
               ELSE LET r == CHOOSE r \in Reusable(t, d) : TRUE IN
                    [there |-> TRUE, size |-> r.size, era |-> r.era]
Seen(t, d, how) ==
    CASE ~There(d) \/ how = "missed" -> Absent
      [] how = "kept" -> Known(t, d)
      [] how = "counted" -> [there |-> TRUE, size |-> Size(d), era |-> era]
      [] how = "cut" -> [there |-> TRUE, size |-> Unknown, era |-> 0]

Found(how) == [t \in Titles |->
    [pkg |-> t \in Scope /\ t \in installed,
     at |-> [d \in Dirs |-> IF <<t, d>> \in DOMAIN how THEN Seen(t, d, how[<<t, d>>]) ELSE Absent]]]

\* The index of the next time: what this scan has seen, and what was known of
\* the titles it did not look at.
Kept(how, found) ==
    {Row(p[1], p[2], found[p[1]].at[p[2]].size, found[p[1]].at[p[2]].era) :
        p \in {q \in DOMAIN how : found[q[1]].at[q[2]].there /\ how[q] # "cut"}}
    \union {r \in Loaded : r.title \notin Scope /\ r.dir \in Roots(r.title)}

AfterScan == IF job.action = "auto" THEN "done" ELSE "merging"

\* A cancellation is seen before the first root; the time budget may end at any.
\* An unreadable directory is not counted, and its row is not saved.
Scan ==
    /\ doing = "scan"
    /\ \E stopped \in IF job.cancel THEN {TRUE} ELSE BOOLEAN :
       \E how \in [Pairs(Scope) -> Outcomes(stopped)] :
          /\ job.cancel => \A p \in DOMAIN how : how[p] = "missed"
          /\ IF ~stopped /\ (\E p \in DOMAIN how : how[p] = "cut") THEN Trouble ELSE Smooth
          /\ job' = [job EXCEPT !.found = Found(how), !.next = AfterScan,
                                !.rows = IF stopped THEN {} ELSE Kept(how, Found(how))]
          /\ doing' = IF stopped THEN AfterScan ELSE "save"
    /\ UNCHANGED <<disk, cache, history, snap>>

\* The result of the background measurement waits for the UI thread; the others
\* are moved into the snapshot by the worker itself, in more than one step.
Merging ==
    /\ doing = "merging" /\ Smooth
    /\ snap' = IF job.action = "open" THEN job.found
               ELSE [snap EXCEPT ![job.title] = job.found[job.title]]
    /\ doing' = "done" /\ job' = [job EXCEPT !.found = NoApps]
    /\ UNCHANGED <<disk, cache, history>>

Worker ==
    \/ Save
    \/ /\ PrepareRemoval \/ Uninstall \/ Forget \/ RemoveExternal \/ Erase \/ Revise \/ Scan \/ Merging
       /\ UNCHANGED <<on, menu, rows, whims>>

-----------------------------------------------------------------------------
(* The UI thread *)

Shut == [visible |-> FALSE, detail |-> FALSE, confirm |-> FALSE, result |-> FALSE,
         auto |-> FALSE, closing |-> FALSE, target |-> NoTitle, preferred |-> NoTitle,
         tried |-> {}, choice |-> "none"]

\* startInstalledDataOperation: the thread may not be created.
Entrance(a) == CASE a \in WithData -> "prepare" [] a = "app" -> "uninstall" [] OTHER -> "scan"
StartOperation(a, t) ==
    \/ /\ Smooth /\ doing' = Entrance(a)
       /\ job' = [NoJob EXCEPT !.action = a, !.title = t]
    \/ Trouble /\ doing' = "none" /\ job' = NoJob

\* startNextInstalledDataAutoMeasure, from the menu m, snapshot s and rows r.
Unmeasured(m, s, r) ==
    {t \in r \ m.tried : \E d \in Dirs : s[t].at[d].there /\ s[t].at[d].size = Unknown}
StartNext(m, s, r) ==
    IF ~m.auto \/ ~m.visible \/ m.detail \/ m.confirm \/ m.result \/ m.closing \/ Unmeasured(m, s, r) = {}
    THEN menu' = m /\ doing' = "none" /\ job' = NoJob /\ Smooth
    ELSE \E t \in Unmeasured(m, s, r) :
            /\ menu' = [m EXCEPT !.tried = @ \union {t}]
            /\ StartOperation("auto", t)

\* rebuildInstalledDataVisibleRows
Visible(s, m) == {t \in Titles : s[t].pkg \/ t = m.preferred \/ \E d \in Dirs : s[t].at[d].there}

\* From the storage menu, or for one title from its page in the catalog.
OpenMenu ==
    /\ on /\ ~menu.visible /\ Whim
    /\ \E t \in Titles \union {NoTitle} :
          /\ menu' = [Shut EXCEPT !.visible = TRUE, !.auto = (t = NoTitle), !.detail = (t # NoTitle),
                                  !.target = t, !.preferred = t]
          /\ StartOperation("open", t)
    /\ UNCHANGED <<disk, cache, history, on, snap, rows>>

\* closeInstalledDataMenu, with or without the measurement still running.
CloseMenu ==
    IF doing = "none"
    THEN menu' = Shut /\ snap' = NoApps /\ rows' = {} /\ job' = NoJob
    ELSE menu' = [menu EXCEPT !.closing = TRUE] /\ job' = [job EXCEPT !.cancel = TRUE] /\ UNCHANGED <<snap, rows>>

Navigable == on /\ menu.visible /\ (doing = "none" \/ job.action = "auto")

\* Circle in the list or on a page: back to the list, or out of the menu.
Back ==
    /\ Navigable /\ ~menu.result /\ ~menu.confirm
    /\ IF menu.detail /\ menu.preferred = NoTitle
       THEN /\ IF doing = "none" THEN StartNext([menu EXCEPT !.detail = FALSE], snap, rows)
               ELSE menu' = [menu EXCEPT !.detail = FALSE] /\ UNCHANGED <<doing, job>> /\ Smooth
            /\ UNCHANGED <<snap, rows>>
       ELSE CloseMenu /\ UNCHANGED doing /\ Smooth
    /\ UNCHANGED <<disk, cache, history, on, whims>>

CancelScan ==
    /\ on /\ menu.visible /\ doing # "none" /\ job.action \in ReadOnly /\ ~job.cancel
    /\ Whim
    /\ job' = [job EXCEPT !.cancel = TRUE]
    /\ UNCHANGED <<disk, cache, history, ui, doing, trouble>>

Select ==
    /\ Navigable /\ ~menu.result /\ ~menu.confirm /\ ~menu.detail
    /\ \E t \in rows : menu' = [menu EXCEPT !.target = t, !.detail = TRUE]
    /\ UNCHANGED <<disk, cache, history, on, snap, rows, doing, job, trouble, whims>>

CanApp == menu.target # NoTitle /\ snap[menu.target].pkg
CanData == menu.target # NoTitle /\ Listed(menu.target) # {}
Available(a) == CASE a = "app" -> CanApp [] a = "data" -> CanData [] a = "both" -> CanApp /\ CanData

\* activateInstalledDataSelection on a page: asks first, and never while a
\* measurement runs.
Ask ==
    /\ Navigable /\ doing = "none" /\ menu.detail /\ ~menu.result /\ ~menu.confirm
    /\ \E a \in Removal : Available(a) /\ menu' = [menu EXCEPT !.confirm = TRUE, !.choice = a]
    /\ UNCHANGED <<disk, cache, history, on, snap, rows, doing, job, trouble, whims>>

Decline ==
    /\ Navigable /\ menu.confirm
    /\ menu' = [menu EXCEPT !.confirm = FALSE, !.choice = "none"]
    /\ UNCHANGED <<disk, cache, history, on, snap, rows, doing, job, trouble, whims>>

Confirm ==
    /\ Navigable /\ doing = "none" /\ menu.confirm /\ Available(menu.choice)
    /\ Whim
    /\ menu' = [menu EXCEPT !.confirm = FALSE, !.choice = "none"]
    /\ StartOperation(menu.choice, menu.target)
    /\ UNCHANGED <<disk, cache, history, on, snap, rows>>

MeasureAgain ==
    /\ Navigable /\ doing = "none" /\ menu.detail /\ ~menu.result /\ ~menu.confirm /\ Whim
    /\ StartOperation("measure", menu.target)
    /\ UNCHANGED <<disk, cache, history, ui>>

\* finishInstalledDataResult
FinishResult ==
    /\ Navigable /\ doing = "none" /\ menu.result
    /\ IF menu.preferred # NoTitle
       THEN CloseMenu /\ UNCHANGED doing /\ Smooth
       ELSE LET m == [menu EXCEPT !.result = FALSE, !.confirm = FALSE, !.detail = FALSE, !.target = NoTitle] IN
            /\ rows' = Visible(snap, m)
            /\ StartNext(m, snap, Visible(snap, m))
            /\ UNCHANGED snap
    /\ UNCHANGED <<disk, cache, history, on, whims>>

\* A close that was asked for during the measurement forgotten.
PollAutoForgets ==
    /\ job.action = "auto"
    /\ LET s == [snap EXCEPT ![job.title] = job.found[job.title]] IN
       snap' = s /\ StartNext(menu, s, rows) /\ UNCHANGED rows
\* pollInstalledDataOperation, once the worker is done.
PollAuto ==
    /\ job.action = "auto"
    /\ LET s == [snap EXCEPT ![job.title] = job.found[job.title]] IN
       IF menu.closing
       THEN menu' = Shut /\ snap' = NoApps /\ rows' = {} /\ job' = NoJob /\ doing' = "none" /\ Smooth
       ELSE snap' = s /\ StartNext(menu, s, rows) /\ UNCHANGED rows

PollOther ==
    /\ job.action # "auto"
    /\ LET m == [menu EXCEPT !.confirm = FALSE, !.result = menu.result \/ job.action \in Removal] IN
       /\ rows' = Visible(snap, m)
       /\ IF job.action = "open" THEN StartNext(m, snap, Visible(snap, m))
          ELSE menu' = m /\ doing' = "none" /\ Smooth /\ job' = IF m.result THEN Outcome ELSE NoJob
    /\ UNCHANGED snap

Poll == /\ on /\ menu.visible /\ doing = "done" /\ (PollAuto \/ PollOther)
        /\ UNCHANGED <<disk, cache, history, on, whims>>

-----------------------------------------------------------------------------
(* The rest of the world *)

\* The menu is closed: installs and games run.
Idle == ~menu.visible /\ doing = "none"
Bare == [d \in Dirs |-> [there |-> FALSE, files |-> 0, stamp |-> 0]]
Filled(old, ts) ==
    LET ds == UNION {Declared[t] : t \in ts} IN
    [d \in Dirs |->
       IF d \in ds THEN Entry(MaxFiles, old[d].stamp + 1)
       ELSE IF ~old[d].there /\ \E e \in ds : <<e, d>> \in Inside THEN Entry(0, old[d].stamp + 1) ELSE old[d]]
\* A game writes another file.
Play ==
    /\ Idle /\ Whim
    /\ \E d \in Dirs : /\ There(d) /\ tree[d].files < MaxFiles
                       /\ tree' = [Touched({d}) EXCEPT ![d].files = @ + 1]
    /\ UNCHANGED <<installed, receipt, cache, ui, doing, job, history, trouble>>

StartClient == /\ ~on /\ on' = TRUE
               /\ UNCHANGED <<disk, cache, menu, snap, rows, doing, job, history, trouble, whims>>

DataPowerCut ==
    /\ on /\ Trouble /\ on' = FALSE
    /\ menu' = Shut /\ snap' = NoApps /\ rows' = {} /\ doing' = "none" /\ job' = NoJob
    /\ IF doing = "dropBak" THEN tmp' \in {tmp, Torn} ELSE tmp' = tmp
    /\ UNCHANGED <<disk, index, bak, history, whims>>

DataInit ==
    /\ installed \in SUBSET Titles
    /\ receipt = [t \in Titles |-> IF t \in installed THEN "data" ELSE None]
    /\ tree = Filled(Bare, installed)
    /\ index = NoFile /\ bak = NoFile /\ tmp = NoFile
    /\ on = TRUE /\ menu = Shut /\ snap = NoApps /\ rows = {}
    /\ doing = "none" /\ job = NoJob
    /\ era = 0 /\ hit = [t \in Titles |-> 0] /\ taken = [d \in Dirs |-> 0] /\ slipped = FALSE /\ saved = FALSE
    /\ trouble = 0 /\ whims = 0

User == OpenMenu \/ Back \/ CancelScan \/ Select \/ Ask \/ Decline \/ Confirm \/ MeasureAgain \/ FinishResult
World == Play \/ StartClient \/ DataPowerCut
DataNext == Worker \/ Poll \/ User \/ World

DataSpec == DataInit /\ [][DataNext]_dataVars
\* The worker is scheduled and the UI thread polls every frame.
DataFairSpec == DataSpec /\ WF_dataVars(Worker) /\ WF_dataVars(Poll)

-----------------------------------------------------------------------------
(* Properties *)

\* "Only another installed package claiming an overlapping root blocks a
\* destructive action" (validateExternalRemoval), and always does: no step of a
\* removal takes a file or a directory from where another installed title keeps its own.
SharedKept ==
    [][doing = "erase" /\ tree' # tree =>
       \A u \in installed \ {job.title} : \A d \in Roots(u) :
          \A e \in Under(d) : tree'[e].files = tree[e].files /\ tree'[e].there = tree[e].there]_dataVars

\* removeExternal invalidates the size before it removes anything, and the worker
\* merges what it finds afterwards: unless the index could not be rewritten first, a
\* size the menu knows of a title is from after the last removal made for it, however
\* that went, and after the last one that took anything from that directory, with one
\* exception: a removal made for another title that names an overlapping root.
Behind(size, d) == size.era < taken[d]
TakenByAnother(t, d, size) ==
    \E u \in Titles \ {t} : hit[u] > size.era /\ \E e \in Roots(u) : Overlap(d, e)
OldSizeGone ==
    menu.visible /\ doing = "none" /\ ~slipped =>
       \A t \in Titles : \A d \in Roots(t) : LET size == snap[t].at[d] IN
          size.size # Unknown => /\ size.era >= hit[t]
                                 /\ Behind(size, d) => TakenByAnother(t, d, size)

\* "After any destructive attempt the old size must never be displayed again"
\* (removeExternal): the rows of the list show no size from before the last removal
\* that took anything from that directory.
OldSizeNeverShown ==
    menu.visible /\ ~menu.detail /\ ~menu.result /\ doing = "none" /\ ~slipped =>
       \A t \in rows : \A d \in Roots(t) : snap[t].at[d].size # Unknown => ~Behind(snap[t].at[d], d)

\* "A previous complete version can be recovered" (load): one failed call or
\* power cut, wherever it comes, does not lose an index that has been written: the
\* next time it is read, one of the two files is whole.
Replacing == doing \in {"dropBak", "moveOld", "moveNew", "cleanBak"}
IndexKept == saved /\ trouble < 2 /\ ~Replacing => Complete

\* closeInstalledDataMenu during a measurement only asks it to stop: the request
\* is not forgotten, and the menu closes when the worker has ended.
CloseHonoured == menu.closing ~> ~menu.visible
=============================================================================
