------------------------------ MODULE VpkInstall ------------------------------
(* Installing one application from its package: source/installer/homebrew_installer.cpp, installVpk(), and        *)
(* source/installer/refresh_manager.cpp, refreshTitleLiveArea().                                                  *)
(* The package is unpacked into one staging folder, ux0:data/psva_vpk, and given to the system's promoter, which  *)
(* moves the folder to ux0:app; what the promoter really did is read off the folders. When the application is     *)
(* not there, the staged files are copied, and the copy is registered by moving it to ux0:temp/app and promoting  *)
(* it from there. Unpacking is one step here: ZipExtract shows what it leaves behind.                             *)
EXTENDS Naturals, FiniteSets

CONSTANTS
  Packages,    \* what the download may be, subset of Kinds
  MaxFaults,   \* bound: I/O errors and refusals of the system
  MaxCuts,     \* bound: power cuts
  MaxInstalls  \* bound: installations

\* A package with its files at the top, or inside an inner package; one whose TITLE_ID cannot be read; one without
\* eboot.bin or param.sfo; a file that is no archive; an archive whose paths are refused.
Kinds == {"direct", "nested", "anonymous", "incomplete", "foreign", "unsafe"}
ASSUME PackagesAssumption == Packages \subseteq Kinds

\* A folder is the version of each file in it; one being written is torn.
Parts == {"eboot", "sfo", "data"}
Versions == {"none", "torn", "old", "new"}
Trees == [Parts -> Versions]
NoTree == [p \in Parts |-> "none"]
Whole(v) == [p \in Parts |-> v]
IsWhole(t) == \E v \in {"old", "new"} : t = Whole(v)
HasTree(t) == t["eboot"] # "none" \/ t["sfo"] # "none"

VARIABLES
  pack,      \* the package of this installation
  pc,        \* where installVpk() is; "off" is a console without power
  again,     \* extractAttempt
  copied,    \* ux0:data/psvitaalive/tmp/nested_source.vpk is there, whole or not
  stage,     \* ux0:data/psva_vpk
  app,       \* ux0:app/<TITLE_ID>
  temp,      \* ux0:temp/app
  promoter,  \* the system's promoter: "idle", "busy", "failed"
  result,    \* the InstallResult
  live,      \* lastLiveAreaOk_
  cancel,    \* the caller's cancel flag
  before,    \* (history) the application when installVpk() was called
  faults, cuts, installs

folders == <<stage, app, temp>>
budget == <<faults, cuts, installs>>
vars == <<pack, pc, again, copied, folders, promoter, result, live, cancel, before, budget>>

Fault == faults < MaxFaults /\ faults' = faults + 1
Running == pc \notin {"idle", "done", "off"}
HasTitle == pack # "anonymous"

Init ==
  /\ pack \in Packages /\ pc = "idle"
  /\ again = FALSE /\ copied = FALSE
  /\ stage = NoTree /\ temp = NoTree
  /\ app \in {NoTree, Whole("old"), [NoTree EXCEPT !["data"] = "old"]}
  /\ promoter = "idle" /\ result = "none" /\ live = FALSE /\ cancel = FALSE
  /\ before = app
  /\ faults = 0 /\ cuts = 0 /\ installs = 0

\* The staging folder is cleared before it is used, whatever an earlier installation left in it.
InstallVpk ==
  /\ pc \in {"idle", "done"} /\ installs < MaxInstalls
  /\ installs' = installs + 1
  /\ pack' \in Packages
  /\ again' = FALSE /\ live' = FALSE /\ cancel' = FALSE
  /\ before' = app
  /\ \/ pack' = "foreign" /\ pc' = "done" /\ result' = "NotVpk" /\ UNCHANGED <<stage, faults>>
     \/ pack' # "foreign" /\ pc' = "extract" /\ result' = "none" /\ stage' = NoTree /\ UNCHANGED faults
     \/ pack' # "foreign" /\ Fault /\ pc' = "done" /\ result' = "IoError" /\ stage' = NoTree
  /\ UNCHANGED <<copied, app, temp, promoter, cuts>>

CancelJob ==
  /\ Running /\ ~cancel
  /\ cancel' = TRUE
  /\ UNCHANGED <<pack, pc, again, copied, folders, promoter, result, live, before, budget>>

\* An early return: the staging folder is removed first.
GiveUp(r) == pc' = "done" /\ result' = r /\ stage' = NoTree

\* zip.extract: the whole package, nothing, or refused; an I/O error is tried once more, the others are not.
Extract ==
  /\ pc = "extract"
  /\ \/ /\ ~cancel /\ pack # "unsafe"
        /\ pc' = "layout"
        /\ stage' = CASE pack = "nested" -> NoTree
                      [] pack = "incomplete" -> [Whole("new") EXCEPT !["eboot"] = "none"]
                      [] OTHER -> Whole("new")
        /\ UNCHANGED <<again, result, faults>>
     \/ /\ cancel
        /\ GiveUp("Cancelled") /\ UNCHANGED <<again, faults>>
     \/ /\ ~cancel /\ pack = "unsafe"
        /\ GiveUp("ExtractFailed") /\ UNCHANGED <<again, faults>>
     \/ /\ ~cancel /\ Fault
        /\ IF again
             THEN GiveUp("ExtractFailed") /\ UNCHANGED again
             ELSE again' = TRUE /\ UNCHANGED <<pc, result, stage>>
  /\ UNCHANGED <<pack, copied, app, temp, promoter, live, cancel, before, cuts, installs>>

\* A package inside the package is copied out, after a copy left by an earlier installation has been removed, and the
\* staging folder cleared. What has been written when the copy fails is not removed; it is when a folder cannot be
\* made afterwards, and nothing is touched when that happens before.
Unwrap ==
  /\ pc = "layout" /\ pack = "nested" /\ ~HasTree(stage)
  /\ \/ pc' = "inner" /\ stage' = NoTree /\ copied' = TRUE /\ UNCHANGED <<result, faults>>
     \/ Fault /\ GiveUp("IoError") /\ copied' \in BOOLEAN
  /\ UNCHANGED <<pack, again, app, temp, promoter, live, cancel, before, cuts, installs>>

\* The inner package is unpacked, without a second try, and its copy removed whatever came of it.
ExtractInner ==
  /\ pc = "inner"
  /\ \/ ~cancel /\ pc' = "layout" /\ stage' = Whole("new") /\ UNCHANGED <<result, faults>>
     \/ cancel /\ GiveUp("Cancelled") /\ UNCHANGED faults
     \/ ~cancel /\ Fault /\ GiveUp("ExtractFailed")
  /\ copied' = FALSE
  /\ UNCHANGED <<pack, again, app, temp, promoter, live, cancel, before, cuts, installs>>

\* The layout, the package's head.bin and the promoter's module; the user may cancel until here.
Prepare ==
  /\ pc = "layout" /\ ~(pack = "nested" /\ ~HasTree(stage))
  /\ \/ /\ stage["eboot"] # "none" /\ stage["sfo"] # "none" /\ ~cancel
        /\ pc' = "promote" /\ UNCHANGED <<result, stage, faults>>
     \/ /\ stage["eboot"] = "none" \/ stage["sfo"] = "none"
        /\ GiveUp("NotVpk") /\ UNCHANGED faults
     \/ cancel /\ GiveUp("Cancelled") /\ UNCHANGED faults
     \/ Fault /\ \E r \in {"PromoteFailed", "ModuleFailed"} : GiveUp(r)
  /\ UNCHANGED <<pack, again, copied, app, temp, promoter, live, cancel, before, cuts, installs>>

\* PromotePkg takes the folder, or is refused.
Promote ==
  /\ pc = "promote"
  /\ \/ pc' = "poll" /\ promoter' = "busy" /\ UNCHANGED <<result, faults>>
     \/ Fault /\ pc' = "check" /\ result' = "PromoteFailed" /\ UNCHANGED promoter
  /\ UNCHANGED <<pack, again, copied, folders, live, cancel, before, cuts, installs>>

\* The system puts the folder in place of the application, or gives up and leaves both.
SystemPromotes ==
  /\ promoter = "busy"
  /\ \/ promoter' = "idle" /\ app' = stage /\ stage' = NoTree /\ UNCHANGED faults
     \/ Fault /\ promoter' = "failed" /\ UNCHANGED <<app, stage>>
  /\ UNCHANGED <<pack, pc, again, copied, temp, result, live, cancel, before, cuts, installs>>

\* Mutant of PollEnds: a cancel is still taken after the promoter has run.
PollEndsCancelled ==
  /\ pc = "poll"
  /\ \/ cancel /\ result' = "Cancelled" /\ pc' = "clean" /\ UNCHANGED faults
     \/ ~cancel /\ promoter # "busy" /\ result' = "Ok" /\ pc' = "check" /\ UNCHANGED faults
  /\ promoter' = "idle"
  /\ UNCHANGED <<pack, again, copied, folders, live, cancel, before, cuts, installs>>

\* The wait ends when the promoter is idle, when its state cannot be read, or after 12000 looks; leaving it ends what
\* it does. Only the last is a failure here: whether anything was installed is seen from the folders.
PollEnds ==
  /\ pc = "poll"
  /\ \/ promoter # "busy" /\ result' = "Ok" /\ UNCHANGED faults
     \/ promoter = "busy" /\ Fault /\ result' \in {"Ok", "PromoteFailed"}
  /\ pc' = "check" /\ promoter' = "idle"
  /\ UNCHANGED <<pack, again, copied, folders, live, cancel, before, cuts, installs>>

\* Mutant of Check: after a failed promotion the files are copied over whatever is there.
CheckCopiesOver ==
  /\ pc = "check"
  /\ CASE ~HasTitle -> pc' = "clean" /\ UNCHANGED <<result, live>>
       [] HasTitle /\ result = "PromoteFailed" /\ stage # NoTree -> pc' = "copy" /\ UNCHANGED <<result, live>>
       [] OTHER -> pc' = "clean" /\ live' = HasTree(app) /\ UNCHANGED result
  /\ UNCHANGED <<pack, again, copied, folders, promoter, cancel, before, budget>>

\* The application is there, a copy is tried, or the result stands when there is nothing to copy.
Check ==
  /\ pc = "check"
  /\ CASE ~HasTitle -> pc' = "clean" /\ UNCHANGED <<result, live>>
       [] HasTitle /\ HasTree(app) -> pc' = "clean" /\ result' = "Ok" /\ live' = TRUE
       [] HasTitle /\ ~HasTree(app) /\ stage # NoTree -> pc' = "copy" /\ UNCHANGED <<result, live>>
       [] OTHER -> pc' = "clean" /\ live' = FALSE /\ UNCHANGED result
  /\ UNCHANGED <<pack, again, copied, folders, promoter, cancel, before, budget>>

\* copyTreeRecursive: a file is truncated, then written; when one fails, it stays torn and those before it stay.
CopyFile ==
  /\ pc = "copy"
  /\ \/ \E p \in {q \in Parts : stage[q] # "none" /\ app[q] # stage[q]} :
          app' = [app EXCEPT ![p] = IF @ = "torn" THEN stage[p] ELSE "torn"] /\ UNCHANGED <<pc, live, faults>>
     \/ Fault /\ pc' = "clean" /\ live' = FALSE /\ UNCHANGED app
  /\ UNCHANGED <<pack, again, copied, stage, temp, promoter, result, cancel, before, cuts, installs>>

CopyEnds ==
  /\ pc = "copy" /\ \A p \in Parts : stage[p] # "none" => app[p] = stage[p]
  /\ result' = "Ok" /\ pc' = "refresh"
  /\ UNCHANGED <<pack, again, copied, folders, promoter, live, cancel, before, budget>>

\* refreshTitleLiveArea: ux0:temp/app is emptied and the application moved there.
MoveToTemp ==
  /\ pc = "refresh"
  /\ \/ temp' = app /\ app' = NoTree /\ pc' = "register" /\ UNCHANGED <<live, faults>>
     \/ Fault /\ temp' = NoTree /\ pc' = "clean" /\ live' = HasTree(app) /\ UNCHANGED app
  /\ UNCHANGED <<pack, again, copied, stage, promoter, result, cancel, before, cuts, installs>>

\* The promoter puts it back; if it does not, the folder is renamed back.
Register ==
  /\ pc = "register"
  /\ \/ app' = temp /\ temp' = NoTree /\ pc' = "clean" /\ live' = HasTree(app') /\ UNCHANGED faults
     \/ Fault /\ pc' = "restore" /\ UNCHANGED <<app, temp, live>>
  /\ UNCHANGED <<pack, again, copied, stage, promoter, result, cancel, before, cuts, installs>>

Restore ==
  /\ pc = "restore"
  /\ \/ app' = temp /\ temp' = NoTree /\ UNCHANGED faults
     \/ Fault /\ UNCHANGED <<app, temp>>
  /\ pc' = "clean" /\ live' = HasTree(app')
  /\ UNCHANGED <<pack, again, copied, stage, promoter, result, cancel, before, cuts, installs>>

\* Mutant of CleanUp: the staging folder is only removed after a success.
CleanUpAfterOk ==
  /\ pc = "clean"
  /\ stage' = IF result = "Ok" THEN NoTree ELSE stage
  /\ pc' = "done"
  /\ UNCHANGED <<pack, again, copied, app, temp, promoter, result, live, cancel, before, budget>>

CleanUp ==
  /\ pc = "clean"
  /\ stage' = NoTree
  /\ pc' = "done"
  /\ UNCHANGED <<pack, again, copied, app, temp, promoter, result, live, cancel, before, budget>>

PowerCut ==
  /\ Running /\ cuts < MaxCuts
  /\ cuts' = cuts + 1
  /\ pc' = "off" /\ promoter' = "idle" /\ result' = "none" /\ live' = FALSE
  /\ UNCHANGED <<pack, again, copied, folders, cancel, before, faults, installs>>

\* cleanupTransient removes the staging folder and the inner package, and knows nothing of ux0:temp/app.
Restart ==
  /\ pc = "off"
  /\ pc' = "idle"
  /\ stage' = NoTree /\ copied' = FALSE /\ again' = FALSE /\ cancel' = FALSE
  /\ UNCHANGED <<pack, app, temp, promoter, result, live, before, budget>>

Step ==
  \/ Extract \/ Unwrap \/ ExtractInner \/ Prepare \/ Promote \/ PollEnds
  \/ Check \/ CopyFile \/ CopyEnds \/ MoveToTemp \/ Register \/ Restore \/ CleanUp

Next == InstallVpk \/ CancelJob \/ Step \/ SystemPromotes \/ PowerCut \/ Restart

Spec == Init /\ [][Next]_vars
\* The worker goes on, the promoter comes to an end, and after a power cut the application is started again.
FairSpec == Spec /\ WF_vars(Step) /\ WF_vars(SystemPromotes) /\ WF_vars(Restart)

-----------------------------------------------------------------------------
(* What an installation may do to the application. *)

\* A whole application stays whole, of the old version or the new one, through failures of the promoter, cancels and
\* power cuts. Only the refresh moves it, whole, to ux0:temp/app; there it is not lost either: it leaves that place for
\* its own, or when a whole application has come to ux0:app meanwhile.
WholeAppStays ==
  [][/\ IsWhole(app) => IsWhole(app') \/ temp' = app
     /\ IsWhole(temp) => IsWhole(temp') \/ IsWhole(app')]_vars

\* A failed or cancelled installation leaves the application as it was; only where there was none may the copy have
\* left a part.
FailureKeepsApp ==
  pc = "done" /\ result # "Ok" => app = before \/ (result = "PromoteFailed" /\ ~HasTree(before))

\* Every installation ends, and the staging folder all installations share is cleared, also after a power cut; the
\* copy of an inner package goes when that package has been unpacked or given up, and at the start after a power cut.
StagingReclaimed ==
  /\ stage # NoTree ~> stage = NoTree
  /\ pc \in {"inner", "off"} ~> ~copied

\* "After success, failure or cancellation the temporary resources that belong to the job must be removed"
\* (STORAGE_CLEANUP_FOOTER): an installation that has ended leaves no copy of an inner package.
NoCopyLeft == pc = "done" => ~copied
=============================================================================
