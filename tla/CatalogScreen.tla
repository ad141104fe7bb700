--------------------------- MODULE CatalogScreen ---------------------------
(***************************************************************************)
(* The catalog screen (ui/full_catalog_screen.cpp) and the loop of main.cpp *)
(* around it.                                                               *)
(*                                                                          *)
(* Many dialogs can lie over the catalog, each with a flag of its own, and   *)
(* no stack says which is on top: handleInput, handleTouch and the drawing   *)
(* each test the flags in an order of their own.  A frame reads the buttons  *)
(* (pc = "input"), then the finger (after a press pc = "touch"), then ends    *)
(* the way updateAndDraw does, and main.cpp goes on: the catalog that came,   *)
(* the progress of the install service (InstallAll), the steps of the start.  *)
(*                                                                            *)
(* Where a control lies is left out: an event of a dialog is any control of    *)
(* it.  A handler is a function from a world to the worlds it may leave; a      *)
(* press that changes nothing is no press.                                      *)
(***************************************************************************)
EXTENDS InstallAll, FiniteSets

CONSTANTS
    Home, Psp,    \* the Homebrew catalog and the one that asks for the PSP setup
    Lists,        \* Lists[tab]: the lists the catalog of the tab may have
    MaxWork,      \* threads at work at once
    MaxEvents     \* presses and touches of a run

Tabs == DOMAIN Lists

ASSUME CatalogScreenAssumption ==
    /\ Home \in Tabs
    /\ \A tab \in Tabs : Lists[tab] \subseteq Seq(Apps)
    /\ {MaxWork, MaxEvents} \subseteq Nat

VARIABLES
    open,     \* the dialogs whose flag is set
    ui,       \* the page beneath: its mode (and the one the settings go back to), the tab
              \* and its list, the selection, the filter, whether it loads, whether the PSP
              \* setup was made, an armed deletion, and what a dialog was opened for
    work,     \* the threads of the screen that are still running: scan, remove, data,
              \* report, feedback, request, update
    stage,    \* how far the start of the program has come: catalog, theme, news,
              \* essential, over; "off": the program has ended
    events,   \* what the user did so far, counted
    pc

vars == <<jobVars, open, ui, work, stage, events, pc>>

Dialogs == {"keyboard", "data", "storage", "savedZip", "archive", "plugin", "essential",
            "psp", "webQr", "protection", "theme", "filter", "report", "request", "news"}

Now == [b |-> batch, e |-> essential, i |-> installer, s |-> shown, reboot |-> reboot,
        view |-> view, faults |-> faults, t |-> truth,
        open |-> open, ui |-> ui, work |-> work, stage |-> stage]

NoAsk == [item |-> 0, app |-> NoApp, all |-> FALSE]

\* The world that follows; what only a closed dialog would read is forgotten.
Show(u, next) ==
    /\ Become(u)
    /\ open' = u.open /\ work' = u.work /\ stage' = u.stage
    /\ ui' = [u.ui EXCEPT
                !.ask = IF u.open \cap {"savedZip", "psp", "plugin"} = {} THEN NoAsk ELSE @,
                !.back = IF u.ui.mode = "SETTINGS" THEN @ ELSE "FULL_CATALOG"]
    /\ pc' = IF u.stage = "off" THEN "off" ELSE next

Then(worlds, step(_)) == UNION {step(u) : u \in worlds}

Init ==
    /\ batch = NoBatch /\ essential = NoQueue /\ installer = NoJob
    /\ shown = [active |-> FALSE, outcome |-> "none", zip |-> FALSE]
    /\ reboot = FALSE /\ view = <<>> /\ faults = 0 /\ truth = NoTruth
    /\ open = {} /\ work = {} /\ stage = "catalog" /\ events = 0 /\ pc = "input"
    /\ ui = [mode |-> "FULL_CATALOG", back |-> "FULL_CATALOG", tab |-> Home, list |-> <<>>,
             sel |-> 1, filter |-> "all", loading |-> TRUE, psp |-> FALSE,
             sure |-> FALSE, ask |-> NoAsk]

-----------------------------------------------------------------------------
(* What a handler asks of the screen *)

Opens(u, d) == [u EXCEPT !.open = @ \cup {d}]
Closes(u, d) == [u EXCEPT !.open = @ \ {d}]
Off(u) == [u EXCEPT !.stage = "off"]

\* A thread is started, or cannot be.
Hires(u, w) ==
    {u} \cup IF Cardinality(u.work) < MaxWork THEN {[u EXCEPT !.work = @ \cup {w}]} ELSE {}

\* installer.busy(), and the thread that removes or lists saved files.
Busy(u) == ~Takes(u)
Sweeping(u) == u.work \cap {"scan", "remove"} # {}
Updating(u) == "update" \in u.work
Reporting(u) == u.work \cap {"report", "feedback"} # {}

Mode(u, modes) == u.ui.mode \in modes
Moving(u) == Mode(u, {"OPENING_DETAIL", "CLOSING_DETAIL"})
Selected(u) == u.ui.sel \in DOMAIN u.view
TheApp(u) == u.view[u.ui.sel]
Wizard(u) == u.b.phase \notin {"Hidden", "Running"}
Has(a, kinds) == \E k \in kinds : IF k = "plugin" THEN Plugins[a] > 0 ELSE Options[a][k] > 0

\* Where a view can come from: the applications of the list that match.
Views(list) ==
    Seq(Apps) \cap {SelectSeq(list, LAMBDA a : a \in kept) : kept \in SUBSET ToSet(list)}

\* rebuildFilteredItems: a filter on what is installed begins empty and is filled by
\* later frames.
Rebuilt(u) ==
    CASE u.ui.filter = "all" -> {[u EXCEPT !.view = u.ui.list]}
      [] u.ui.filter = "some" -> {[u EXCEPT !.view = v] : v \in Views(u.ui.list)}
      [] u.ui.filter = "state" -> {[u EXCEPT !.view = <<>>]}

\* applySearch and applyContentFilter
Filters(u, filter) == Rebuilt([u EXCEPT !.ui.filter = filter, !.ui.sel = 1])

CanShowFilter(u) ==
    /\ Mode(u, {"FULL_CATALOG"}) /\ ~u.ui.loading /\ ~u.s.active
    /\ u.b.phase = "Hidden" /\ ~u.reboot
    /\ u.open \cap {"news", "theme", "report", "request", "webQr", "essential", "psp",
                    "protection"} = {}

\* openStorageMenu, which starts the scan.
OpenStorage(u) ==
    IF \/ u.open \cap {"data", "storage", "news", "report", "request", "theme", "essential",
                       "savedZip"} # {}
       \/ u.b.phase # "Hidden" \/ (u.s.active /\ u.s.outcome = "none")
       \/ u.ui.loading \/ u.reboot \/ Busy(u)
    THEN {} ELSE Hires([Opens(u, "storage") EXCEPT !.ui.sure = FALSE], "scan")

\* startInstalledDataOperation
DataWork(u) == IF Sweeping(u) \/ Busy(u) THEN {u} ELSE Hires(u, "data")

\* openInstalledDataMenu
OpenData(u) ==
    IF \/ "data" \in u.open \/ "data" \in u.work \/ Sweeping(u)
       \/ u.s.active \/ u.ui.loading \/ Busy(u)
    THEN {} ELSE DataWork(Opens(u, "data"))

OpenReport(u) ==
    IF \/ Reporting(u) \/ u.s.active \/ u.ui.loading \/ Moving(u) \/ u.b.phase # "Hidden"
       \/ u.open \cap {"report", "keyboard", "news", "theme", "storage", "request"} # {}
    THEN {} ELSE {Opens(u, "report")}

\* openDataRequestConfirm, for an application without files of its own.
OpenRequest(u) ==
    IF \/ "request" \in u.work \/ u.open \cap {"report", "news"} # {}
       \/ u.b.phase # "Hidden" \/ ~Selected(u) \/ u.ui.tab # Home
    THEN {} ELSE IF Has(TheApp(u), FileKinds) THEN {} ELSE {Opens(u, "request")}

OpenSettings(u) ==
    IF u.s.active \/ u.ui.loading \/ Updating(u) \/ Mode(u, {"SETTINGS"}) THEN {}
    ELSE {[u EXCEPT !.ui.mode = "SETTINGS",
                    !.ui.back = IF Mode(u, {"SPLIT_DETAIL"}) THEN "SPLIT_DETAIL"
                                ELSE "FULL_CATALOG"]}

\* changeCatalog: the page is emptied and locked; the loader may refuse.
EmptyPage(u, tab, begun) ==
    [u EXCEPT !.view = <<>>,
              !.ui = [@ EXCEPT !.mode = "FULL_CATALOG", !.tab = tab, !.list = <<>>,
                               !.sel = 1, !.loading = begun]]
ChangeTab(u) ==
    IF u.ui.loading \/ u.s.active \/ Moving(u) THEN {}
    ELSE {EmptyPage(u, tab, begun) : tab \in Tabs \ {u.ui.tab}, begun \in BOOLEAN}

-----------------------------------------------------------------------------
(* Links *)

\* openInstallAllWizard
OpenWizard(u) ==
    CASE u.s.active \/ u.ui.loading \/ "plugin" \in u.open \/ ~Selected(u) -> {}
      [] ~u.s.active /\ ~u.ui.loading /\ "plugin" \notin u.open /\ Selected(u)
         /\ u.ui.tab = Psp /\ ~u.ui.psp ->
           {[Opens(u, "psp") EXCEPT !.ui.ask = [item |-> u.ui.sel, app |-> TheApp(u), all |-> TRUE]]}
      [] OTHER -> IF Has(TheApp(u), FileKinds \cup {"plugin"})
                  THEN {OpenBatch(u, u.ui.sel)} ELSE {}

\* applyPspLiveAreaPluginGateOrRun: what stands at the index now is installed, after
\* the consent a plugin needs.
Gate(u, item) ==
    LET a == u.view[item]
    IN IF item \notin DOMAIN u.view THEN {u}
       ELSE (IF Plugins[a] > 0
             THEN {[Opens(u, "plugin") EXCEPT !.ui.ask = [item |-> item, app |-> a, all |-> FALSE]]}
             ELSE {})
            \cup UNION {Link(u, k) : k \in {n \in ToSet(Kinds) : Has(a, {n})}}

\* activatePrimaryAction: Install All, or update or open an installed application.
PrimaryAction(u) ==
    IF u.s.active \/ u.ui.loading \/ Updating(u) THEN {}
    ELSE (IF Has(TheApp(u), FileKinds) THEN OpenWizard(u) ELSE {})
         \cup (IF u.ui.tab = Home
               THEN {Off(u)} \cup (IF Has(TheApp(u), {"app"}) THEN Link(u, "app") ELSE {})
               ELSE {})

\* activateFocusedLink: the action, a saved archive, the code of the page, or a link.
FocusedLink(u) ==
    LET asked == [u EXCEPT !.ui.ask = [item |-> u.ui.sel, app |-> TheApp(u), all |-> FALSE],
                           !.ui.sure = FALSE]
    IN IF ~Selected(u) THEN {}
       ELSE PrimaryAction(u)
            \cup (IF ~u.s.active /\ Has(TheApp(u), FileKinds)
                  THEN {Opens(asked, "savedZip")} ELSE {})
            \cup {Opens(u, "webQr")}
            \cup (IF u.ui.tab = Psp /\ ~u.ui.psp THEN {Opens(asked, "psp")}
                  ELSE Gate(u, u.ui.sel))

-----------------------------------------------------------------------------
(* The handlers of the dialogs: what any control of one does *)

\* Variant: the menu does not wait for its thread.
StorageClosesAtOnce(u) == {[Closes(u, "storage") EXCEPT !.ui.sure = FALSE]}
\* The menu of the storage.  A first press arms, a second one removes; the row of the
\* installed data opens their dialog over this one.
StorageCloses(u) ==
    IF Sweeping(u) THEN {} ELSE {[Closes(u, "storage") EXCEPT !.ui.sure = FALSE]}
StorageRows(u) ==
    IF Sweeping(u) \/ Busy(u) THEN {}
    ELSE OpenData([u EXCEPT !.ui.sure = FALSE])
         \cup (IF u.ui.sure THEN Hires([u EXCEPT !.ui.sure = FALSE], "remove")
               ELSE {[u EXCEPT !.ui.sure = TRUE]})
PressStorage(u) ==
    StorageRows(u) \cup IF u.ui.sure THEN {[u EXCEPT !.ui.sure = FALSE]} ELSE StorageCloses(u)
TouchStorage(u) == StorageRows(u) \cup StorageCloses(u)

\* The menu of the installed data; while its thread works a close is only noted.
DataMenu(u) == IF "data" \in u.work THEN {} ELSE {Closes(u, "data")} \cup DataWork(u)

\* resolveSavedZipAction
SavedZip(u) ==
    LET gone == [Closes(u, "savedZip") EXCEPT !.ui.sure = FALSE]
        listed == u.ui.ask.app \in ToSet(u.view)
    IN {gone}
       \cup (IF u.ui.sure THEN {} ELSE {[u EXCEPT !.ui.sure = TRUE]})
       \cup (IF u.ui.sure \/ u.s.active \/ ~listed THEN {}
             ELSE {IF Takes(u) /\ x.i.st = "Working" THEN Closes(x, "savedZip") ELSE x
                   : x \in Link(u, "data")})

ArchiveNotice(u) == {Closes(u, "archive")}
RebootDialog(u) == {Off(u)}

\* resolveIndividualPluginChoice: the plugin of what stands at the index now.
PluginChoice(u) ==
    LET c == Closes(u, "plugin")
        item == u.ui.ask.item
    IN {c} \cup IF ~u.s.active /\ item \in DOMAIN u.view /\ Plugins[u.view[item]] > 0
                THEN Link(c, "plugin") ELSE {}

EssentialPrompt(u) ==
    LET c == Closes(u, "essential") IN {c} \cup InstallEssential(c)

\* closePspSetupWizard; a choice the console cannot serve leaves it open.
PspSetup(u) ==
    LET c == Closes(u, "psp")
        done == [c EXCEPT !.ui.psp = TRUE]
    IN {c} \cup IF u.ui.ask.all THEN {done} \cup OpenWizard(done)
                ELSE {done} \cup Gate(done, u.ui.ask.item)

WebQr(u) == {Closes(u, "webQr")}
Protection(u) == {Closes(u, "protection")}
ThemePicker(u) == {Closes(u, "theme")}
News(u) == {Closes(u, "news")}
FilterMenu(u) == {Closes(u, "filter")}
                 \cup UNION {Filters(Closes(u, "filter"), f) : f \in {"all", "some", "state"}}

ReportForm(u) ==
    IF "feedback" \in u.work THEN {}
    ELSE {Closes(u, "report"), Opens(u, "keyboard")}
         \cup (IF Reporting(u) THEN {} ELSE Hires(u, "feedback"))

DataRequest(u) ==
    LET c == Closes(u, "request")
    IN {c} \cup IF "request" \in u.work THEN {} ELSE Hires(c, "request")

\* trySendErrorReport
Report(u) == IF Reporting(u) THEN {} ELSE Hires(u, "report")

\* The wizard: its questions, the warning about space, and the report of the batch.
InstallWizard(u) ==
    CASE u.b.phase = "SpaceWarning" -> {CloseWizard(u)}
      [] u.b.phase = "Confirm" -> {CloseWizard(u)} \cup AdvancePick(u)
      [] u.b.phase = "PickPlugin" -> AdvancePluginPick(u, TRUE) \cup AdvancePluginPick(u, FALSE)
      [] u.b.phase \in ToSet(PickPhase) -> Pick(u)
      [] u.b.phase = "Summary" /\ u.b.sure -> SummaryZip(u, FALSE) \cup SummaryZip(u, TRUE)
      [] u.b.phase = "Summary" /\ ~u.b.sure ->
           SummaryZip(u, FALSE) \cup {IF u.b.plugin THEN Off(u) ELSE CloseWizard(u)}

\* Only a button leaves a list of links, and only a finger reports a result.
PressWizard(u) ==
    InstallWizard(u) \cup IF u.b.phase \in ToSet(PickPhase) THEN {CloseWizard(u)} ELSE {}
TouchWizard(u) ==
    InstallWizard(u)
    \cup IF u.b.phase = "Summary" /\ ~u.b.sure
            /\ ToSet(u.b.results) \cap {"Failed", "Kept", "Deleted"} # {}
         THEN Report(u) ELSE {}

\* The progress dialog: an archive to decide about, a job to pause or to cancel, a
\* result to close or to report.
Progress(u) ==
    CASE u.s.outcome = "failed" /\ u.s.zip ->
           Report(u)
           \cup (IF Running(u) /\ u.b.waiting
                 THEN ResolveRecovery(u, TRUE) \cup ResolveRecovery(u, FALSE)
                 ELSE IF u.i.zip THEN {Recovers(u)} ELSE {})
      [] u.s.outcome = "none" -> PausedOr(u) \cup Cancelled(u)
      [] OTHER -> {Close(u)} \cup IF u.s.outcome = "failed" THEN Report(u) ELSE {}

-----------------------------------------------------------------------------
(* The page *)

\* setInstallProgress on the screen: the badges are read again once a result is closed,
\* and the protection of the display leaves with the phase of the job.
Told(u, active, outcome, needs, zip) ==
    LET dark == IF active /\ outcome = "none" THEN {u, Closes(u, "protection")}
                ELSE {Closes(u, "protection")}
        stale == ~active /\ u.s.outcome \in {"ok", "failed"} /\ u.ui.filter = "state"
    IN Then({IF stale THEN [x EXCEPT !.view = <<>>] ELSE x : x \in dark},
            LAMBDA x : SetInstallProgress(x, active, outcome, needs, zip))

\* triggerSelfUpdateAction with an update found; the thread may fail to start.
StartUpdate(u) ==
    LET c == [u EXCEPT !.ui.mode = u.ui.back]
        failed == [c EXCEPT !.faults = @ + 1, !.t.mixed = @ \/ Running(u) \/ u.e.running]
    IN IF Updating(u) \/ u.s.active THEN {}
       ELSE (IF Cardinality(u.work) < MaxWork
             THEN Told([c EXCEPT !.work = @ \cup {"update"}], TRUE, "none", FALSE, FALSE)
             ELSE {})
            \cup (IF u.faults < MaxFaults
                  THEN Then(Told(failed, TRUE, "none", FALSE, FALSE),
                            LAMBDA x : Told(x, TRUE, "failed", FALSE, FALSE))
                  ELSE {})

Settings(u) ==
    {[u EXCEPT !.ui.mode = u.ui.back], Opens(u, "theme")} \cup StartUpdate(u)

MovesFocus(u) == {[u EXCEPT !.ui.sel = n] : n \in DOMAIN u.view}

\* startOpeningDetail
OpensDetail(u) == IF Selected(u) THEN {[u EXCEPT !.ui.mode = "OPENING_DETAIL"]} ELSE {}

Detail(u) ==
    {[u EXCEPT !.ui.mode = "CLOSING_DETAIL"]} \cup FocusedLink(u) \cup OpenRequest(u)
    \cup IF u.ui.tab = Home /\ Selected(u) THEN OpenData(u) ELSE {}

FilterButton(u) == IF CanShowFilter(u) THEN {Opens(u, "filter")} ELSE {}

PressPage(u) ==
    CASE Mode(u, {"FULL_CATALOG"}) ->
           MovesFocus(u) \cup OpensDetail(u) \cup {Opens(u, "keyboard")} \cup FilterButton(u)
           \cup IF u.ui.filter # "all" THEN Filters(u, "all") ELSE {}
      [] Mode(u, {"SPLIT_DETAIL"}) -> MovesFocus(u) \cup Detail(u)
      [] OTHER -> {}

TouchPage(u) ==
    OpenStorage(u) \cup OpenReport(u) \cup FilterButton(u) \cup ChangeTab(u)
    \cup {Opens(u, "webQr"), Opens(u, "keyboard")}
    \cup (IF u.ui.filter = "some" THEN Filters(u, "all") ELSE {})
    \cup MovesFocus(u)
    \cup CASE Mode(u, {"FULL_CATALOG"}) -> OpensDetail(u)
           [] Mode(u, {"SPLIT_DETAIL"}) -> Detail(u)
           [] OTHER -> {}

\* SELECT, START, L and R, which the dialogs below the settings do not keep to
\* themselves.
Keys(u) ==
    (IF u.b.phase = "Summary" THEN {} ELSE OpenSettings(u))
    \cup (IF "report" \in u.open \/ u.b.phase \in {"Running", "Summary"}
             \/ (u.s.active /\ u.s.outcome = "none")
          THEN {} ELSE {Off(u)})
    \cup (IF u.b.phase # "Hidden" \/ u.reboot
             \/ u.open \cap (Dialogs \ {"keyboard", "data", "protection"}) # {}
          THEN {} ELSE ChangeTab(u))

-----------------------------------------------------------------------------
(* Who answers *)

Present(u) ==
    LET flag == [reboot |-> u.reboot, wizard |-> Wizard(u), progress |-> u.s.active,
                 loading |-> u.ui.loading, settings |-> Mode(u, {"SETTINGS"}),
                 transition |-> Moving(u), page |-> TRUE]
    IN u.open \cup {l \in DOMAIN flag : flag[l]}

\* Of the layers that are there the first in the order answers.
Answers(order, layer, u) ==
    LET present == Present(u)
    IN \E n \in DOMAIN order :
          /\ order[n] = layer /\ layer \in present
          /\ \A m \in 1 .. n - 1 : order[m] \notin present

\* The order in which handleInput tests the flags.
ButtonOrder == <<"keyboard", "data", "storage", "savedZip", "archive", "reboot", "plugin",
                 "essential", "psp", "transition", "webQr", "protection", "theme", "filter",
                 "settings", "wizard", "request", "report", "news", "progress", "loading",
                 "page">>

\* The order in which handleTouch does, which the keyboard keeps out.
TouchOrder == <<"keyboard", "transition", "archive", "protection", "report", "data",
                "storage", "savedZip", "webQr", "filter", "reboot", "plugin", "essential",
                "psp", "theme", "news", "wizard", "progress", "settings", "loading",
                "request", "page">>

\* SELECT and SQUARE together open the storage from any dialog tested after them.
Chord == {"webQr", "protection", "theme", "filter", "settings", "wizard", "request",
          "report", "news", "progress", "loading", "page"}

\* The dialogs tested after SELECT, START, L and R.
Keyed == {"wizard", "request", "report", "news", "progress", "loading", "page"}

Pressed(layer, worlds) ==
    /\ pc = "input" /\ events < MaxEvents
    /\ Answers(ButtonOrder, layer, Now)
    /\ events' = events + 1
    /\ \E u \in worlds : Show(u, "touch")

PressData == Pressed("data", DataMenu(Now))
PressStorageMenu == Pressed("storage", PressStorage(Now))
PressSavedZip == Pressed("savedZip", SavedZip(Now))
PressArchive == Pressed("archive", ArchiveNotice(Now))
PressReboot == Pressed("reboot", RebootDialog(Now))
PressPlugin == Pressed("plugin", PluginChoice(Now))
PressEssential == Pressed("essential", EssentialPrompt(Now))
PressPsp == Pressed("psp", PspSetup(Now))
PressWebQr == Pressed("webQr", WebQr(Now))
PressProtection == Pressed("protection", Protection(Now))
PressTheme == Pressed("theme", ThemePicker(Now))
PressFilter == Pressed("filter", FilterMenu(Now))
PressSettings == Pressed("settings", Settings(Now))
PressInstallAll == Pressed("wizard", PressWizard(Now))
PressRequest == Pressed("request", DataRequest(Now))
PressReport == Pressed("report", ReportForm(Now))
PressNews == Pressed("news", News(Now))
PressProgress == Pressed("progress", Progress(Now))
PressCatalog == Pressed("page", PressPage(Now))
PressChord == \E layer \in Chord : Pressed(layer, OpenStorage(Now))
PressKey == \E layer \in Keyed : Pressed(layer, Keys(Now))

-----------------------------------------------------------------------------
(* The end of a frame, and the loop of main.cpp *)

\* updateTransition
Transition(u) ==
    {u} \cup CASE Mode(u, {"OPENING_DETAIL"}) -> {[u EXCEPT !.ui.mode = "SPLIT_DETAIL"]}
               [] Mode(u, {"CLOSING_DETAIL"}) -> {[u EXCEPT !.ui.mode = "FULL_CATALOG"]}
               [] OTHER -> {}

\* pollSelfUpdateProgress: the update borrows the progress dialog, and the queues are
\* told of it as of a job of their own.
PollUpdate(u) ==
    IF ~Updating(u) THEN {u}
    ELSE LET ended(o) == [u EXCEPT !.work = @ \ {"update"}, !.t.mixed = @ \/ Running(u) \/ u.e.running,
                                   !.faults = IF o = "failed" THEN @ + 1 ELSE @]
         IN Told(u, TRUE, "none", FALSE, FALSE)
            \cup UNION {Told(ended(o), TRUE, o, FALSE, FALSE) :
                        o \in {"ok"} \cup IF u.faults < MaxFaults THEN {"failed"} ELSE {}}

\* protectionTick, after minutes of the same phase of a job.
ProtectionTick(u) ==
    {u} \cup IF u.s.active /\ u.s.outcome = "none" THEN {Opens(u, "protection")} ELSE {}

\* advanceInstallFilterScan: the view grows at its end.
FilterScan(u) ==
    IF u.ui.filter # "state" \/ u.ui.loading \/ u.s.active \/ Mode(u, {"SETTINGS"}) THEN {u}
    ELSE {[u EXCEPT !.view = v] : v \in {x \in Views(u.ui.list) : IsPrefix(u.view, x)}}

\* updateAndDraw after the input; a keyboard that was opened ends the frame.
FrameEnd(u) ==
    LET kept == {u} \cup IF AutoKeepDue(u) THEN AutoKeep(u) ELSE {}
    IN IF "keyboard" \in u.open THEN kept
       ELSE Then(Then(Then(Then(kept, Transition), PollUpdate), ProtectionTick), FilterScan)

\* setCatalogItems and setActiveCatalog: another page, at its top and without a filter.
Taken(u) ==
    {[Closes(u, "filter") EXCEPT
        !.view = list,
        !.ui = [@ EXCEPT !.list = list, !.filter = "all", !.sel = 1]] : list \in Lists[u.ui.tab]}

\* refreshCatalogItems: the same page from a newer list; the selection follows its
\* application, and a detail whose application is gone is closed.
Refreshed(u) ==
    LET with(list) == Rebuilt([u EXCEPT !.ui.list = list])
        at(x) == {n \in DOMAIN x.view : Selected(u) /\ x.view[n] = TheApp(u)}
        last(x) == IF x.view = <<>> THEN 1 ELSE Len(x.view)
    IN {IF at(x) # {} THEN [x EXCEPT !.ui.sel = CHOOSE n \in at(x) : TRUE]
        ELSE [x EXCEPT !.ui.sel = IF @ > last(x) THEN last(x) ELSE @,
                       !.ui.mode = "FULL_CATALOG"]
        : x \in UNION {with(list) : list \in Lists[u.ui.tab]}}

\* A catalog that was asked for comes, or does not; a newer one replaces it unasked
\* (CatalogRefresh says when).
CatalogComes(u) ==
    {u} \cup IF u.ui.loading
             THEN {[x EXCEPT !.ui.loading = FALSE, !.stage = IF @ = "catalog" THEN "theme" ELSE @]
                   : x \in {u} \cup Taken(u)}
             ELSE Refreshed(u)

\* The screen is told what the installer shows.
Polled(u) ==
    Then(Told(Seen(u), u.i.st # "Idle", OutcomeOf(u.i), u.i.reboot, u.i.zip), TimesOut)

At(u, s) == [u EXCEPT !.stage = s]

\* The first choice of a theme, then the news, then the plugins most programs need.
ThemeStep(u) ==
    IF u.stage # "theme" \/ "theme" \in u.open THEN {u}
    ELSE {At(u, "news")} \cup IF u.s.active THEN {} ELSE {At(Opens(u, "theme"), "news")}

NewsStep(u) ==
    IF u.stage # "news" \/ u.s.active \/ u.open \cap {"news", "theme"} # {} THEN {u}
    ELSE {u, At(u, "essential"), At(Opens(u, "news"), "essential")}

\* tryShowEssentialPluginsPrompt, once.
EssentialStep(u) ==
    IF u.s.active \/ u.open \cap {"news", "theme", "essential"} # {} \/ u.e.running \/ u.reboot
       \/ u.stage # "essential" \/ u.ui.loading
    THEN {u}
    ELSE {At(u, "over")}
         \cup {[At(Opens(u, "essential"), "over") EXCEPT !.e.left = n] : n \in 1 .. Essential}

\* openArchiveServiceWarningIfReady, once the dialogs of the start are over.  Whether a
\* notice is queued (by the probe of the start, or by a download that failed at the
\* archive's server) is left open.
NoticeStep(u) ==
    LET ready ==
            /\ u.stage = "over" /\ ~u.e.running /\ ~u.reboot
            /\ ~u.s.active /\ ~u.ui.loading /\ ~Wizard(u) /\ ~Moving(u) /\ ~Mode(u, {"SETTINGS"})
            /\ u.open \cap {"theme", "news", "essential", "psp", "filter", "webQr", "report",
                            "request", "keyboard"} = {}
    IN {u} \cup IF ready THEN {Opens(u, "archive")} ELSE {}

\* The next frame begins by closing a filter menu whose button is gone.
FilterStep(u) ==
    {IF "keyboard" \notin u.open /\ ~CanShowFilter(u) THEN Closes(u, "filter") ELSE u}

MainLoop(u) ==
    Then(Then(Then(Then(Then(Then(CatalogComes(u), Polled), ThemeStep), NewsStep),
                   EssentialStep), NoticeStep), FilterStep)

Touched(layer, worlds) ==
    /\ pc # "off" /\ events < MaxEvents
    /\ Answers(TouchOrder, layer, Now)
    /\ events' = events + 1
    /\ \E u \in Then(Then(worlds, FrameEnd), MainLoop) : Show(u, "input")

TouchArchive == Touched("archive", ArchiveNotice(Now))
TouchProtection == Touched("protection", Protection(Now))
TouchReport == Touched("report", ReportForm(Now))
TouchData == Touched("data", DataMenu(Now))
TouchStorageMenu == Touched("storage", TouchStorage(Now))
TouchSavedZip == Touched("savedZip", SavedZip(Now))
TouchWebQr == Touched("webQr", WebQr(Now))
TouchFilter == Touched("filter", FilterMenu(Now))
TouchReboot == Touched("reboot", RebootDialog(Now))
TouchPlugin == Touched("plugin", PluginChoice(Now))
TouchEssential == Touched("essential", EssentialPrompt(Now))
TouchPsp == Touched("psp", PspSetup(Now))
TouchTheme == Touched("theme", ThemePicker(Now))
TouchNews == Touched("news", News(Now))
TouchInstallAll == Touched("wizard", TouchWizard(Now))
TouchProgress == Touched("progress", Progress(Now))
TouchSettings == Touched("settings", Settings(Now))
TouchRequest == Touched("request", DataRequest(Now))
TouchCatalog == Touched("page", TouchPage(Now))
NoTouch == /\ pc = "touch" \/ (pc = "input" /\ "keyboard" \notin open)
           /\ UNCHANGED events
           /\ \E u \in Then(FrameEnd(Now), MainLoop) : Show(u, "input")

\* While the keyboard is up a frame does nothing else; what was typed is searched for,
\* unless it is a line of the report.
KeyboardStays == /\ pc = "input" /\ "keyboard" \in open /\ UNCHANGED events
                 /\ \E u \in MainLoop(Now) : Show(u, "input")
KeyboardEnds ==
    /\ pc = "input" /\ "keyboard" \in open /\ UNCHANGED events
    /\ LET c == Closes(Now, "keyboard")
       IN \E u \in {c} \cup (IF "report" \in open THEN {}
                             ELSE Filters(c, "some") \cup Filters(c, "all")) :
             Show(u, "input")

\* A frame finds a thread of the screen ended.  A feedback that was sent closes its
\* form, and a menu that was to be closed closes with its thread.
WorkEnds ==
    /\ pc = "input" /\ "keyboard" \notin open /\ UNCHANGED events
    /\ \E w \in work \ {"update"} :
          LET u == [Now EXCEPT !.work = @ \ {w},
                               !.ui.sure = @ /\ w \notin {"scan", "remove"}]
          IN \E x \in {u} \cup CASE w = "feedback" -> {Closes(u, "report")}
                                  [] w = "data" -> {Closes(u, "data")}
                                  [] OTHER -> {} :
                Show(x, "input")

\* The service works beside the frames; nothing of it ends in the microseconds between the
\* buttons and the finger of one.
Serves == pc = "input" /\ JobEnds /\ UNCHANGED <<open, ui, work, stage, events, pc>>

Next ==
    \/ PressData \/ PressStorageMenu \/ PressSavedZip \/ PressArchive \/ PressReboot
    \/ PressPlugin \/ PressEssential \/ PressPsp \/ PressWebQr \/ PressProtection
    \/ PressTheme \/ PressFilter \/ PressSettings \/ PressInstallAll \/ PressRequest
    \/ PressReport \/ PressNews \/ PressProgress \/ PressCatalog \/ PressChord
    \/ PressKey
    \/ TouchArchive \/ TouchProtection \/ TouchReport \/ TouchData \/ TouchStorageMenu
    \/ TouchSavedZip \/ TouchWebQr \/ TouchFilter \/ TouchReboot \/ TouchPlugin
    \/ TouchEssential \/ TouchPsp \/ TouchTheme \/ TouchNews \/ TouchInstallAll
    \/ TouchProgress \/ TouchSettings \/ TouchRequest \/ TouchCatalog \/ NoTouch
    \/ KeyboardStays \/ KeyboardEnds \/ WorkEnds \/ Serves

Spec == Init /\ [][Next]_vars

-----------------------------------------------------------------------------
(* Properties *)

\* How the job of a step ended when the report gives it this result.
Agrees(result, end) ==
    \/ result = "Completed" /\ end = "ok"
    \/ result = "Cancelled" /\ end = "cancelled"
    \/ result = "Failed" /\ end \in {"none", "failed"}
    \/ result \in {"Kept", "Deleted"} /\ end = "failed"
    \/ result \in {"Skipped", "NotAttempted"} /\ end = "none"

\* The report of Install All says of every step what became of it: a step reported as
\* completed, failed, cancelled, kept or left out ended that way, also when plugins the
\* user left out stand before the queue, steps were refused and the report was aborted
\* (installAllTryAdvanceFromProgress, installAllFinishReport).  A result read while the
\* other queue or a link also used the service is excepted (truth.mixed).
ResultsTrue ==
    truth.mixed \/ batch.phase # "Summary" \/
    \A n \in DOMAIN batch.results : Agrees(batch.results[n], truth.ended[n])

\* The receipt that the files of a revision are installed is written only when every
\* pack of files of the batch was installed, and the batch had one: a refused, failed or
\* cancelled pack takes the receipt away for good (installAllRevisionFilesSucceeded_).
\* An application that a background refresh put at the index of the chosen one is
\* excepted (truth.app; README, section 15).
RevisionHonest ==
    truth.receipt /\ ~truth.mixed /\ truth.app # NoApp =>
        /\ \A n \in DOMAIN truth.ended : truth.kinds[n] \in FileKinds => truth.ended[n] = "ok"
        /\ \E n \in DOMAIN truth.ended : truth.kinds[n] \in FileKinds

\* A running queue has its job, or that job's unread result, or an archive just decided
\* about: it is never left waiting for nothing, with START refused and no dialog to end
\* it (installAllStartNextStep, installAllTryAdvanceFromProgress).
BatchHasJob ==
    batch.phase = "Running" /\ ~truth.mixed =>
        \/ installer.of = Step(batch) /\ installer.st # "Idle"
        \/ batch.waiting /\ batch.resolved

\* The restart that an installed plugin needs is not forgotten: its dialog is up, or a
\* queue, a report or the result that will raise it (setInstallProgress,
\* essentialPluginsTryAdvanceFromProgress, the Summary's close).  An essential queue whose
\* next start was refused does forget it, a report over which another plugin was installed
\* may, and so does a wizard opened over the report (truth.dropped; README, section 15).
RebootKept ==
    truth.owed /\ ~truth.mixed /\ ~truth.dropped /\ pc # "off" =>
        reboot \/ essential.running \/ batch.plugin \/ installer.reboot

\* Saved archives are never removed while a job downloads or extracts, though many
\* dialogs can start a job and the removal is a thread that outlives the press which
\* confirmed it (startStorageOperation, closeStorageMenu).
StorageAlone == "remove" \in work => installer.st \notin {"Working", "Paused"}
=============================================================================
