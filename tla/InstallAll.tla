---------------------------- MODULE InstallAll ----------------------------
(***************************************************************************)
(* "Install All" and its neighbours on the catalog screen                  *)
(* (ui/full_catalog_screen.cpp): the wizard that asks which links to take,  *)
(* the queue it starts, the report at its end, the queue of essential       *)
(* plugins, and the one install service both of them use.                   *)
(*                                                                          *)
(* The screen never waits for the service.  It asks for a job through       *)
(* linkAction_ and is told, once per frame, what the service shows          *)
(* (setInstallProgress); a queue goes on when it sees the end of its job.   *)
(* A frame may move both queues, so their steps are functions from a        *)
(* "world" (the record of this module's variables) to the set of the worlds *)
(* the step may end in, and a frame composes them.  CatalogScreen adds the  *)
(* dialogs, the input and the main loop.                                    *)
(***************************************************************************)
EXTENDS Integers, Sequences, SequencesExt

CONSTANTS
    Apps,         \* the applications of the catalogs
    Options,      \* Options[a][k]: how many links of kind k the page of a has
    Plugins,      \* Plugins[a]: how many plugin links
    Essential,    \* how many of the three essential plugins the console misses at most
    MaxFaults     \* refused starts, failed jobs and failed choices of a run

Kinds == <<"app", "game", "data">>
FileKinds == {"game", "data"}

ASSUME InstallAllAssumption ==
    /\ Options \in [Apps -> [ToSet(Kinds) -> Nat]]
    /\ Plugins \in [Apps -> Nat]
    /\ Essential \in 0 .. 3
    /\ MaxFaults \in Nat

VARIABLES
    batch,      \* the wizard, its queue and its report; its phase is Hidden, Confirm, one
                \* of the Pick phases, SpaceWarning, Running or Summary
    essential,  \* the prompt and the queue of the essential plugins
    installer,  \* what the install service shows
    shown,      \* the screen's own copies of it
    reboot,     \* pluginRebootModal_
    view,       \* catalogView(): the applications of the list, in order
    faults,
    truth       \* what happened, whatever the screen believes

jobVars == <<batch, essential, installer, shown, reboot, view, faults, truth>>

World == [b |-> batch, e |-> essential, i |-> installer, s |-> shown,
          reboot |-> reboot, view |-> view, faults |-> faults, t |-> truth]

Become(w) ==
    /\ batch' = w.b /\ essential' = w.e /\ installer' = w.i /\ shown' = w.s
    /\ reboot' = w.reboot /\ view' = w.view /\ faults' = w.faults
    /\ truth' = [w.t EXCEPT !.mixed = @ \/ (w.b.phase = "Running" /\ w.e.running)]

NoApp == "none"
PickPhase == <<"PickDownload", "PickGameFiles", "PickDataFiles">>
Terminal == {"Completed", "Failed", "Cancelled"}

NoBatch == [phase |-> "Hidden", item |-> 0, app |-> NoApp,
            chosen |-> <<"open", "open", "open">>,
            offers |-> 0, asked |-> 0, approved |-> 0,
            queue |-> <<>>, at |-> 1, skipped |-> 0, results |-> <<>>,
            last |-> "unset", waiting |-> FALSE, resolved |-> FALSE,
            tried |-> FALSE, autoFailed |-> FALSE,
            plugin |-> FALSE, hasFiles |-> FALSE, filesOk |-> FALSE, sure |-> FALSE]

\* `seen`: the screen was told of the result.
NoJob == [st |-> "Idle", zip |-> FALSE, reboot |-> FALSE, kind |-> "none", of |-> 0, seen |-> FALSE]

NoTruth == [app |-> NoApp, ended |-> <<>>, kinds |-> <<>>, receipt |-> FALSE, owed |-> FALSE,
            mixed |-> FALSE, dropped |-> FALSE]

-----------------------------------------------------------------------------
(* The install service, as the screen uses it *)

\* The outcome main.cpp passes to setInstallProgress.
OutcomeOf(i) ==
    CASE i.st = "Completed" -> "ok"
      [] i.st = "Failed" -> "failed"
      [] i.st = "Cancelled" -> "cancelled"
      [] OTHER -> "none"

\* installAcknowledge_: nothing while a job works or its archive waits for a choice.
Ack(w) == IF w.i.st \in Terminal /\ ~w.i.zip THEN [w EXCEPT !.i = NoJob] ELSE w

\* requestInstall takes a job when it works on none; an old result is acknowledged.
Takes(w) == w.i.st = "Idle" \/ (w.i.st \in Terminal /\ ~w.i.zip)

\* The history of result `of` of the batch (0: a job that is not the batch's).
Noted(w, of, end) == IF of = 0 THEN w ELSE [w EXCEPT !.t.ended[of] = end]

\* linkAction_ that starts a job.
Starts(w, kind, of) ==
    Noted([w EXCEPT !.i = [NoJob EXCEPT !.st = "Working", !.kind = kind, !.of = of]],
          of, "started")

\* linkAction_ that answers FALSE: the service works, the console is offline, no
\* destination was chosen, or the request failed at once and shows that.
Refusals(w) ==
    IF ~Takes(w) THEN {w}
    ELSE IF w.faults = MaxFaults THEN {}
    ELSE {[w EXCEPT !.faults = @ + 1],
          [w EXCEPT !.faults = @ + 1, !.i = [NoJob EXCEPT !.st = "Failed"]]}

\* A link started by hand: what it may lead to.  Beside a queue that waits for its own
\* job the screen cannot tell the two results apart; under a report it leaves the restart a
\* plugin needs to the report, which does not know of it.
Link(w, kind) ==
    LET x == [w EXCEPT !.t.mixed = @ \/ (Takes(w) /\ (w.b.phase = "Running" \/ w.e.running)),
                       !.t.dropped = @ \/ (Takes(w) /\ kind = "plugin" /\ w.b.phase = "Summary")]
    IN Refusals(x) \cup (IF Takes(w) THEN {Starts(x, kind, 0)} ELSE {})

\* The worker ends its job.  A failed extraction leaves an archive to decide about.
JobEnds ==
    /\ installer.st = "Working"
    /\ \E end \in {"Completed", "Failed"}, zip \in BOOLEAN :
          /\ zip => end = "Failed" /\ installer.kind \in FileKinds
          /\ end = "Failed" => faults < MaxFaults
          /\ LET needs == end = "Completed" /\ installer.kind = "plugin"
                 i == [installer EXCEPT !.st = end, !.zip = zip, !.reboot = needs]
             IN Become(Noted([World EXCEPT !.i = i, !.t.owed = @ \/ needs,
                                           !.faults = IF end = "Failed" THEN @ + 1 ELSE @],
                             installer.of, OutcomeOf(i)))

\* A good result that asks for nothing closes by itself, eight seconds after it was
\* published (maybeAutoAcknowledge): the screen has seen it, no frame being that long.
Seen(w) == [w EXCEPT !.i.seen = @ \/ w.i.st \in Terminal]
TimesOut(w) == {w} \cup IF w.i.st = "Completed" /\ ~w.i.reboot THEN {Ack(w)} ELSE {}

\* The result on the screen is closed.  For one frame after a queue went on it is the
\* result of the step before, and a step that failed at once is closed unseen.
Close(w) == Ack([w EXCEPT !.t.mixed = @ \/ (w.i.st \in Terminal /\ ~w.i.seen)])

\* The user's cancel: the job stops, or ends by itself first.
Cancelled(w) ==
    {w} \cup IF w.i.st \in {"Working", "Paused"}
             THEN {Noted([w EXCEPT !.i.st = "Cancelled"], w.i.of, "cancelled")} ELSE {}

\* installPause_ and installResume_; only a download can be paused.
PausedOr(w) ==
    {w} \cup CASE w.i.st = "Working" -> {[w EXCEPT !.i.st = "Paused"]}
               [] w.i.st = "Paused" -> {[w EXCEPT !.i.st = "Working"]}
               [] OTHER -> {}

\* installZipRecovery_: the archive is kept or deleted, and the result acknowledged.
Recovers(w) == [w EXCEPT !.i = NoJob]

-----------------------------------------------------------------------------
(* The queue and its report *)

\* Variant: the report is written at the index of the queue.
StepAtQueue(b) == b.at
Step(b) == b.skipped + b.at          \* the result the step at `at` writes
Running(w) == w.b.phase = "Running"
More(b) == b.at <= Len(b.queue)

\* Variant: only a pack of data files counts.
SpoilsData(b, n) == b.queue[n] = "data"
\* What a step that did not succeed does to the receipt of the data revision.
Spoils(b, n) == b.queue[n] \in FileKinds

\* installAllFinishReport: the receipt, the report, and no queue.  The choices of the
\* wizard, which nothing reads before openInstallAllWizard resets them, go with it.
FinishReport(w, aborted) ==
    LET b == w.b
    IN [Ack(w) EXCEPT
          !.t.receipt = ~aborted /\ b.hasFiles /\ b.filesOk,
          !.b = [NoBatch EXCEPT
                   !.phase = "Summary", !.plugin = b.plugin,
                   !.results = [r \in DOMAIN b.results |->
                       IF aborted /\ b.results[r] = "Pending" THEN "NotAttempted"
                       ELSE b.results[r]]]]

\* The world after the starts of steps `at` .. n - 1 were refused, one after the other.
AfterRefusals(w, n) ==
    LET b == w.b
        gone == b.at .. n - 1
    IN [w EXCEPT
          !.i = IF gone = {} THEN @ ELSE Ack(w).i,
          !.faults = IF Takes(w) THEN @ + (n - b.at) ELSE @,
          !.b.at = n,
          !.b.last = "unset",
          !.b.filesOk = @ /\ \A g \in gone : ~Spoils(b, g),
          !.b.results = [r \in DOMAIN b.results |->
              IF r - b.skipped \in gone THEN "Failed" ELSE b.results[r]]]

\* Variant: after a refused start the queue stays where it is.
StartOnce(w) ==
    IF ~Running(w) \/ w.b.waiting THEN {w}
    ELSE IF ~More(w.b) THEN {FinishReport(w, FALSE)}
    ELSE (IF Takes(w) THEN {Starts(w, w.b.queue[w.b.at], Step(w.b))} ELSE {})
         \cup {AfterRefusals(w, w.b.at + 1)}
\* installAllStartNextStep: the first step that starts, or the report.
StartNextStep(w) ==
    LET b == w.b
        end == Len(b.queue) + 1
        stops == IF Takes(w) THEN {n \in b.at .. end : n - b.at <= MaxFaults - w.faults}
                 ELSE {end}
        from(n) == AfterRefusals(w, n)
    IN IF ~Running(w) \/ b.waiting THEN {w}
       ELSE {IF n = end THEN FinishReport(from(n), FALSE)
             ELSE Starts(from(n), b.queue[n], b.skipped + n) : n \in stops}

Goes(w) == StartNextStep([w EXCEPT !.b.at = @ + 1])

\* installAllTryAdvanceFromProgress: the queue sees how its job ended.
TryAdvance(w, outcome, needs) ==
    LET b == w.b
        r == Step(b)
        seen == [w EXCEPT !.b.last = outcome,
                          !.b.filesOk = @ /\ (outcome = "ok" \/ ~Spoils(b, b.at))]
    IN CASE ~Running(w) -> {w}
         [] Running(w) /\ b.waiting ->
              IF b.resolved /\ outcome = "none" /\ ~w.s.active /\ More(b)
              THEN Goes([w EXCEPT !.b.waiting = FALSE, !.b.resolved = FALSE,
                                  !.b.tried = FALSE, !.b.autoFailed = FALSE])
              ELSE {w}
         [] Running(w) /\ ~b.waiting /\ outcome \in {"none", b.last} -> {w}
         [] Running(w) /\ ~b.waiting /\ outcome \notin {"none", b.last} /\ ~More(b) ->
              {FinishReport(w, TRUE)}
         [] OTHER ->
              CASE outcome = "ok" ->
                     Goes(Ack([seen EXCEPT !.b.results[r] = "Completed",
                                           !.b.plugin = @ \/ (b.queue[b.at] = "plugin" /\ needs)]))
                [] outcome = "failed" /\ w.s.zip ->
                     {[seen EXCEPT !.b.waiting = TRUE, !.b.resolved = FALSE,
                                   !.b.tried = FALSE, !.b.autoFailed = FALSE]}
                [] outcome = "failed" /\ ~w.s.zip ->
                     Goes(Ack([seen EXCEPT !.b.results[r] = "Failed"]))
                [] outcome = "cancelled" ->
                     {FinishReport([seen EXCEPT !.b.results[r] = "Cancelled"], TRUE)}

\* installAllResolveRecovery: the archive of the failed step is kept or deleted.
ResolveRecovery(w, keep) ==
    IF Running(w) /\ w.b.waiting /\ ~w.b.resolved /\ More(w.b)
    THEN (IF w.i.zip THEN {[Recovers(w) EXCEPT
                              !.b.results[Step(w.b)] = IF keep THEN "Kept" ELSE "Deleted",
                              !.b.resolved = TRUE]} ELSE {})
         \cup (IF w.faults < MaxFaults \/ ~w.i.zip
               THEN {[w EXCEPT !.faults = IF w.i.zip THEN @ + 1 ELSE @]} ELSE {})
    ELSE {w}

\* After ten seconds without an answer the frame keeps the archive by itself, once.
AutoKeepDue(w) == Running(w) /\ w.b.waiting /\ ~w.b.resolved /\ ~w.b.tried /\ w.s.zip
AutoKeep(w) == {IF x.b.resolved THEN x ELSE [x EXCEPT !.b.autoFailed = TRUE] :
                x \in ResolveRecovery([w EXCEPT !.b.tried = TRUE], TRUE)}

-----------------------------------------------------------------------------
(* The wizard *)

\* openInstallAllWizard, past its guards: everything of an earlier batch is forgotten.
OpenBatch(w, item) ==
    [w EXCEPT !.i.of = 0, !.b = [NoBatch EXCEPT !.phase = "Confirm", !.item = item],
              !.t.app = w.view[item], !.t.ended = <<>>, !.t.kinds = <<>>,
              !.t.receipt = FALSE, !.t.dropped = @ \/ w.b.plugin]

\* closeInstallAllWizard: a running queue is not discarded.
CloseWizard(w) == IF Running(w) THEN w ELSE [w EXCEPT !.b = NoBatch]

InView(w) == w.b.item \in DOMAIN w.view
App(w) == w.view[w.b.item]

\* installAllStartQueue: the queue is made of the application the index denotes now.
StartQueue(w) ==
    LET b == w.b
        a == App(w)
        file(k) == IF b.chosen[k] = "one" /\ Options[a][Kinds[k]] > 0 THEN <<Kinds[k]>> ELSE <<>>
        queue == file(1) \o file(2) \o file(3)
                 \o [n \in 1 .. IF b.approved < Plugins[a] THEN b.approved ELSE Plugins[a]
                      |-> "plugin"]
        results == b.results \o [n \in 1 .. Len(queue) |-> "Pending"]
        has == \E k \in {2, 3} : b.chosen[k] = "one"
        made == [w EXCEPT !.b = [b EXCEPT
                   !.app = a, !.queue = queue, !.at = 1, !.results = results,
                   !.skipped = Len(b.results), !.last = "unset", !.plugin = FALSE,
                   !.hasFiles = has, !.filesOk = has, !.offers = 0, !.asked = 0, !.approved = 0,
                   !.waiting = FALSE, !.resolved = FALSE, !.tried = FALSE, !.autoFailed = FALSE],
                 !.t.mixed = @ \/ w.i.st # "Idle",
                 !.t.app = IF @ = a THEN a ELSE NoApp,
                 !.t.ended = [r \in DOMAIN results |-> "none"],
                 !.t.kinds = [r \in 1 .. Len(b.results) |-> "plugin"] \o queue]
    IN IF ~InView(w) THEN {CloseWizard(w)}
       ELSE StartNextStep([made EXCEPT !.b.phase = "Running"])
            \cup (IF queue = <<>> THEN {} ELSE {[made EXCEPT !.b.phase = "SpaceWarning"]})

\* installAllAdvancePick: a kind with one link chooses itself, one with more asks.
AdvancePick(w) ==
    LET b == w.b
        a == App(w)
        asks == {k \in 1 .. 3 : b.chosen[k] = "open" /\ Options[a][Kinds[k]] > 1}
        ask == CHOOSE k \in asks : \A l \in asks : k <= l
        settled(upto) == [k \in 1 .. 3 |->
            IF b.chosen[k] # "open" \/ k >= upto THEN b.chosen[k]
            ELSE IF Options[a][Kinds[k]] = 0 THEN "none" ELSE "one"]
        same == [w EXCEPT !.t.app = IF @ = a THEN a ELSE NoApp]
        picked == [same EXCEPT !.b.chosen = settled(4)]
    IN CASE ~InView(w) -> {CloseWizard(w)}
         [] InView(w) /\ asks # {} ->
              {[same EXCEPT !.b.chosen = settled(ask), !.b.phase = PickPhase[ask]]}
         [] InView(w) /\ asks = {} /\ Plugins[a] > 0 ->
              {[picked EXCEPT !.b.phase = "PickPlugin", !.b.offers = Plugins[a],
                              !.b.asked = 0, !.b.approved = 0]}
         [] OTHER -> StartQueue(picked)

\* A link of the list is taken.
Pick(w) ==
    LET k == CHOOSE n \in 1 .. 3 : PickPhase[n] = w.b.phase
    IN AdvancePick([w EXCEPT !.b.chosen[k] = "one"])

\* installAllAdvancePluginPick: one plugin is approved or left out; then the next.
AdvancePluginPick(w, install) ==
    LET asked == [w EXCEPT
                    !.b.asked = @ + 1,
                    !.b.approved = IF install THEN @ + 1 ELSE @,
                    !.b.results = IF install THEN @ ELSE Append(@, "Skipped")]
    IN CASE ~InView(w) \/ w.b.asked >= w.b.offers \/ Plugins[App(w)] <= w.b.asked ->
              {CloseWizard(w)}
         [] InView(w) /\ asked.b.asked < w.b.offers -> {asked}
         [] OTHER -> StartQueue(asked)

\* installAllSummaryZipChoice for an archive the batch kept: delete asks twice.
SummaryZip(w, keep) ==
    LET kept == {r \in DOMAIN w.b.results : w.b.results[r] = "Kept"}
    IN IF keep \/ kept = {} THEN {[w EXCEPT !.b.sure = FALSE]}
       ELSE IF ~w.b.sure THEN {[w EXCEPT !.b.sure = TRUE]}
       ELSE {[w EXCEPT !.b.sure = FALSE, !.b.results[r] = "Deleted"] : r \in kept}
            \cup {[w EXCEPT !.b.sure = FALSE]}

-----------------------------------------------------------------------------
(* The essential plugins *)

NoQueue == [running |-> FALSE, left |-> 0, begun |-> FALSE, last |-> "unset"]
\* Variant: a queue that stops never offers the restart.
StopsMute(w, tell) == [w EXCEPT !.e = NoQueue]
Stops(w, tell) == [w EXCEPT !.e.running = FALSE, !.e.left = 0, !.e.begun = FALSE,
                            !.e.last = "unset", !.reboot = @ \/ tell]

\* kickNextEssentialPluginInstall: the next one, or the restart all of them need.
KickEssential(w) ==
    IF w.e.left = 0 THEN {Stops(w, TRUE)}
    ELSE (IF Takes(w) THEN {[Starts(w, "plugin", 0) EXCEPT !.e.last = "none"]} ELSE {})
         \cup {[Stops(x, FALSE) EXCEPT !.t.dropped = @ \/ w.e.begun] : x \in Refusals(w)}

\* closeEssentialPluginsPrompt(true)
InstallEssential(w) ==
    KickEssential([w EXCEPT !.e.running = TRUE, !.e.begun = FALSE,
                            !.t.mixed = @ \/ w.i.st # "Idle"])

\* essentialPluginsTryAdvanceFromProgress
EssentialAdvance(w, outcome) ==
    CASE ~w.e.running \/ outcome = w.e.last -> {w}
      [] w.e.running /\ outcome # w.e.last /\ outcome \in {"failed", "cancelled"} ->
           {Stops(w, w.e.begun)}
      [] w.e.running /\ outcome # w.e.last /\ outcome = "ok" ->
           KickEssential(Ack([w EXCEPT !.e.last = outcome, !.e.left = @ - 1,
                                       !.e.begun = TRUE]))
      [] OTHER -> {[w EXCEPT !.e.last = outcome]}

-----------------------------------------------------------------------------
(* What a frame shows *)

\* A successful plugin: the next essential one, or the restart dialog, unless a batch
\* is running or reporting, which asks for the restart itself.
RestartIsDue(w, outcome) ==
    IF w.e.running THEN EssentialAdvance(w, outcome)
    ELSE {[w EXCEPT !.reboot = @ \/ w.b.phase \notin {"Running", "Summary"}]}

\* setInstallProgress: the copies, then the two queues.
SetInstallProgress(w, active, outcome, needs, zip) ==
    LET copies(x) == [x EXCEPT !.s = [active |-> active, outcome |-> outcome, zip |-> zip]]
        first == IF needs /\ outcome = "ok" THEN RestartIsDue(copies(w), outcome)
                 ELSE {copies(w)}
        batched == UNION {TryAdvance(x, outcome, needs) : x \in first}
    IN IF outcome = "ok" THEN batched
       ELSE UNION {EssentialAdvance(x, outcome) : x \in batched}
=============================================================================
